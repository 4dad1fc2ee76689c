------------------------- MODULE PlayerBoost_proof -------------------------
(***************************************************************************)
(* Proofs about the Free Money boost, for any number of concurrent calls,  *)
(* accounts, characters, requests, limits and faults.                      *)
(***************************************************************************)
EXTENDS PlayerBoost, FiniteSetTheorems, WellFoundedInduction, TLAPS

-----------------------------------------------------------------------------
(* The inductive invariant.                                                *)

\* Only an idle slot has no input, and a call marks only what it found out.
CallsKnown ==
    \A h \in Handlers :
        /\ pc[h] # "idle" => call[h] \in Calls
        /\ pc[h] = "mark" => verdict[h] # "none"
        /\ pc[h] # "mark" => verdict[h] = "none"

RowsKnown == \A r \in RequestIds : status[r] # "absent" => row[r] \in Rows

ViewsKnown ==
    \A o \in Overviews :
        /\ current[o] # NoRequest => finding[o] \in {"sent", "unknown"}
        /\ current[o] = NoRequest => finding[o] = "none"

TypeInv == TypeOK /\ CallsKnown /\ RowsKnown /\ ViewsKnown

\* From the first lock to its release a call holds the lock of its request.
LocksHeld ==
    \A h \in Handlers :
        pc[h] \in {"accountLock", "find", "daily", "insert", "release"}
            => h \in requestLock[call[h].request]

\* ... and no other call does.
OneHolder ==
    \A r \in RequestIds : \A g, h \in Handlers :
        g \in requestLock[r] /\ h \in requestLock[r] => g = h

\* ... so the row it did not find is still missing when it inserts it.
StillAbsent ==
    \A h \in Handlers :
        pc[h] \in {"daily", "insert"} => status[call[h].request] = "absent"

\* A call that inserted its row and has not yet posted its command.
HoldsTicket(h) ==
    pc[h] \in {"release", "reserved"} /\ reservation[h] = "inserted"

\* The command of r is spent and produced nothing.
Undeliverable(r) == issued[r] = 1 /\ queued[r] = 0 /\ delivered[r] = 0

\* One command, one mail at most, and none before there is a row.
Counts ==
    \A r \in RequestIds :
        /\ issued[r] <= 1
        /\ queued[r] + delivered[r] <= issued[r]
        /\ mailbox[r] <= delivered[r]
        /\ status[r] = "absent" => issued[r] = 0

Tickets ==
    \A h \in Handlers :
        HoldsTicket(h) => issued[call[h].request] = 0

OneTicket ==
    \A g, h \in Handlers :
        HoldsTicket(g) /\ HoldsTicket(h) /\ call[g].request = call[h].request
            => g = h

\* What reserve returned stays true of the row.
ReservationsTrue ==
    \A h \in Handlers :
        /\ reservation[h] \in {"inserted", "pending", "sent", "failed", "unknown"}
              => /\ pc[h] # "idle"
                 /\ status[call[h].request] # "absent"
                 /\ SameDetails(call[h], call[h].request)
        /\ reservation[h] \in {"sent", "failed"}
              => status[call[h].request] = reservation[h]
        /\ pc[h] \in {"idle", "requestLock", "accountLock", "find", "daily", "insert"}
              => reservation[h] = "none"
        /\ pc[h] \in {"awaiting", "count", "mark"}
              => reservation[h] \in {"inserted", "pending", "unknown"}

\* What a call or an overview is about to mark is what happened in the game.
EvidenceTrue ==
    /\ \A h \in Handlers :
        /\ reply[h] = "sent" => /\ pc[h] # "idle"
                                /\ delivered[call[h].request] = 1
        /\ reply[h] = "failed" => /\ pc[h] # "idle"
                                  /\ Undeliverable(call[h].request)
        /\ verdict[h] = "sent" => delivered[call[h].request] = 1
        /\ verdict[h] = "failed" => Undeliverable(call[h].request)
    /\ \A o \in Overviews :
        finding[o] = "sent" => delivered[current[o]] = 1

StatusTrue ==
    \A r \in RequestIds :
        /\ status[r] = "sent" => delivered[r] = 1
        /\ status[r] = "failed" => Undeliverable(r)

Inv == /\ TypeInv
       /\ LocksHeld
       /\ OneHolder
       /\ StillAbsent
       /\ Counts
       /\ Tickets
       /\ OneTicket
       /\ ReservationsTrue
       /\ EvidenceTrue
       /\ StatusTrue
       /\ AnswersMatchLedger

-----------------------------------------------------------------------------

(* Type correctness.                                                       *)

LEMMA InitTypeInv == Init => TypeInv
BY BoundAssumption, NullAssumption
DEF Init, TypeInv, TypeOK, CallsKnown, RowsKnown, ViewsKnown, Statuses, Rows, Calls,
    Reservations, Verdicts, PCs, Days

LEMMA KeepALockType ==
    ASSUME NEW h \in Handlers, KeepALock(h),
           requestLock \in [RequestIds -> SUBSET Holders],
           accountLock \in [Accounts -> SUBSET Holders]
    PROVE  /\ requestLock' \in [RequestIds -> SUBSET Holders]
           /\ accountLock' \in [Accounts -> SUBSET Holders]
<1>1. \A H \in SUBSET Holders : Kept(H, h) \in SUBSET Holders /\ H \ {h} \in SUBSET Holders
  BY DEF Kept, Holders
<1>2. /\ \A r \in RequestIds : Kept(requestLock[r], h) \in SUBSET Holders
                                /\ requestLock[r] \ {h} \in SUBSET Holders
      /\ \A a \in Accounts : Kept(accountLock[a], h) \in SUBSET Holders
                              /\ accountLock[a] \ {h} \in SUBSET Holders
  BY <1>1
<1>. HIDE DEF Kept, Holders
<1>3. CASE /\ requestLock' = [r \in RequestIds |-> Kept(requestLock[r], h)]
           /\ accountLock' = [a \in Accounts |-> accountLock[a] \ {h}]
  BY <1>2, <1>3
<1>4. CASE /\ requestLock' = [r \in RequestIds |-> requestLock[r] \ {h}]
           /\ accountLock' = [a \in Accounts |-> Kept(accountLock[a], h)]
  BY <1>2, <1>4
<1>. QED
  BY <1>3, <1>4 DEF KeepALock

\* Every step keeps the variables in their types, whatever the locks do.
LEMMA NextTypeInv == TypeInv /\ [Next]_vars => TypeInv'
<1> SUFFICES ASSUME TypeInv, [Next]_vars PROVE TypeInv'
  OBVIOUS
<1> USE NullAssumption, BoundAssumption, OwnerAssumption
    DEF TypeInv, TypeOK, CallsKnown, RowsKnown, ViewsKnown, Calls, Rows,
        Statuses, Reservations, Verdicts, PCs, Holders, table, locks, calls, views, world
<1>1. ASSUME NEW h \in Handlers, NEW c \in Calls, RequestMoney(h, c)
      PROVE  TypeInv'
  BY <1>1 DEF RequestMoney, Goto
<1>2. ASSUME NEW h \in Handlers, AcquireRequestLock(h) PROVE TypeInv'
  BY <1>2 DEF AcquireRequestLock, Goto
<1>3. ASSUME NEW h \in Handlers, AcquireAccountLock(h) PROVE TypeInv'
  <2>1. accountLock' \in [Accounts -> SUBSET Holders]
    BY <1>3 DEF AcquireAccountLock
  <2>2. pc' = [pc EXCEPT ![h] = "find"]
    BY <1>3 DEF AcquireAccountLock, Goto
  <2>3. UNCHANGED <<table, today, requestLock, call, reservation, verdict,
                    reply, views, world, issued, answered, faults>>
    BY <1>3 DEF AcquireAccountLock
  <2>4. pc[h] = "accountLock"
    BY <1>3 DEF AcquireAccountLock
  <2>. QED
    BY <2>1, <2>2, <2>3, <2>4
<1>4. ASSUME NEW h \in Handlers, LockTimeout(h) PROVE TypeInv'
  BY <1>4 DEF LockTimeout, LockIsHeld, ReleaseBothLocks, Return, Goto
<1>5. ASSUME NEW h \in Handlers, FindExisting(h) PROVE TypeInv'
  <2> DEFINE s == status[call[h].request]
             found == IF SameDetails(call[h], call[h].request) THEN s ELSE "conflict"
  <2>5. s = "absent" \/ found \in Reservations
    <3>1. pc[h] = "find"
      BY <1>5, Zenon DEF FindExisting
    <3>. QED  BY <3>1
  <2>6. \/ reservation' = reservation
        \/ s # "absent" /\ reservation' = [reservation EXCEPT ![h] = found]
    BY <1>5, Zenon DEF FindExisting
  <2>1. reservation' \in [Handlers -> Reservations]
    <3> HIDE DEF s, found
    <3>. QED  BY <2>5, <2>6
  <2>2. \E l \in {"daily", "release"} : pc' = [pc EXCEPT ![h] = l]
    BY <1>5, Zenon DEF FindExisting, Goto
  <2>3. UNCHANGED <<table, today, locks, call, verdict, reply, views, world,
                    issued, answered, faults>>
    BY <1>5, Zenon DEF FindExisting
  <2>4. pc[h] = "find"
    BY <1>5, Zenon DEF FindExisting
  <2>. QED
    BY <2>1, <2>2, <2>3, <2>4
<1>6. ASSUME NEW h \in Handlers, ReadDailyTotals(h) PROVE TypeInv'
  <2>1. \/ reservation' = reservation
        \/ reservation' = [reservation EXCEPT ![h] = "limit"]
    BY <1>6, Zenon DEF ReadDailyTotals
  <2>2. \E l \in {"insert", "release"} : pc' = [pc EXCEPT ![h] = l]
    BY <1>6, Zenon DEF ReadDailyTotals, Goto
  <2>3. UNCHANGED <<table, today, locks, call, verdict, reply, views, world,
                    issued, answered, faults>>
    BY <1>6, Zenon DEF ReadDailyTotals
  <2>4. pc[h] = "daily"
    BY <1>6, Zenon DEF ReadDailyTotals
  <2>. QED
    BY <2>1, <2>2, <2>3, <2>4
<1>7. ASSUME NEW h \in Handlers, InsertPending(h) PROVE TypeInv'
  BY <1>7 DEF InsertPending, InsertRow, Goto
<1>8. ASSUME NEW h \in Handlers, ReleaseLocks(h) PROVE TypeInv'
  BY <1>8 DEF ReleaseLocks, ReleaseBothLocks, Goto
<1>9. ASSUME NEW h \in Handlers, HandleReservation(h) PROVE TypeInv'
  <2>1. CASE Refused(h)
    BY <1>9, <2>1 DEF HandleReservation, Refused, Return, Goto
  <2>2. CASE ReplayFinal(h)
    BY <1>9, <2>2 DEF HandleReservation, ReplayFinal, Answer, Answers, Return, Goto
  <2>3. CASE ReconcileExisting(h)
    BY <1>9, <2>3 DEF HandleReservation, ReconcileExisting, Goto
  <2>. QED
    BY <1>9, <2>1, <2>2, <2>3, Zenon DEF HandleReservation
<1>10. ASSUME NEW h \in Handlers, ExecuteCommand(h) PROVE TypeInv'
  BY <1>10 DEF ExecuteCommand, SendsCommand, Goto
<1>11. ASSUME NEW h \in Handlers, ReceiveReply(h) PROVE TypeInv'
  BY <1>11 DEF ReceiveReply, Goto
<1>12. ASSUME NEW h \in Handlers, ReplyUnusable(h) PROVE TypeInv'
  BY <1>12 DEF ReplyUnusable, Goto
<1>13. ASSUME NEW h \in Handlers, CountMatchingMail(h) PROVE TypeInv'
  BY <1>13 DEF CountMatchingMail, FindingOf, Goto
<1>14. ASSUME NEW h \in Handlers, Mark(h) PROVE TypeInv'
  BY <1>14 DEF Mark, SetStatus, Markable, Answer, Answers, Return, Goto
<1>15. ASSUME NEW h \in Handlers, CommitUnacknowledged(h) PROVE TypeInv'
  BY <1>15 DEF CommitUnacknowledged, InsertRow, ReleaseBothLocks, Return, Goto
<1>16. ASSUME NEW h \in Handlers, DatabaseError(h) PROVE TypeInv'
  BY <1>16 DEF DatabaseError, Fault, ReleaseBothLocks, Return, Goto
<1>17. ASSUME NEW h \in Handlers, MarkUnacknowledged(h) PROVE TypeInv'
  BY <1>17 DEF MarkUnacknowledged, Fault, SetStatus, Markable, Return, Goto
<1>18. ASSUME NEW o \in Overviews, NEW a \in Accounts, FindStalePending(o, a)
      PROVE  TypeInv'
  BY <1>18 DEF FindStalePending
<1>19. ASSUME NEW o \in Overviews, NEW r \in RequestIds, CountStaleMail(o, r)
      PROVE  TypeInv'
  BY <1>19 DEF CountStaleMail, FindingOf
<1>20. ASSUME NEW o \in Overviews, MarkStale(o) PROVE TypeInv'
  BY <1>20 DEF MarkStale, SetStatus, Markable
<1>21. ASSUME NEW o \in Overviews, OverviewError(o) PROVE TypeInv'
  BY <1>21 DEF OverviewError, Fault
<1>22. ASSUME NEW r \in RequestIds, WorldDelivers(r) PROVE TypeInv'
  BY <1>22 DEF WorldDelivers, ReplyToWaiting
<1>23. ASSUME NEW r \in RequestIds, WorldRejects(r) PROVE TypeInv'
  BY <1>23 DEF WorldRejects, ReplyToWaiting
<1>24. ASSUME NEW r \in RequestIds, PlayerEmptiesMail(r) PROVE TypeInv'
  BY <1>24 DEF PlayerEmptiesMail
<1>25. ASSUME NEW r \in RequestIds, RequestGoesStale(r) PROVE TypeInv'
  BY <1>25 DEF RequestGoesStale
<1>26. CASE Crash
  BY <1>26 DEF Crash, Fault
<1>27. CASE Midnight
  BY <1>27 DEF Midnight, Days
<1>29. ASSUME NEW h \in Handlers, ReleaseFails(h) PROVE TypeInv'
  <2>1. /\ requestLock' \in [RequestIds -> SUBSET Holders]
        /\ accountLock' \in [Accounts -> SUBSET Holders]
    <3>1. KeepALock(h)
      BY <1>29 DEF ReleaseFails
    <3>. QED  BY <3>1, KeepALockType
  <2>3. /\ pc[h] = "release"
        /\ pc' = [pc EXCEPT ![h] = "reserved"]
        /\ faults < MaxFaults /\ faults' = faults + 1
        /\ UNCHANGED <<table, today, call, reservation, verdict, reply, views,
                       world, issued, answered>>
    BY <1>29 DEF ReleaseFails, Goto
  <2>. QED
    BY <2>1, <2>3
<1>28. CASE UNCHANGED vars
  BY <1>28 DEF vars
<1>. QED
  BY <1>1, <1>2, <1>3, <1>4, <1>5, <1>6, <1>7, <1>8, <1>9, <1>10, <1>11, <1>12, <1>13, <1>14, <1>15, <1>16, <1>17, <1>18, <1>19, <1>20, <1>21, <1>22, <1>23, <1>24, <1>25, <1>26, <1>27, <1>28, <1>29
  DEF Next, HandlerStep, OverviewStep

\* The variables of the Free Money boost always have their types.
THEOREM TypeCorrect == Spec => []TypeOK
<1>1. TypeInv => TypeOK
  BY DEF TypeInv
<1>. QED
  BY <1>1, InitTypeInv, NextTypeInv, PTL DEF Spec

-----------------------------------------------------------------------------
(* Safety.                                                                 *)

LEMMA InitInv == Init => Inv
BY InitTypeInv
DEF Init, Inv, LocksHeld, OneHolder, StillAbsent, HoldsTicket, Undeliverable, Counts,
    Tickets, OneTicket, ReservationsTrue, EvidenceTrue, StatusTrue,
    AnswersMatchLedger

\* The UPDATE of mark settles an open row and touches no other.
LEMMA SetStatusEffect ==
    ASSUME TypeOK, NEW r \in RequestIds, NEW outcome \in {"sent", "failed", "unknown"},
           SetStatus(r, outcome)
    PROVE  /\ status' \in [RequestIds -> Statuses]
           /\ \A x \in RequestIds \ {r} : status'[x] = status[x]
           /\ status[r] \in {"pending", "unknown"} => status'[r] = outcome
           /\ status[r] \notin {"pending", "unknown"} => status'[r] = status[r]
BY DEF TypeOK, SetStatus, Markable, Statuses

\* One matching mail proves the delivery.
LEMMA FindingSound ==
    ASSUME TypeOK, Counts, NEW r \in RequestIds, FindingOf(mailbox[r]) = "sent"
    PROVE  delivered[r] = 1
<1>1. mailbox[r] = 1
  BY DEF FindingOf
<1>2. /\ mailbox[r] <= delivered[r]
      /\ queued[r] + delivered[r] <= issued[r]
      /\ issued[r] <= 1
  BY DEF Counts
<1>. QED
  BY <1>1, <1>2 DEF TypeOK

\* A command that is still queued is the only one, and nothing was delivered.
LEMMA OneOnTheWay ==
    ASSUME NEW q \in Nat, NEW d \in Nat, NEW i \in Nat,
           q > 0, q + d <= i, i <= 1
    PROVE  q = 1 /\ i = 1 /\ d = 0
OBVIOUS

LEMMA NextInv == Inv /\ TypeInv' /\ [Next]_vars => Inv'
<1> SUFFICES ASSUME Inv, TypeInv', [Next]_vars PROVE Inv'
  OBVIOUS
<1> USE NullAssumption
    DEF Inv, TypeInv, TypeOK, CallsKnown, RowsKnown, ViewsKnown, Calls, Rows,
        Holders, table, locks, calls, views, world
<1>1. ASSUME NEW h \in Handlers, NEW c \in Calls, RequestMoney(h, c)
      PROVE  Inv'
  <2>1. LocksHeld' /\ OneHolder' /\ StillAbsent'
    BY <1>1 DEF RequestMoney, Goto, LocksHeld, OneHolder, StillAbsent
  <2>2. Counts' /\ Tickets' /\ OneTicket'
    BY <1>1 DEF RequestMoney, Goto, Counts, Tickets, OneTicket, HoldsTicket, StillAbsent
  <2>3. ReservationsTrue'
    <3>1. /\ pc[h] = "idle"
          /\ pc' = [pc EXCEPT ![h] = "requestLock"]
          /\ call' = [call EXCEPT ![h] = c]
          /\ UNCHANGED <<status, row, reservation>>
      BY <1>1 DEF RequestMoney, Goto
    <3>2. reservation[h] = "none"
      BY <3>1 DEF ReservationsTrue
    <3>. QED  BY <3>1, <3>2 DEF ReservationsTrue, SameDetails
  <2>4. EvidenceTrue' /\ StatusTrue'
    <3>1. /\ pc[h] = "idle"
          /\ pc' = [pc EXCEPT ![h] = "requestLock"]
          /\ call' = [call EXCEPT ![h] = c]
          /\ UNCHANGED <<status, reply, verdict, finding, current, queued, issued, delivered>>
      BY <1>1 DEF RequestMoney, Goto
    <3>2. verdict[h] = "none" /\ reply[h] \notin {"sent", "failed"}
      BY <3>1 DEF EvidenceTrue
    <3>3. EvidenceTrue'
      BY <3>1, <3>2 DEF EvidenceTrue, Undeliverable
    <3>4. StatusTrue'
      BY <3>1 DEF StatusTrue, Undeliverable
    <3>. QED  BY <3>3, <3>4
  <2>5. AnswersMatchLedger'
    BY <1>1 DEF RequestMoney, Goto, AnswersMatchLedger, SameDetails
  <2>. QED  BY <2>1, <2>2, <2>3, <2>4, <2>5
<1>2. ASSUME NEW h \in Handlers, AcquireRequestLock(h) PROVE Inv'
  <2>1. LocksHeld' /\ OneHolder' /\ StillAbsent'
    BY <1>2 DEF AcquireRequestLock, Available, Goto, LocksHeld, OneHolder, StillAbsent
  <2>2. Counts' /\ Tickets' /\ OneTicket'
    BY <1>2 DEF AcquireRequestLock, Goto, Counts, Tickets, OneTicket, HoldsTicket, StillAbsent
  <2>3. ReservationsTrue'
    BY <1>2 DEF AcquireRequestLock, Goto, ReservationsTrue, SameDetails
  <2>4. EvidenceTrue' /\ StatusTrue'
    BY <1>2 DEF AcquireRequestLock, Goto, EvidenceTrue, StatusTrue, Undeliverable, Counts
  <2>5. AnswersMatchLedger'
    BY <1>2 DEF AcquireRequestLock, Goto, AnswersMatchLedger, SameDetails
  <2>. QED  BY <2>1, <2>2, <2>3, <2>4, <2>5
<1>3. ASSUME NEW h \in Handlers, AcquireAccountLock(h) PROVE Inv'
  <2>1. LocksHeld' /\ OneHolder' /\ StillAbsent'
    BY <1>3 DEF AcquireAccountLock, Goto, LocksHeld, OneHolder, StillAbsent
  <2>2. Counts' /\ Tickets' /\ OneTicket'
    BY <1>3 DEF AcquireAccountLock, Goto, Counts, Tickets, OneTicket, HoldsTicket, StillAbsent
  <2>3. ReservationsTrue'
    BY <1>3 DEF AcquireAccountLock, Goto, ReservationsTrue, SameDetails
  <2>4. EvidenceTrue' /\ StatusTrue'
    BY <1>3 DEF AcquireAccountLock, Goto, EvidenceTrue, StatusTrue, Undeliverable, Counts
  <2>5. AnswersMatchLedger'
    BY <1>3 DEF AcquireAccountLock, Goto, AnswersMatchLedger, SameDetails
  <2>. QED  BY <2>1, <2>2, <2>3, <2>4, <2>5
<1>4. ASSUME NEW h \in Handlers, LockTimeout(h) PROVE Inv'
  <2>1. LocksHeld' /\ OneHolder' /\ StillAbsent'
    BY <1>4 DEF LockTimeout, LockIsHeld, ReleaseBothLocks, Return, Goto, LocksHeld, OneHolder, StillAbsent
  <2>2. Counts' /\ Tickets' /\ OneTicket'
    BY <1>4 DEF LockTimeout, LockIsHeld, ReleaseBothLocks, Return, Goto, Counts, Tickets, OneTicket, HoldsTicket, StillAbsent
  <2>3. ReservationsTrue'
    BY <1>4 DEF LockTimeout, LockIsHeld, ReleaseBothLocks, Return, Goto, ReservationsTrue, SameDetails
  <2>4. EvidenceTrue' /\ StatusTrue'
    BY <1>4 DEF LockTimeout, LockIsHeld, ReleaseBothLocks, Return, Goto, EvidenceTrue, StatusTrue, Undeliverable, Counts
  <2>5. AnswersMatchLedger'
    BY <1>4 DEF LockTimeout, LockIsHeld, ReleaseBothLocks, Return, Goto, AnswersMatchLedger, SameDetails
  <2>. QED  BY <2>1, <2>2, <2>3, <2>4, <2>5
<1>5. ASSUME NEW h \in Handlers, FindExisting(h) PROVE Inv'
  <2>1. LocksHeld' /\ OneHolder' /\ StillAbsent'
    BY <1>5 DEF FindExisting, Goto, LocksHeld, OneHolder, StillAbsent
  <2>2. Counts' /\ Tickets' /\ OneTicket'
    <3>1. /\ \E l \in {"daily", "release"} : pc' = [pc EXCEPT ![h] = l]
          /\ reservation'[h] # "inserted"
          /\ \A g \in Handlers \ {h} : reservation'[g] = reservation[g]
          /\ pc[h] = "find"
          /\ UNCHANGED <<status, call, queued, mailbox, delivered, issued>>
      <4>1. \/ UNCHANGED reservation
            \/ \E x \in Statuses \cup {"conflict"} :
                   reservation' = [reservation EXCEPT ![h] = x]
        BY <1>5 DEF FindExisting
      <4>2. /\ \E l \in {"daily", "release"} : pc' = [pc EXCEPT ![h] = l]
            /\ pc[h] = "find"
            /\ UNCHANGED <<status, call, queued, mailbox, delivered, issued>>
        BY <1>5, Zenon DEF FindExisting, Goto
      <4>3. reservation[h] = "none"
        BY <4>2 DEF ReservationsTrue
      <4>4. reservation \in [Handlers -> Reservations]
        OBVIOUS
      <4>5. /\ reservation'[h] # "inserted"
            /\ \A g \in Handlers \ {h} : reservation'[g] = reservation[g]
        BY <4>1, <4>3, <4>4 DEF Statuses
      <4>. QED  BY <4>2, <4>5
    <3>. QED  BY <3>1 DEF Counts, Tickets, OneTicket, HoldsTicket, StillAbsent
  <2>3. ReservationsTrue'
    BY <1>5 DEF FindExisting, Goto, ReservationsTrue, SameDetails
  <2>4. EvidenceTrue' /\ StatusTrue'
    BY <1>5 DEF FindExisting, Goto, EvidenceTrue, StatusTrue, Undeliverable, Counts
  <2>5. AnswersMatchLedger'
    BY <1>5 DEF FindExisting, Goto, AnswersMatchLedger, SameDetails
  <2>. QED  BY <2>1, <2>2, <2>3, <2>4, <2>5
<1>6. ASSUME NEW h \in Handlers, ReadDailyTotals(h) PROVE Inv'
  <2>1. LocksHeld' /\ OneHolder' /\ StillAbsent'
    BY <1>6 DEF ReadDailyTotals, Goto, LocksHeld, OneHolder, StillAbsent
  <2>2. Counts' /\ Tickets' /\ OneTicket'
    <3>1. /\ \E l \in {"insert", "release"} : pc' = [pc EXCEPT ![h] = l]
          /\ reservation'[h] # "inserted"
          /\ \A g \in Handlers \ {h} : reservation'[g] = reservation[g]
          /\ pc[h] = "daily"
          /\ UNCHANGED <<status, call, queued, mailbox, delivered, issued>>
      <4>1. \/ UNCHANGED reservation
            \/ reservation' = [reservation EXCEPT ![h] = "limit"]
        BY <1>6, Zenon DEF ReadDailyTotals
      <4>2. /\ \E l \in {"insert", "release"} : pc' = [pc EXCEPT ![h] = l]
            /\ pc[h] = "daily"
            /\ UNCHANGED <<status, call, queued, mailbox, delivered, issued>>
        BY <1>6, Zenon DEF ReadDailyTotals, Goto
      <4>3. reservation[h] = "none"
        BY <4>2 DEF ReservationsTrue
      <4>4. reservation \in [Handlers -> Reservations]
        OBVIOUS
      <4>5. /\ reservation'[h] # "inserted"
            /\ \A g \in Handlers \ {h} : reservation'[g] = reservation[g]
        BY <4>1, <4>3, <4>4 DEF Statuses
      <4>. QED  BY <4>2, <4>5
    <3>. QED  BY <3>1 DEF Counts, Tickets, OneTicket, HoldsTicket, StillAbsent
  <2>3. ReservationsTrue'
    BY <1>6 DEF ReadDailyTotals, Goto, ReservationsTrue, SameDetails
  <2>4. EvidenceTrue' /\ StatusTrue'
    BY <1>6 DEF ReadDailyTotals, Goto, EvidenceTrue, StatusTrue, Undeliverable, Counts
  <2>5. AnswersMatchLedger'
    BY <1>6 DEF ReadDailyTotals, Goto, AnswersMatchLedger, SameDetails
  <2>. QED  BY <2>1, <2>2, <2>3, <2>4, <2>5
<1>7. ASSUME NEW h \in Handlers, InsertPending(h) PROVE Inv'
  <2>1. LocksHeld' /\ OneHolder' /\ StillAbsent'
    BY <1>7 DEF InsertPending, InsertRow, Goto, LocksHeld, OneHolder, StillAbsent
  <2>2. Counts' /\ Tickets' /\ OneTicket'
    BY <1>7 DEF InsertPending, InsertRow, Goto, Counts, Tickets, OneTicket,
                HoldsTicket, ReservationsTrue
  <2>3. ReservationsTrue'
    BY <1>7 DEF InsertPending, InsertRow, Goto, ReservationsTrue, SameDetails
  <2>4. EvidenceTrue' /\ StatusTrue'
    BY <1>7 DEF InsertPending, InsertRow, Goto, EvidenceTrue, StatusTrue, Undeliverable, Counts
  <2>5. AnswersMatchLedger'
    BY <1>7 DEF InsertPending, InsertRow, Goto, AnswersMatchLedger, SameDetails
  <2>. QED  BY <2>1, <2>2, <2>3, <2>4, <2>5
<1>8. ASSUME NEW h \in Handlers, ReleaseLocks(h) PROVE Inv'
  <2>1. LocksHeld' /\ OneHolder' /\ StillAbsent'
    BY <1>8 DEF ReleaseLocks, ReleaseBothLocks, Goto, LocksHeld, OneHolder, StillAbsent
  <2>2. Counts' /\ Tickets' /\ OneTicket'
    BY <1>8 DEF ReleaseLocks, ReleaseBothLocks, Goto, Counts, Tickets, OneTicket, HoldsTicket, StillAbsent
  <2>3. ReservationsTrue'
    BY <1>8 DEF ReleaseLocks, ReleaseBothLocks, Goto, ReservationsTrue, SameDetails
  <2>4. EvidenceTrue' /\ StatusTrue'
    BY <1>8 DEF ReleaseLocks, ReleaseBothLocks, Goto, EvidenceTrue, StatusTrue, Undeliverable, Counts
  <2>5. AnswersMatchLedger'
    BY <1>8 DEF ReleaseLocks, ReleaseBothLocks, Goto, AnswersMatchLedger, SameDetails
  <2>. QED  BY <2>1, <2>2, <2>3, <2>4, <2>5
<1>9. ASSUME NEW h \in Handlers, HandleReservation(h) PROVE Inv'
  <2>1. CASE Refused(h)
    <3>1. LocksHeld' /\ OneHolder' /\ StillAbsent'
      BY <1>9, <2>1 DEF HandleReservation, Refused, Return, Goto, LocksHeld, OneHolder, StillAbsent
    <3>2. Counts' /\ Tickets' /\ OneTicket'
      BY <1>9, <2>1 DEF HandleReservation, Refused, Return, Goto, Counts, Tickets, OneTicket, HoldsTicket, StillAbsent
    <3>3. ReservationsTrue'
      BY <1>9, <2>1 DEF HandleReservation, Refused, Return, Goto, ReservationsTrue, SameDetails
    <3>4. EvidenceTrue' /\ StatusTrue'
      BY <1>9, <2>1 DEF HandleReservation, Refused, Return, Goto, EvidenceTrue, StatusTrue, Undeliverable, Counts
    <3>5. AnswersMatchLedger'
      BY <1>9, <2>1 DEF HandleReservation, Refused, Return, Goto, AnswersMatchLedger, SameDetails
    <3>. QED  BY <3>1, <3>2, <3>3, <3>4, <3>5
  <2>2. CASE ReplayFinal(h)
    <3>1. LocksHeld' /\ OneHolder' /\ StillAbsent'
      BY <1>9, <2>2 DEF HandleReservation, ReplayFinal, Answer, Return, Goto, LocksHeld, OneHolder, StillAbsent
    <3>2. Counts' /\ Tickets' /\ OneTicket'
      BY <1>9, <2>2 DEF HandleReservation, ReplayFinal, Answer, Return, Goto, Counts, Tickets, OneTicket, HoldsTicket, StillAbsent
    <3>3. ReservationsTrue'
      BY <1>9, <2>2 DEF HandleReservation, ReplayFinal, Answer, Return, Goto, ReservationsTrue, SameDetails
    <3>4. EvidenceTrue' /\ StatusTrue'
      BY <1>9, <2>2 DEF HandleReservation, ReplayFinal, Answer, Return, Goto, EvidenceTrue, StatusTrue, Undeliverable, Counts
    <3>5. AnswersMatchLedger'
      <4>1. /\ reservation[h] \in {"sent", "failed"}
            /\ answered' = [answered EXCEPT ![call[h].request] = @ \cup
                   {[character |-> call[h].character, gold |-> call[h].gold,
                     outcome |-> reservation[h]]}]
            /\ UNCHANGED <<status, row>>
        BY <1>9, <2>2 DEF HandleReservation, ReplayFinal, Answer
      <4>. QED  BY <4>1 DEF AnswersMatchLedger, ReservationsTrue, SameDetails
    <3>. QED  BY <3>1, <3>2, <3>3, <3>4, <3>5
  <2>3. CASE ReconcileExisting(h)
    <3>1. LocksHeld' /\ OneHolder' /\ StillAbsent'
      BY <1>9, <2>3 DEF HandleReservation, ReconcileExisting, Goto, LocksHeld, OneHolder, StillAbsent
    <3>2. Counts' /\ Tickets' /\ OneTicket'
      BY <1>9, <2>3 DEF HandleReservation, ReconcileExisting, Goto, Counts, Tickets, OneTicket, HoldsTicket, StillAbsent
    <3>3. ReservationsTrue'
      BY <1>9, <2>3 DEF HandleReservation, ReconcileExisting, Goto, ReservationsTrue, SameDetails
    <3>4. EvidenceTrue' /\ StatusTrue'
      BY <1>9, <2>3 DEF HandleReservation, ReconcileExisting, Goto, EvidenceTrue, StatusTrue, Undeliverable, Counts
    <3>5. AnswersMatchLedger'
      BY <1>9, <2>3 DEF HandleReservation, ReconcileExisting, Goto, AnswersMatchLedger, SameDetails
    <3>. QED  BY <3>1, <3>2, <3>3, <3>4, <3>5
  <2>. QED  BY <1>9, <2>1, <2>2, <2>3, Zenon DEF HandleReservation
<1>10. ASSUME NEW h \in Handlers, ExecuteCommand(h) PROVE Inv'
  <2>1. LocksHeld' /\ OneHolder' /\ StillAbsent'
    BY <1>10 DEF ExecuteCommand, SendsCommand, Goto, LocksHeld, OneHolder, StillAbsent
  <2>2. Counts' /\ Tickets' /\ OneTicket'
    BY <1>10 DEF ExecuteCommand, SendsCommand, Goto, Counts, Tickets, OneTicket,
                 HoldsTicket, ReservationsTrue
  <2>3. ReservationsTrue'
    BY <1>10 DEF ExecuteCommand, SendsCommand, Goto, ReservationsTrue, SameDetails
  <2>4. EvidenceTrue' /\ StatusTrue'
    BY <1>10 DEF ExecuteCommand, SendsCommand, Goto, EvidenceTrue, StatusTrue,
                 Undeliverable, Tickets, HoldsTicket
  <2>5. AnswersMatchLedger'
    BY <1>10 DEF ExecuteCommand, SendsCommand, Goto, AnswersMatchLedger, SameDetails
  <2>. QED  BY <2>1, <2>2, <2>3, <2>4, <2>5
<1>11. ASSUME NEW h \in Handlers, ReceiveReply(h) PROVE Inv'
  <2>1. LocksHeld' /\ OneHolder' /\ StillAbsent'
    BY <1>11 DEF ReceiveReply, Goto, LocksHeld, OneHolder, StillAbsent
  <2>2. Counts' /\ Tickets' /\ OneTicket'
    BY <1>11 DEF ReceiveReply, Goto, Counts, Tickets, OneTicket, HoldsTicket, StillAbsent
  <2>3. ReservationsTrue'
    BY <1>11 DEF ReceiveReply, Goto, ReservationsTrue, SameDetails
  <2>4. EvidenceTrue' /\ StatusTrue'
    BY <1>11 DEF ReceiveReply, Goto, EvidenceTrue, StatusTrue, Undeliverable, Counts
  <2>5. AnswersMatchLedger'
    BY <1>11 DEF ReceiveReply, Goto, AnswersMatchLedger, SameDetails
  <2>. QED  BY <2>1, <2>2, <2>3, <2>4, <2>5
<1>12. ASSUME NEW h \in Handlers, ReplyUnusable(h) PROVE Inv'
  <2>1. LocksHeld' /\ OneHolder' /\ StillAbsent'
    BY <1>12 DEF ReplyUnusable, Goto, LocksHeld, OneHolder, StillAbsent
  <2>2. Counts' /\ Tickets' /\ OneTicket'
    BY <1>12 DEF ReplyUnusable, Goto, Counts, Tickets, OneTicket, HoldsTicket, StillAbsent
  <2>3. ReservationsTrue'
    BY <1>12 DEF ReplyUnusable, Goto, ReservationsTrue, SameDetails
  <2>4. EvidenceTrue' /\ StatusTrue'
    BY <1>12 DEF ReplyUnusable, Goto, EvidenceTrue, StatusTrue, Undeliverable, Counts
  <2>5. AnswersMatchLedger'
    BY <1>12 DEF ReplyUnusable, Goto, AnswersMatchLedger, SameDetails
  <2>. QED  BY <2>1, <2>2, <2>3, <2>4, <2>5
<1>13. ASSUME NEW h \in Handlers, CountMatchingMail(h) PROVE Inv'
  <2>1. LocksHeld' /\ OneHolder' /\ StillAbsent'
    BY <1>13 DEF CountMatchingMail, FindingOf, Goto, LocksHeld, OneHolder, StillAbsent
  <2>2. Counts' /\ Tickets' /\ OneTicket'
    BY <1>13 DEF CountMatchingMail, FindingOf, Goto, Counts, Tickets, OneTicket, HoldsTicket, StillAbsent
  <2>3. ReservationsTrue'
    BY <1>13 DEF CountMatchingMail, FindingOf, Goto, ReservationsTrue, SameDetails
  <2>4. EvidenceTrue' /\ StatusTrue'
    <3> DEFINE seen == FindingOf(mailbox[call[h].request])
    <3>1. /\ pc[h] = "count"
          /\ verdict' = [verdict EXCEPT ![h] = seen]
          /\ UNCHANGED <<status, call, reply, finding, current, queued, issued, delivered>>
          /\ pc' = [pc EXCEPT ![h] = "mark"]
      BY <1>13 DEF CountMatchingMail, Goto
    <3>2. seen \in {"sent", "unknown"}
      BY DEF FindingOf
    <3>3. seen = "sent" => delivered[call[h].request] = 1
      BY <3>1, FindingSound
    <3>. HIDE DEF seen
    <3>. QED  BY <3>1, <3>2, <3>3 DEF EvidenceTrue, StatusTrue, Undeliverable, Counts
  <2>5. AnswersMatchLedger'
    BY <1>13 DEF CountMatchingMail, FindingOf, Goto, AnswersMatchLedger, SameDetails
  <2>. QED  BY <2>1, <2>2, <2>3, <2>4, <2>5
<1>14. ASSUME NEW h \in Handlers, Mark(h) PROVE Inv'
  <2> DEFINE r == call[h].request
  <2>1. /\ r \in RequestIds
        /\ pc[h] = "mark"
        /\ verdict[h] \in {"sent", "failed", "unknown"}
        /\ SetStatus(r, verdict[h])
    BY <1>14 DEF Mark, Verdicts
  <2>2. /\ status' \in [RequestIds -> Statuses]
        /\ \A x \in RequestIds \ {r} : status'[x] = status[x]
        /\ status[r] \in {"pending", "unknown"} => status'[r] = verdict[h]
        /\ status[r] \notin {"pending", "unknown"} => status'[r] = status[r]
    BY <2>1, SetStatusEffect
  <2>3. /\ pc' = [pc EXCEPT ![h] = "idle"]
        /\ call' = [call EXCEPT ![h] = NoCall]
        /\ reservation' = [reservation EXCEPT ![h] = "none"]
        /\ verdict' = [verdict EXCEPT ![h] = "none"]
        /\ reply' = [reply EXCEPT ![h] = "none"]
        /\ UNCHANGED <<row, locks, views, world, issued>>
        /\ answered' = [answered EXCEPT ![r] = @ \cup
               {[character |-> call[h].character, gold |-> call[h].gold,
                 outcome |-> verdict[h]]}]
    BY <1>14 DEF Mark, Answer, Return, Goto
  <2>4. LocksHeld' /\ OneHolder' /\ StillAbsent'
    BY <2>1, <2>2, <2>3 DEF LocksHeld, OneHolder, StillAbsent
  <2>5. Counts' /\ Tickets' /\ OneTicket'
    BY <2>1, <2>2, <2>3 DEF Counts, Tickets, OneTicket, HoldsTicket, StillAbsent
  <2>6. ReservationsTrue'
    BY <2>1, <2>2, <2>3 DEF ReservationsTrue, SameDetails
  <2>7. EvidenceTrue' /\ StatusTrue'
    <3>1. EvidenceTrue'
      BY <2>1, <2>2, <2>3 DEF EvidenceTrue, Undeliverable
    <3>2. StatusTrue'
      BY <2>1, <2>2, <2>3 DEF EvidenceTrue, StatusTrue, Undeliverable
    <3>. QED  BY <3>1, <3>2
  <2>8. AnswersMatchLedger'
    <3>1. status[r] # "absent" /\ SameDetails(call[h], r)
      BY <2>1 DEF ReservationsTrue
    <3>2. verdict[h] \in {"sent", "failed"} => status'[r] = verdict[h]
      BY <2>1, <2>2, <3>1 DEF EvidenceTrue, StatusTrue, Undeliverable, Statuses
    <3>3. verdict[h] = "unknown" => status'[r] # "pending"
      BY <2>1, <2>2
    <3>. QED  BY <2>1, <2>2, <2>3, <3>1, <3>2, <3>3 DEF AnswersMatchLedger, SameDetails
  <2>. QED  BY <2>4, <2>5, <2>6, <2>7, <2>8
<1>15. ASSUME NEW h \in Handlers, CommitUnacknowledged(h) PROVE Inv'
  <2>1. LocksHeld' /\ OneHolder' /\ StillAbsent'
    BY <1>15 DEF CommitUnacknowledged, InsertRow, ReleaseBothLocks, Return, Goto, LocksHeld, OneHolder, StillAbsent
  <2>2. Counts' /\ Tickets' /\ OneTicket'
    BY <1>15 DEF CommitUnacknowledged, InsertRow, ReleaseBothLocks, Return, Goto, Counts, Tickets, OneTicket, HoldsTicket, StillAbsent
  <2>3. ReservationsTrue'
    <3> DEFINE r == call[h].request
    <3>1. /\ r \in RequestIds
          /\ status[r] = "absent"
          /\ \A x \in RequestIds \ {r} : status'[x] = status[x] /\ row'[x] = row[x]
      BY <1>15 DEF CommitUnacknowledged, InsertRow
    <3>2. /\ pc' = [pc EXCEPT ![h] = "idle"]
          /\ call' = [call EXCEPT ![h] = NoCall]
          /\ reservation' = [reservation EXCEPT ![h] = "none"]
      BY <1>15 DEF CommitUnacknowledged, Return, Goto
    <3>3. \A g \in Handlers : reservation[g] \in {"inserted", "pending", "sent", "failed", "unknown"}
              => call[g].request \in RequestIds \ {r}
      BY <3>1 DEF ReservationsTrue
    <3>. QED  BY <3>1, <3>2, <3>3 DEF ReservationsTrue, SameDetails
  <2>4. EvidenceTrue' /\ StatusTrue'
    BY <1>15 DEF CommitUnacknowledged, InsertRow, ReleaseBothLocks, Return, Goto, EvidenceTrue, StatusTrue, Undeliverable, Counts
  <2>5. AnswersMatchLedger'
    BY <1>15 DEF CommitUnacknowledged, InsertRow, ReleaseBothLocks, Return, Goto, AnswersMatchLedger, SameDetails
  <2>. QED  BY <2>1, <2>2, <2>3, <2>4, <2>5
<1>16. ASSUME NEW h \in Handlers, DatabaseError(h) PROVE Inv'
  <2>1. LocksHeld' /\ OneHolder' /\ StillAbsent'
    BY <1>16 DEF DatabaseError, Fault, ReleaseBothLocks, Return, Goto, LocksHeld, OneHolder, StillAbsent
  <2>2. Counts' /\ Tickets' /\ OneTicket'
    BY <1>16 DEF DatabaseError, Fault, ReleaseBothLocks, Return, Goto, Counts, Tickets, OneTicket, HoldsTicket, StillAbsent
  <2>3. ReservationsTrue'
    BY <1>16 DEF DatabaseError, Fault, ReleaseBothLocks, Return, Goto, ReservationsTrue, SameDetails
  <2>4. EvidenceTrue' /\ StatusTrue'
    BY <1>16 DEF DatabaseError, Fault, ReleaseBothLocks, Return, Goto, EvidenceTrue, StatusTrue, Undeliverable, Counts
  <2>5. AnswersMatchLedger'
    BY <1>16 DEF DatabaseError, Fault, ReleaseBothLocks, Return, Goto, AnswersMatchLedger, SameDetails
  <2>. QED  BY <2>1, <2>2, <2>3, <2>4, <2>5
<1>17. ASSUME NEW h \in Handlers, MarkUnacknowledged(h) PROVE Inv'
  <2> DEFINE r == call[h].request
  <2>1. /\ r \in RequestIds
        /\ pc[h] = "mark"
        /\ verdict[h] \in {"sent", "failed", "unknown"}
        /\ SetStatus(r, verdict[h])
    BY <1>17 DEF MarkUnacknowledged, Verdicts
  <2>2. /\ status' \in [RequestIds -> Statuses]
        /\ \A x \in RequestIds \ {r} : status'[x] = status[x]
        /\ status[r] \in {"pending", "unknown"} => status'[r] = verdict[h]
        /\ status[r] \notin {"pending", "unknown"} => status'[r] = status[r]
    BY <2>1, SetStatusEffect
  <2>3. /\ pc' = [pc EXCEPT ![h] = "idle"]
        /\ call' = [call EXCEPT ![h] = NoCall]
        /\ reservation' = [reservation EXCEPT ![h] = "none"]
        /\ verdict' = [verdict EXCEPT ![h] = "none"]
        /\ reply' = [reply EXCEPT ![h] = "none"]
        /\ UNCHANGED <<row, locks, views, world, issued>>
        /\ answered' = answered
    BY <1>17 DEF MarkUnacknowledged, Fault, Return, Goto
  <2>4. LocksHeld' /\ OneHolder' /\ StillAbsent'
    BY <2>1, <2>2, <2>3 DEF LocksHeld, OneHolder, StillAbsent
  <2>5. Counts' /\ Tickets' /\ OneTicket'
    BY <2>1, <2>2, <2>3 DEF Counts, Tickets, OneTicket, HoldsTicket, StillAbsent
  <2>6. ReservationsTrue'
    BY <2>1, <2>2, <2>3 DEF ReservationsTrue, SameDetails
  <2>7. EvidenceTrue' /\ StatusTrue'
    <3>1. EvidenceTrue'
      BY <2>1, <2>2, <2>3 DEF EvidenceTrue, Undeliverable
    <3>2. StatusTrue'
      BY <2>1, <2>2, <2>3 DEF EvidenceTrue, StatusTrue, Undeliverable
    <3>. QED  BY <3>1, <3>2
  <2>8. AnswersMatchLedger'
    BY <2>1, <2>2, <2>3 DEF AnswersMatchLedger, SameDetails
  <2>. QED  BY <2>4, <2>5, <2>6, <2>7, <2>8
<1>18. ASSUME NEW o \in Overviews, NEW a \in Accounts, FindStalePending(o, a)
      PROVE  Inv'
  <2>1. LocksHeld' /\ OneHolder' /\ StillAbsent'
    BY <1>18 DEF FindStalePending, LocksHeld, OneHolder, StillAbsent
  <2>2. Counts' /\ Tickets' /\ OneTicket'
    BY <1>18 DEF FindStalePending, Counts, Tickets, OneTicket, HoldsTicket, StillAbsent
  <2>3. ReservationsTrue'
    BY <1>18 DEF FindStalePending, ReservationsTrue, SameDetails
  <2>4. EvidenceTrue' /\ StatusTrue'
    BY <1>18 DEF FindStalePending, EvidenceTrue, StatusTrue, Undeliverable, Counts
  <2>5. AnswersMatchLedger'
    BY <1>18 DEF FindStalePending, AnswersMatchLedger, SameDetails
  <2>. QED  BY <2>1, <2>2, <2>3, <2>4, <2>5
<1>19. ASSUME NEW o \in Overviews, NEW r \in RequestIds, CountStaleMail(o, r)
      PROVE  Inv'
  <2>1. LocksHeld' /\ OneHolder' /\ StillAbsent'
    BY <1>19 DEF CountStaleMail, FindingOf, LocksHeld, OneHolder, StillAbsent
  <2>2. Counts' /\ Tickets' /\ OneTicket'
    BY <1>19 DEF CountStaleMail, FindingOf, Counts, Tickets, OneTicket, HoldsTicket, StillAbsent
  <2>3. ReservationsTrue'
    BY <1>19 DEF CountStaleMail, FindingOf, ReservationsTrue, SameDetails
  <2>4. EvidenceTrue' /\ StatusTrue'
    <3> DEFINE seen == FindingOf(mailbox[r])
    <3>1. /\ current' = [current EXCEPT ![o] = r]
          /\ finding' = [finding EXCEPT ![o] = seen]
          /\ UNCHANGED <<status, call, pc, reply, verdict, queued, issued, delivered>>
      BY <1>19 DEF CountStaleMail
    <3>2. seen = "sent" => delivered[r] = 1
      BY FindingSound
    <3>. HIDE DEF seen
    <3>. QED  BY <3>1, <3>2 DEF EvidenceTrue, StatusTrue, Undeliverable, Counts
  <2>5. AnswersMatchLedger'
    BY <1>19 DEF CountStaleMail, FindingOf, AnswersMatchLedger, SameDetails
  <2>. QED  BY <2>1, <2>2, <2>3, <2>4, <2>5
<1>20. ASSUME NEW o \in Overviews, MarkStale(o) PROVE Inv'
  <2>1. LocksHeld' /\ OneHolder' /\ StillAbsent'
    BY <1>20 DEF MarkStale, SetStatus, Markable, LocksHeld, OneHolder, StillAbsent
  <2>2. Counts' /\ Tickets' /\ OneTicket'
    BY <1>20 DEF MarkStale, SetStatus, Markable, Counts, Tickets, OneTicket, HoldsTicket, StillAbsent
  <2>3. ReservationsTrue'
    BY <1>20 DEF MarkStale, SetStatus, Markable, ReservationsTrue, SameDetails
  <2>4. EvidenceTrue' /\ StatusTrue'
    BY <1>20 DEF MarkStale, SetStatus, Markable, EvidenceTrue, StatusTrue, Undeliverable, Counts
  <2>5. AnswersMatchLedger'
    BY <1>20 DEF MarkStale, SetStatus, Markable, AnswersMatchLedger, SameDetails
  <2>. QED  BY <2>1, <2>2, <2>3, <2>4, <2>5
<1>21. ASSUME NEW o \in Overviews, OverviewError(o) PROVE Inv'
  <2>1. LocksHeld' /\ OneHolder' /\ StillAbsent'
    BY <1>21 DEF OverviewError, Fault, LocksHeld, OneHolder, StillAbsent
  <2>2. Counts' /\ Tickets' /\ OneTicket'
    BY <1>21 DEF OverviewError, Fault, Counts, Tickets, OneTicket, HoldsTicket, StillAbsent
  <2>3. ReservationsTrue'
    BY <1>21 DEF OverviewError, Fault, ReservationsTrue, SameDetails
  <2>4. EvidenceTrue' /\ StatusTrue'
    BY <1>21 DEF OverviewError, Fault, EvidenceTrue, StatusTrue, Undeliverable, Counts
  <2>5. AnswersMatchLedger'
    BY <1>21 DEF OverviewError, Fault, AnswersMatchLedger, SameDetails
  <2>. QED  BY <2>1, <2>2, <2>3, <2>4, <2>5
<1>22. ASSUME NEW r \in RequestIds, WorldDelivers(r) PROVE Inv'
  <2>1. LocksHeld' /\ OneHolder' /\ StillAbsent'
    BY <1>22 DEF WorldDelivers, ReplyToWaiting, LocksHeld, OneHolder, StillAbsent
  <2>2. Counts' /\ Tickets' /\ OneTicket'
    BY <1>22 DEF WorldDelivers, ReplyToWaiting, Counts, Tickets, OneTicket, HoldsTicket, StillAbsent
  <2>3. ReservationsTrue'
    BY <1>22 DEF WorldDelivers, ReplyToWaiting, ReservationsTrue, SameDetails
  <2>4. EvidenceTrue' /\ StatusTrue'
    BY <1>22 DEF WorldDelivers, ReplyToWaiting, EvidenceTrue, StatusTrue, Undeliverable, Counts
  <2>5. AnswersMatchLedger'
    BY <1>22 DEF WorldDelivers, ReplyToWaiting, AnswersMatchLedger, SameDetails
  <2>. QED  BY <2>1, <2>2, <2>3, <2>4, <2>5
<1>23. ASSUME NEW r \in RequestIds, WorldRejects(r) PROVE Inv'
  <2>1. LocksHeld' /\ OneHolder' /\ StillAbsent'
    BY <1>23 DEF WorldRejects, ReplyToWaiting, LocksHeld, OneHolder, StillAbsent
  <2>2. Counts' /\ Tickets' /\ OneTicket'
    BY <1>23 DEF WorldRejects, ReplyToWaiting, Counts, Tickets, OneTicket, HoldsTicket, StillAbsent
  <2>3. ReservationsTrue'
    BY <1>23 DEF WorldRejects, ReplyToWaiting, ReservationsTrue, SameDetails
  <2>4. EvidenceTrue' /\ StatusTrue'
    <3>1. queued[r] = 1 /\ issued[r] = 1 /\ delivered[r] = 0
      <4>1. queued[r] > 0 /\ queued[r] + delivered[r] <= issued[r] /\ issued[r] <= 1
        BY <1>23 DEF WorldRejects, Counts
      <4>2. queued[r] \in Nat /\ delivered[r] \in Nat /\ issued[r] \in Nat
        OBVIOUS
      <4>. QED  BY <4>1, <4>2, OneOnTheWay
    <3>2. /\ queued' = [queued EXCEPT ![r] = 0]
          /\ UNCHANGED <<status, pc, call, verdict, finding, current, issued, delivered>>
          /\ \A h \in Handlers :
                 reply'[h] = "failed" =>
                    reply[h] = "failed" \/ (pc[h] = "awaiting" /\ call[h].request = r)
          /\ \A h \in Handlers : reply'[h] = "sent" => reply[h] = "sent"
      BY <1>23, <3>1 DEF WorldRejects, ReplyToWaiting
    <3>. QED  BY <3>1, <3>2 DEF EvidenceTrue, StatusTrue, Undeliverable, Counts
  <2>5. AnswersMatchLedger'
    BY <1>23 DEF WorldRejects, ReplyToWaiting, AnswersMatchLedger, SameDetails
  <2>. QED  BY <2>1, <2>2, <2>3, <2>4, <2>5
<1>24. ASSUME NEW r \in RequestIds, PlayerEmptiesMail(r) PROVE Inv'
  <2>1. LocksHeld' /\ OneHolder' /\ StillAbsent'
    BY <1>24 DEF PlayerEmptiesMail, LocksHeld, OneHolder, StillAbsent
  <2>2. Counts' /\ Tickets' /\ OneTicket'
    BY <1>24 DEF PlayerEmptiesMail, Counts, Tickets, OneTicket, HoldsTicket, StillAbsent
  <2>3. ReservationsTrue'
    BY <1>24 DEF PlayerEmptiesMail, ReservationsTrue, SameDetails
  <2>4. EvidenceTrue' /\ StatusTrue'
    BY <1>24 DEF PlayerEmptiesMail, EvidenceTrue, StatusTrue, Undeliverable, Counts
  <2>5. AnswersMatchLedger'
    BY <1>24 DEF PlayerEmptiesMail, AnswersMatchLedger, SameDetails
  <2>. QED  BY <2>1, <2>2, <2>3, <2>4, <2>5
<1>25. ASSUME NEW r \in RequestIds, RequestGoesStale(r) PROVE Inv'
  <2>1. LocksHeld' /\ OneHolder' /\ StillAbsent'
    BY <1>25 DEF RequestGoesStale, LocksHeld, OneHolder, StillAbsent
  <2>2. Counts' /\ Tickets' /\ OneTicket'
    BY <1>25 DEF RequestGoesStale, Counts, Tickets, OneTicket, HoldsTicket, StillAbsent
  <2>3. ReservationsTrue'
    BY <1>25 DEF RequestGoesStale, ReservationsTrue, SameDetails
  <2>4. EvidenceTrue' /\ StatusTrue'
    BY <1>25 DEF RequestGoesStale, EvidenceTrue, StatusTrue, Undeliverable, Counts
  <2>5. AnswersMatchLedger'
    BY <1>25 DEF RequestGoesStale, AnswersMatchLedger, SameDetails
  <2>. QED  BY <2>1, <2>2, <2>3, <2>4, <2>5
<1>26. CASE Crash
  <2>1. LocksHeld' /\ OneHolder' /\ StillAbsent'
    BY <1>26 DEF Crash, Fault, LocksHeld, OneHolder, StillAbsent
  <2>2. Counts' /\ Tickets' /\ OneTicket'
    BY <1>26 DEF Crash, Fault, Counts, Tickets, OneTicket, HoldsTicket, StillAbsent
  <2>3. ReservationsTrue'
    BY <1>26 DEF Crash, Fault, ReservationsTrue, SameDetails
  <2>4. EvidenceTrue' /\ StatusTrue'
    BY <1>26 DEF Crash, Fault, EvidenceTrue, StatusTrue, Undeliverable, Counts
  <2>5. AnswersMatchLedger'
    BY <1>26 DEF Crash, Fault, AnswersMatchLedger, SameDetails
  <2>. QED  BY <2>1, <2>2, <2>3, <2>4, <2>5
<1>27. CASE Midnight
  BY <1>27 DEF Midnight, LocksHeld, OneHolder, StillAbsent, Counts, Tickets, OneTicket, HoldsTicket,
          ReservationsTrue, EvidenceTrue, StatusTrue, Undeliverable,
          AnswersMatchLedger, SameDetails
<1>29. ASSUME NEW h \in Handlers, ReleaseFails(h) PROVE Inv'
  <2>1. LocksHeld' /\ OneHolder' /\ StillAbsent'
    BY <1>29 DEF ReleaseFails, KeepALock, Kept, Goto, LocksHeld, OneHolder, StillAbsent
  <2>2. Counts' /\ Tickets' /\ OneTicket'
    BY <1>29 DEF ReleaseFails, Goto, Counts, Tickets, OneTicket, HoldsTicket, StillAbsent
  <2>3. ReservationsTrue'
    BY <1>29 DEF ReleaseFails, Goto, ReservationsTrue, SameDetails
  <2>4. EvidenceTrue' /\ StatusTrue'
    BY <1>29 DEF ReleaseFails, Goto, EvidenceTrue, StatusTrue, Undeliverable, Counts
  <2>5. AnswersMatchLedger'
    BY <1>29 DEF ReleaseFails, Goto, AnswersMatchLedger, SameDetails
  <2>. QED  BY <2>1, <2>2, <2>3, <2>4, <2>5
<1>28. CASE UNCHANGED vars
  BY <1>28 DEF vars, LocksHeld, OneHolder, StillAbsent, Counts, Tickets, OneTicket, HoldsTicket,
          ReservationsTrue, EvidenceTrue, StatusTrue, Undeliverable,
          AnswersMatchLedger, SameDetails
<1>. QED
  BY <1>1, <1>2, <1>3, <1>4, <1>5, <1>6, <1>7, <1>8, <1>9, <1>10, <1>11, <1>12, <1>13, <1>14, <1>15, <1>16, <1>17, <1>18, <1>19, <1>20, <1>21, <1>22, <1>23, <1>24, <1>25, <1>26, <1>27, <1>28, <1>29
  DEF Next, HandlerStep, OverviewStep

LEMMA SpecInv == Spec => []Inv
<1>1. Inv => TypeInv
  BY DEF Inv
<1>. QED
  BY <1>1, InitInv, NextInv, NextTypeInv, PTL DEF Spec

\* At most one "send money" command is ever posted for a request ID, however
\* many calls carry it, retry it or die with it.
THEOREM AtMostOneCommandCorrect == Spec => []AtMostOneCommand
<1>1. Inv => AtMostOneCommand
  BY DEF Inv, Counts, AtMostOneCommand
<1>. QED
  BY <1>1, SpecInv, PTL

\* A "sent" row was delivered; a "failed" row was not and never will be.
THEOREM LedgerTruthfulCorrect == Spec => []LedgerTruthful
<1>1. Inv => LedgerTruthful
  BY DEF Inv, StatusTrue, Undeliverable, LedgerTruthful
<1>. QED
  BY <1>1, SpecInv, PTL

\* No caller is told an outcome that the row, or another caller, contradicts.
THEOREM AnswersCorrect == Spec => []AnswersMatchLedger
<1>1. Inv => AnswersMatchLedger
  BY DEF Inv
<1>. QED
  BY <1>1, SpecInv, PTL

-----------------------------------------------------------------------------
(* The status column and the deliveries implement the abstract ledger.     *)

\* An UPDATE of mark with a true verdict is one step of the ledger.
LEMMA MarkRefines ==
    ASSUME Inv, NEW r \in RequestIds, NEW outcome \in {"sent", "failed", "unknown"},
           SetStatus(r, outcome),
           UNCHANGED delivered,
           status[r] # "absent",
           outcome = "sent" => delivered[r] = 1,
           outcome = "failed" => delivered[r] = 0
    PROVE  Ledger!Next \/ UNCHANGED Ledger!vars
<1>1. CASE status[r] \notin {"pending", "unknown"} \/ outcome = status[r]
  <2>1. status' = status
    BY <1>1 DEF SetStatus, Markable, Inv, TypeInv, TypeOK
  <2>. QED  BY <2>1 DEF Ledger!vars
<1>2. CASE status[r] = "pending" /\ outcome = "unknown"
  <2>1. Ledger!Doubt(r)
    BY <1>2 DEF Ledger!Doubt, SetStatus, Markable
  <2>. QED  BY <2>1 DEF Ledger!Next
<1>3. CASE status[r] \in {"pending", "unknown"} /\ outcome = "sent"
  <2>1. Ledger!Confirm(r)
    BY <1>3 DEF Ledger!Confirm, Ledger!Open, SetStatus, Markable
  <2>. QED  BY <2>1 DEF Ledger!Next
<1>4. CASE status[r] \in {"pending", "unknown"} /\ outcome = "failed"
  <2>1. Ledger!Reject(r)
    BY <1>4 DEF Ledger!Reject, Ledger!Open, SetStatus, Markable
  <2>. QED  BY <2>1 DEF Ledger!Next
<1>. QED
  BY <1>1, <1>2, <1>3, <1>4

LEMMA InsertRefines ==
    ASSUME NEW h \in Handlers, call[h].request \in RequestIds,
           InsertRow(h), UNCHANGED delivered
    PROVE  Ledger!Next
<1>1. Ledger!Enter(call[h].request)
  BY DEF Ledger!Enter, InsertRow
<1>. QED
  BY <1>1 DEF Ledger!Next

\* A verdict that a call is about to mark is true, and its row exists.
LEMMA VerdictTrue ==
    ASSUME Inv, NEW h \in Handlers, pc[h] = "mark"
    PROVE  /\ call[h].request \in RequestIds
           /\ verdict[h] \in {"sent", "failed", "unknown"}
           /\ status[call[h].request] # "absent"
           /\ verdict[h] = "sent" => delivered[call[h].request] = 1
           /\ verdict[h] = "failed" => delivered[call[h].request] = 0
<1>1. call[h].request \in RequestIds /\ verdict[h] \in {"sent", "failed", "unknown"}
  BY DEF Inv, TypeInv, TypeOK, CallsKnown, Calls, Verdicts
<1>2. status[call[h].request] # "absent"
  BY DEF Inv, ReservationsTrue
<1>3. /\ verdict[h] = "sent" => delivered[call[h].request] = 1
      /\ verdict[h] = "failed" => delivered[call[h].request] = 0
  BY DEF Inv, EvidenceTrue, Undeliverable
<1>. QED
  BY <1>1, <1>2, <1>3

LEMMA StepRefines == Inv /\ [Next]_vars => [Ledger!Next]_(Ledger!vars)
<1> SUFFICES ASSUME Inv, [Next]_vars
             PROVE  Ledger!Next \/ UNCHANGED Ledger!vars
  OBVIOUS
<1> USE DEF table, locks, calls, views, world
<1>1. ASSUME NEW h \in Handlers, InsertPending(h) \/ CommitUnacknowledged(h)
      PROVE  Ledger!Next
  <2>1. InsertRow(h) /\ UNCHANGED delivered /\ pc[h] = "insert"
    BY <1>1 DEF InsertPending, CommitUnacknowledged, InsertRow
  <2>2. call[h].request \in RequestIds
    BY <2>1 DEF Inv, TypeInv, CallsKnown, Calls
  <2>. QED
    BY <2>1, <2>2, InsertRefines
<1>2. ASSUME NEW h \in Handlers, Mark(h) \/ MarkUnacknowledged(h)
      PROVE  Ledger!Next \/ UNCHANGED Ledger!vars
  <2>1. pc[h] = "mark" /\ SetStatus(call[h].request, verdict[h]) /\ UNCHANGED delivered
    BY <1>2 DEF Mark, MarkUnacknowledged
  <2>. QED
    BY <2>1, VerdictTrue, MarkRefines
<1>3. ASSUME NEW o \in Overviews, MarkStale(o)
      PROVE  Ledger!Next \/ UNCHANGED Ledger!vars
  <2>1. /\ current[o] # NoRequest
        /\ SetStatus(current[o], finding[o])
        /\ UNCHANGED delivered
    BY <1>3 DEF MarkStale
  <2>2. current[o] \in RequestIds /\ finding[o] \in {"sent", "unknown"}
    BY <2>1 DEF Inv, TypeInv, TypeOK, ViewsKnown
  <2>3. finding[o] = "sent" => delivered[current[o]] = 1
    BY DEF Inv, EvidenceTrue
  <2>4. CASE status[current[o]] = "absent"
    <3>1. status' = status
      BY <2>1, <2>2, <2>4 DEF SetStatus, Markable, Inv, TypeInv, TypeOK
    <3>. QED  BY <2>1, <3>1 DEF Ledger!vars
  <2>. QED
    BY <2>1, <2>2, <2>3, <2>4, MarkRefines
<1>4. ASSUME NEW r \in RequestIds, WorldDelivers(r)
      PROVE  Ledger!Next
  <2>1. queued[r] > 0 /\ delivered' = [delivered EXCEPT ![r] = @ + 1] /\ UNCHANGED status
    BY <1>4 DEF WorldDelivers
  <2>2. queued[r] = 1 /\ issued[r] = 1 /\ delivered[r] = 0
    <3>1. queued[r] + delivered[r] <= issued[r] /\ issued[r] <= 1
      BY DEF Inv, Counts
    <3>2. queued[r] \in Nat /\ delivered[r] \in Nat /\ issued[r] \in Nat
      BY DEF Inv, TypeInv, TypeOK
    <3>. QED  BY <2>1, <3>1, <3>2, OneOnTheWay
  <2>3. status[r] \in {"pending", "unknown"}
    <3>1. status[r] \in Statuses
      BY DEF Inv, TypeInv, TypeOK
    <3>2. status[r] # "absent" /\ status[r] # "sent" /\ status[r] # "failed"
      BY <2>2 DEF Inv, Counts, StatusTrue, Undeliverable
    <3>. QED  BY <3>1, <3>2 DEF Statuses
  <2>4. delivered' = [delivered EXCEPT ![r] = 1]
    BY <2>1, <2>2
  <2>5. Ledger!Deliver(r)
    BY <2>1, <2>2, <2>3, <2>4 DEF Ledger!Deliver, Ledger!Open
  <2>. QED  BY <2>5 DEF Ledger!Next
<1>5. ASSUME NEW h \in Handlers,
             \/ \E c \in Calls : RequestMoney(h, c)
             \/ AcquireRequestLock(h)
             \/ AcquireAccountLock(h)
             \/ LockTimeout(h)
             \/ FindExisting(h)
             \/ ReadDailyTotals(h)
             \/ ReleaseLocks(h)
             \/ HandleReservation(h)
             \/ ExecuteCommand(h)
             \/ ReceiveReply(h)
             \/ ReplyUnusable(h)
             \/ CountMatchingMail(h)
             \/ DatabaseError(h)
             \/ ReleaseFails(h)
      PROVE  UNCHANGED <<status, delivered>>
  BY <1>5, Zenon DEF RequestMoney, AcquireRequestLock, AcquireAccountLock, LockTimeout, FindExisting,
     ReadDailyTotals, ReleaseLocks, HandleReservation, ExecuteCommand,
     ReceiveReply, ReplyUnusable, CountMatchingMail, DatabaseError, ReleaseFails
<1>6. ASSUME NEW o \in Overviews,
             \/ \E a \in Accounts : FindStalePending(o, a)
             \/ \E r \in RequestIds : CountStaleMail(o, r)
             \/ OverviewError(o)
      PROVE  UNCHANGED <<status, delivered>>
  BY <1>6 DEF FindStalePending, CountStaleMail, OverviewError
<1>7. ASSUME NEW r \in RequestIds,
             WorldRejects(r) \/ PlayerEmptiesMail(r) \/ RequestGoesStale(r)
      PROVE  UNCHANGED <<status, delivered>>
  BY <1>7 DEF WorldRejects, PlayerEmptiesMail, RequestGoesStale
<1>8. ASSUME Crash \/ Midnight \/ UNCHANGED vars
      PROVE  UNCHANGED <<status, delivered>>
  BY <1>8 DEF Crash, Midnight, vars
<1>. QED
  BY <1>1, <1>2, <1>3, <1>4, <1>5, <1>6, <1>7, <1>8
  DEF Next, HandlerStep, OverviewStep, Ledger!vars

\* The status column and the deliveries behave as the abstract ledger allows:
\* entered before anything is delivered, delivered once at most, final when
\* "sent" or "failed".
THEOREM LedgerRefined == Spec => LedgerSpec
<1>1. Init => Ledger!Init
  BY DEF Init, Ledger!Init
<1>. QED
  BY <1>1, SpecInv, StepRefines, PTL DEF Spec, LedgerSpec, Ledger!Spec

-----------------------------------------------------------------------------
(* Sums.  GoldOf is a fold whose recursion the provers cannot follow; it   *)
(* is compared with a function that adds one row at a time, by induction   *)
(* over the number of rows.                                                *)

\* A set of numbers with zero and every successor has all numbers.
LEMMA NumbersInduction ==
    ASSUME NEW N, N \subseteq Nat, 0 \in N, \A n \in N : n + 1 \in N
    PROVE  N = Nat
<1> SUFFICES ASSUME Nat \ N # {} PROVE FALSE
  OBVIOUS
<1>1. PICK m \in Nat \ N : \A n \in Nat \ N : <<n, m>> \notin OpToRel(<, Nat)
  BY NatLessThanWellFounded, WFMin
<1>2. m # 0 /\ m - 1 \in Nat /\ m - 1 < m
  OBVIOUS
<1>3. m - 1 \in N
  BY <1>1, <1>2 DEF OpToRel
<1> QED
  BY <1>2, <1>3

\* What holds of the empty set and is kept by adding an element holds of every
\* subset of a finite set.
LEMMA SubsetsInduction ==
    ASSUME NEW R, IsFiniteSet(R), NEW F, {} \in F,
           \A T \in SUBSET R : \A x \in T : T \ {x} \in F => T \in F
    PROVE  \A T \in SUBSET R : T \in F
<1> DEFINE N == {n \in Nat : \A T \in SUBSET R : Cardinality(T) = n => T \in F}
<1>1. \A T \in SUBSET R : IsFiniteSet(T) /\ Cardinality(T) \in Nat
  BY FS_Subset, FS_CardinalityType
<1>2. 0 \in N
  BY <1>1, FS_EmptySet
<1>3. ASSUME NEW n \in N PROVE n + 1 \in N
  <2> SUFFICES ASSUME NEW T \in SUBSET R, Cardinality(T) = n + 1 PROVE T \in F
    OBVIOUS
  <2>1. T # {}
    BY FS_EmptySet
  <2>2. PICK x \in T : TRUE
    BY <2>1
  <2>3. Cardinality(T \ {x}) = n
    BY <1>1, <2>2, FS_RemoveElement
  <2> QED
    BY <2>2, <2>3
<1>4. N = Nat
  <2> HIDE DEF N
  <2>1. N \subseteq Nat
    BY DEF N
  <2> QED
    BY <1>2, <1>3, <2>1, NumbersInduction
<1> QED
  BY <1>1, <1>4

\* The gold of a set of rows in a table t.
Gold(t, R) == MapThenSumSet(LAMBDA r : t[r].gold, R)

\* The recursion of the fold.
Unfolds(t, R, f) ==
    f = [S \in SUBSET R |->
            IF S = {} THEN 0
            ELSE LET x == CHOOSE x \in S : TRUE IN t[x].gold + f[S \ {x}]]

\* A function that grows by the gold of each row that is added, in any order.
Additive(t, R, g) ==
    /\ g \in [SUBSET R -> Nat]
    /\ g[{}] = 0
    /\ \A S \in SUBSET R : \A x \in S : g[S] = g[S \ {x}] + t[x].gold

Weighs(t, R) == IsFiniteSet(R) /\ \A x \in R : t[x].gold \in Nat

LEMMA GoldUnfolds == \A t, R : Gold(t, R) = (CHOOSE f : Unfolds(t, R, f))[R]
  BY DEF Gold, MapThenSumSet, MapThenFoldSet, Unfolds

LEMMA AdditiveExists ==
    ASSUME NEW t, NEW R, Weighs(t, R)
    PROVE  \E g : Additive(t, R, g)
<1> DEFINE F == {T \in SUBSET R : \E g : Additive(t, T, g)}
<1>1. {} \in F
  <2> DEFINE g == [S \in SUBSET {} |-> 0]
  <2>1. Additive(t, {}, g)
    BY DEF Additive
  <2> QED
    BY <2>1
<1>2. ASSUME NEW T \in SUBSET R, NEW x \in T, T \ {x} \in F
      PROVE  T \in F
  <2>1. PICK g : Additive(t, T \ {x}, g)
    BY <1>2
  <2>2. g \in [SUBSET (T \ {x}) -> Nat] /\ g[{}] = 0 /\ t[x].gold \in Nat
    BY <2>1 DEF Additive, Weighs
  <2>3. \A S \in SUBSET (T \ {x}) : \A y \in S : g[S] = g[S \ {y}] + t[y].gold
    BY <2>1 DEF Additive
  <2> DEFINE h == [S \in SUBSET T |-> g[S \ {x}] + IF x \in S THEN t[x].gold ELSE 0]
  <2>4. \A S \in SUBSET T : S \ {x} \in SUBSET (T \ {x}) /\ g[S \ {x}] \in Nat
    BY <2>2
  <2>5. h \in [SUBSET T -> Nat]
    BY <2>2, <2>4
  <2>6. h[{}] = 0
    <3>1. {} \ {x} = {}
      OBVIOUS
    <3> QED
      BY <2>2, <3>1
  <2>7. ASSUME NEW S \in SUBSET T, NEW y \in S
        PROVE  h[S] = h[S \ {y}] + t[y].gold
    <3>1. t[y].gold \in Nat /\ S \ {y} \in SUBSET T
      BY DEF Weighs
    <3>2. CASE y = x
      <4>1. (S \ {y}) \ {x} = S \ {x} /\ x \notin S \ {y} /\ x \in S
        BY <3>2
      <4>2. h[S] = g[S \ {x}] + t[x].gold
        BY <4>1
      <4>3. h[S \ {y}] = g[S \ {x}] + 0
        BY <3>1, <4>1
      <4> QED
        BY <2>4, <3>1, <3>2, <4>2, <4>3
    <3>3. CASE y # x
      <4> DEFINE k == IF x \in S THEN t[x].gold ELSE 0
      <4>1. (S \ {y}) \ {x} = (S \ {x}) \ {y} /\ (x \in S \ {y} <=> x \in S) /\ y \in S \ {x}
        BY <3>3
      <4>2. g[S \ {x}] = g[(S \ {x}) \ {y}] + t[y].gold
        BY <2>3, <2>4, <4>1
      <4>3. h[S] = g[S \ {x}] + k
        OBVIOUS
      <4>4. h[S \ {y}] = g[(S \ {x}) \ {y}] + k
        BY <3>1, <4>1
      <4>5. k \in Nat
        BY <2>2
      <4>6. g[(S \ {x}) \ {y}] \in Nat
        BY <2>4, <3>1, <4>1
      <4> HIDE DEF k, h
      <4> QED
        BY <3>1, <4>2, <4>3, <4>4, <4>5, <4>6
    <3> QED
      BY <3>2, <3>3
  <2> HIDE DEF h
  <2>8. Additive(t, T, h)
    BY <2>5, <2>6, <2>7 DEF Additive
  <2> QED
    BY <2>8
<1> HIDE DEF F
<1>3. R \in F
  BY <1>1, <1>2, SubsetsInduction DEF Weighs
<1> QED
  BY <1>3 DEF F

LEMMA AdditiveUnfolds ==
    ASSUME NEW t, NEW R, Weighs(t, R), NEW g, Additive(t, R, g)
    PROVE  Unfolds(t, R, g)
<1>1. ASSUME NEW S \in SUBSET R
      PROVE  g[S] = IF S = {} THEN 0
                    ELSE LET x == CHOOSE x \in S : TRUE IN t[x].gold + g[S \ {x}]
  <2>1. CASE S = {}
    BY <2>1 DEF Additive
  <2>2. CASE S # {}
    <3> DEFINE x == CHOOSE x \in S : TRUE
    <3>1. x \in S
      BY <2>2
    <3>2. g[S] = g[S \ {x}] + t[x].gold
      BY <3>1 DEF Additive
    <3>3. g[S \ {x}] \in Nat /\ t[x].gold \in Nat
      BY <3>1 DEF Additive, Weighs
    <3>4. g[S] = t[x].gold + g[S \ {x}]
      BY <3>2, <3>3
    <3> QED
      BY <2>2, <3>4
  <2> QED
    BY <2>1, <2>2
<1> QED
  BY <1>1 DEF Unfolds, Additive

\* The recursion has one solution.
LEMMA UnfoldsOnce ==
    ASSUME NEW t, NEW R, Weighs(t, R), NEW f, NEW g, Unfolds(t, R, f), Unfolds(t, R, g)
    PROVE  f[R] = g[R]
<1> DEFINE N == {n \in Nat : \A S \in SUBSET R : Cardinality(S) = n => f[S] = g[S]}
<1>1. \A S \in SUBSET R : IsFiniteSet(S) /\ Cardinality(S) \in Nat
  BY FS_Subset, FS_CardinalityType DEF Weighs
<1>2. 0 \in N
  <2>1. f[{}] = 0 /\ g[{}] = 0
    BY DEF Unfolds
  <2> QED
    BY <1>1, <2>1, FS_EmptySet
<1>3. ASSUME NEW n \in N PROVE n + 1 \in N
  <2> SUFFICES ASSUME NEW S \in SUBSET R, Cardinality(S) = n + 1 PROVE f[S] = g[S]
    OBVIOUS
  <2> DEFINE x == CHOOSE x \in S : TRUE
  <2>1. S # {}
    BY FS_EmptySet
  <2>2. x \in S
    BY <2>1
  <2> n \in Nat
    OBVIOUS
  <2>3. Cardinality(S \ {x}) = n
    <3> HIDE DEF x, N
    <3> QED
      BY <1>1, <2>2, FS_RemoveElement
  <2>4. f[S \ {x}] = g[S \ {x}]
    BY <2>3
  <2>5. f[S] = t[x].gold + f[S \ {x}]
    BY <2>1 DEF Unfolds
  <2>6. g[S] = t[x].gold + g[S \ {x}]
    BY <2>1 DEF Unfolds
  <2> QED
    BY <2>4, <2>5, <2>6
<1>4. N = Nat
  <2> HIDE DEF N
  <2>1. N \subseteq Nat
    BY DEF N
  <2> QED
    BY <1>2, <1>3, <2>1, NumbersInduction
<1> QED
  BY <1>1, <1>4

LEMMA GoldAdditive ==
    ASSUME NEW t, NEW R, Weighs(t, R), NEW g, Additive(t, R, g)
    PROVE  Gold(t, R) = g[R]
<1> DEFINE f == CHOOSE f : Unfolds(t, R, f)
<1>1. Unfolds(t, R, g)
  BY AdditiveUnfolds
<1>2. Unfolds(t, R, f)
  BY <1>1
<1>3. f[R] = g[R]
  <2> HIDE DEF f
  <2> QED
    BY <1>1, <1>2, UnfoldsOnce
<1> QED
  BY <1>3, GoldUnfolds

LEMMA AdditiveBelow ==
    ASSUME NEW t, NEW R, NEW g, Additive(t, R, g), NEW T \in SUBSET R
    PROVE  Additive(t, T, [S \in SUBSET T |-> g[S]])
<1>1. SUBSET T \subseteq SUBSET R
  OBVIOUS
<1> DEFINE k == [S \in SUBSET T |-> g[S]]
<1>2. k \in [SUBSET T -> Nat] /\ k[{}] = 0
  BY <1>1 DEF Additive
<1>3. \A S \in SUBSET T : \A x \in S : k[S] = k[S \ {x}] + t[x].gold
  BY <1>1 DEF Additive
<1> HIDE DEF k
<1>4. Additive(t, T, k)
  BY <1>2, <1>3 DEF Additive
<1> QED
  BY <1>4 DEF k

LEMMA GoldBelow ==
    ASSUME NEW t, NEW R, Weighs(t, R), NEW g, Additive(t, R, g), NEW T \in SUBSET R
    PROVE  Gold(t, T) = g[T]
<1> DEFINE k == [S \in SUBSET T |-> g[S]]
<1>1. Additive(t, T, k)
  BY AdditiveBelow
<1>2. Weighs(t, T)
  BY FS_Subset DEF Weighs
<1>3. k[T] = g[T]
  OBVIOUS
<1> HIDE DEF k
<1> QED
  BY <1>1, <1>2, <1>3, GoldAdditive

LEMMA GoldSubset ==
    ASSUME NEW t, NEW R, Weighs(t, R), NEW T \in SUBSET R
    PROVE  Gold(t, T) \in Nat /\ Gold(t, R) \in Nat /\ Gold(t, T) <= Gold(t, R)
<1>1. PICK g : Additive(t, R, g)
  BY AdditiveExists
<1>2. Gold(t, R) = g[R]
  BY <1>1, GoldAdditive
<1>3. Gold(t, T) = g[T]
  BY <1>1, GoldBelow
<1>4. \A S \in SUBSET R : g[S] \in Nat
  BY <1>1 DEF Additive
<1> DEFINE D == R \ T
           F == {S \in SUBSET D : g[T] <= g[T \cup S]}
<1>5. {} \in F
  BY <1>4
<1>6. ASSUME NEW S \in SUBSET D, NEW x \in S, S \ {x} \in F PROVE S \in F
  <2>1. (T \cup S) \ {x} = T \cup (S \ {x}) /\ x \in T \cup S /\ T \cup S \in SUBSET R
    OBVIOUS
  <2>2. g[T \cup S] = g[T \cup (S \ {x})] + t[x].gold
    BY <1>1, <2>1 DEF Additive
  <2>3. t[x].gold \in Nat /\ g[T \cup (S \ {x})] \in Nat /\ g[T] \in Nat
    BY <1>4 DEF Weighs
  <2>4. g[T] <= g[T \cup (S \ {x})]
    BY <1>6
  <2> QED
    BY <2>2, <2>3, <2>4
<1> HIDE DEF F
<1>7. D \in F
  <2>1. IsFiniteSet(D)
    BY FS_Subset DEF Weighs
  <2> HIDE DEF D
  <2> QED
    BY <1>5, <1>6, <2>1, SubsetsInduction
<1>8. T \cup D = R
  OBVIOUS
<1> QED
  BY <1>2, <1>3, <1>4, <1>7, <1>8 DEF F

LEMMA GoldAdd ==
    ASSUME NEW t, NEW R, NEW x, x \notin R, Weighs(t, R \cup {x})
    PROVE  Gold(t, R \cup {x}) = Gold(t, R) + t[x].gold
<1> DEFINE U == R \cup {x}
<1>1. PICK g : Additive(t, U, g)
  BY AdditiveExists
<1>2. R \in SUBSET U /\ x \in U /\ U \ {x} = R
  OBVIOUS
<1>4. Gold(t, U) = g[U]
  BY <1>1, GoldAdditive
<1>5. Gold(t, R) = g[R]
  BY <1>1, <1>2, GoldBelow
<1>6. g[U] = g[U \ {x}] + t[x].gold
  BY <1>1, <1>2 DEF Additive
<1> QED
  BY <1>2, <1>4, <1>5, <1>6

LEMMA GoldEmpty ==
    ASSUME NEW t
    PROVE  Gold(t, {}) = 0
<1>1. Weighs(t, {})
  BY FS_EmptySet DEF Weighs
<1>2. PICK g : Additive(t, {}, g)
  BY <1>1, AdditiveExists
<1> QED
  BY <1>1, <1>2, GoldAdditive DEF Additive

LEMMA GoldSame ==
    ASSUME NEW t, NEW u, NEW R, Weighs(t, R), \A x \in R : u[x] = t[x]
    PROVE  Gold(u, R) = Gold(t, R)
<1>1. PICK g : Additive(t, R, g)
  BY AdditiveExists
<1>2. Weighs(u, R) /\ Additive(u, R, g)
  BY <1>1 DEF Weighs, Additive
<1> QED
  BY <1>1, <1>2, GoldAdditive

\* What the statement of the daily totals reads.
LEMMA GoldRead == \A R : GoldOf(R) = Gold(row, R)
  BY DEF GoldOf, Gold

-----------------------------------------------------------------------------
(* The daily limits.                                                       *)

\* The rows of account a that count on day d.
Counted(a, d) == {r \in CreatedOn(a, d) : status[r] \in CountedStatuses}

\* The rows S of table t are within the limits, also with one more request.
Fits(t, S) ==
    /\ Cardinality(S) <= DailyRequestLimit
    /\ Gold(t, S) <= DailyGoldLimit
Admits(t, S, gold) ==
    /\ Cardinality(S) < DailyRequestLimit
    /\ Gold(t, S) + gold <= DailyGoldLimit

\* From its lock on the account to the release a call holds that lock.
Guarded == {"find", "daily", "insert", "release"}

AccountHeld ==
    \A h \in Handlers : pc[h] \in Guarded => h \in accountLock[AccountOf(call[h])]

\* ... and no other call does.
OneAccountHolder ==
    \A a \in Accounts : \A g, h \in Handlers :
        g \in accountLock[a] /\ h \in accountLock[a] => g = h

\* No row is of a day to come.
DaysPast == \A r \in RequestIds : status[r] # "absent" => row[r].day <= today

LimitsKept == \A a \in Accounts, d \in Days : Fits(row, Counted(a, d))

\* What a call read of its account is still so when it inserts its row, on the
\* day it read it or on a later one.
Checked ==
    \A h \in Handlers : pc[h] = "insert" =>
        Admits(row, Counted(AccountOf(call[h]), today), call[h].gold)

LocksInv == AccountHeld /\ OneAccountHolder
SumsInv == DaysPast /\ LimitsKept /\ Checked

\* Fewer rows weigh less, one more row is what was admitted, and a day without
\* rows admits what a day with rows did.
LEMMA FewerFit ==
    ASSUME NEW t, NEW u, NEW S, Weighs(t, S), NEW T \in SUBSET S,
           \A x \in T : u[x] = t[x], NEW gold \in Nat
    PROVE  /\ Fits(t, S) => Fits(u, T)
           /\ Admits(t, S, gold) => Admits(u, T, gold)
<1>1. Weighs(t, T)
  BY FS_Subset DEF Weighs
<1>2. Gold(u, T) = Gold(t, T)
  BY <1>1, GoldSame
<1>3. Gold(t, T) \in Nat /\ Gold(t, S) \in Nat /\ Gold(t, T) <= Gold(t, S)
  BY GoldSubset
<1>4. Cardinality(T) <= Cardinality(S) /\ Cardinality(S) \in Nat /\ Cardinality(T) \in Nat
  BY <1>1, FS_Subset, FS_CardinalityType DEF Weighs
<1> QED
  BY <1>2, <1>3, <1>4, LimitAssumption DEF Fits, Admits

LEMMA OneMoreFits ==
    ASSUME NEW t, NEW u, NEW S, NEW r, r \notin S, Weighs(t, S),
           \A x \in S : u[x] = t[x], u[r].gold \in Nat, Admits(t, S, u[r].gold)
    PROVE  Fits(u, S \cup {r})
<1>1. Weighs(u, S \cup {r})
  BY FS_AddElement DEF Weighs
<1>2. Gold(u, S \cup {r}) = Gold(u, S) + u[r].gold
  BY <1>1, GoldAdd
<1>3. Gold(u, S) = Gold(t, S)
  BY GoldSame
<1>4. Cardinality(S \cup {r}) = Cardinality(S) + 1 /\ Cardinality(S) \in Nat
  BY FS_AddElement, FS_CardinalityType DEF Weighs
<1> QED
  BY <1>2, <1>3, <1>4, LimitAssumption DEF Fits, Admits

LEMMA EmptyDayAdmits ==
    ASSUME NEW t, NEW u, NEW S, Weighs(t, S), NEW gold \in Nat, Admits(t, S, gold)
    PROVE  Fits(u, {}) /\ Admits(u, {}, gold)
<1>1. Gold(t, S) \in Nat
  BY GoldSubset
<1>2. gold <= DailyGoldLimit
  BY <1>1, LimitAssumption DEF Admits
<1> QED
  BY <1>2, GoldEmpty, FS_EmptySet, LimitAssumption DEF Fits, Admits

LEMMA EmptyDayFits == \A t : Fits(t, {})
  BY GoldEmpty, FS_EmptySet, LimitAssumption DEF Fits

\* With finitely many request IDs every set of rows that exist can be weighed.
LEMMA CountedWeighs ==
    ASSUME IsFiniteSet(RequestIds), TypeInv
    PROVE  \A a, d : Weighs(row, Counted(a, d))
<1> SUFFICES ASSUME NEW a, NEW d PROVE Weighs(row, Counted(a, d))
  OBVIOUS
<1>1. Counted(a, d) \subseteq RequestIds
  BY DEF Counted, CreatedOn
<1>2. IsFiniteSet(Counted(a, d))
  BY <1>1, FS_Subset
<1>3. \A r \in Counted(a, d) : row[r] \in Rows
  BY DEF Counted, CreatedOn, TypeInv, RowsKnown
<1>4. \A x \in Rows : x.gold \in Nat
  BY LimitAssumption DEF Rows, Amounts, MinimumGold
<1> QED
  BY <1>2, <1>3, <1>4 DEF Weighs

LEMMA CallGold ==
    ASSUME TypeInv, NEW h \in Handlers, pc[h] # "idle"
    PROVE  /\ call[h] \in Calls /\ call[h].gold \in Nat /\ call[h].request \in RequestIds
           /\ call[h].character \in Characters /\ AccountOf(call[h]) \in Accounts
<1>1. call[h] \in Calls
  BY DEF TypeInv, CallsKnown
<1> QED
  BY <1>1, LimitAssumption, OwnerAssumption DEF Calls, Amounts, MinimumGold, AccountOf

LEMMA InitLimits == Init => LocksInv /\ SumsInv
<1> SUFFICES ASSUME Init PROVE LocksInv /\ SumsInv
  OBVIOUS
<1>1. \A a, d : Counted(a, d) = {}
  BY DEF Init, Counted, CreatedOn
<1>2. LimitsKept
  BY <1>1, EmptyDayFits DEF LimitsKept
<1>3. LocksInv /\ DaysPast /\ Checked
  BY DEF Init, LocksInv, AccountHeld, OneAccountHolder, DaysPast, Checked, Guarded
<1> QED
  BY <1>2, <1>3 DEF SumsInv

\* Everybody but h stays where it is.
OthersStay(h) == \A g \in Handlers \ {h} : pc'[g] = pc[g] /\ call'[g] = call[g]

\* A step of one call that gives up what it holds, or keeps it where it is.
LEMMA LeavingStep ==
    ASSUME TypeInv, LocksInv, NEW h \in Handlers, OthersStay(h),
           \A a \in Accounts : \A g \in Handlers \ {h} :
               g \in accountLock'[a] <=> g \in accountLock[a],
           \A a \in Accounts : h \in accountLock'[a] => h \in accountLock[a],
           pc'[h] \in Guarded =>
               pc[h] \in Guarded /\ call'[h] = call[h] /\ UNCHANGED accountLock
    PROVE  LocksInv'
<1>1. OneAccountHolder'
  BY DEF LocksInv, OneAccountHolder
<1>2. AccountHeld'
  <2> SUFFICES ASSUME NEW g \in Handlers, pc'[g] \in Guarded
               PROVE  g \in accountLock'[AccountOf(call'[g])]
    BY DEF AccountHeld, AccountOf
  <2>1. pc[g] \in Guarded /\ call'[g] = call[g]
    BY DEF OthersStay
  <2>2. g \in accountLock[AccountOf(call[g])] /\ AccountOf(call[g]) \in Accounts
    BY <2>1, CallGold DEF LocksInv, AccountHeld, Guarded
  <2> QED
    BY <2>1, <2>2
<1> QED
  BY <1>1, <1>2 DEF LocksInv

\* The same, with the locks untouched.
LEMMA LockFreeStep ==
    ASSUME TypeInv, LocksInv, NEW h \in Handlers, OthersStay(h), UNCHANGED accountLock,
           pc'[h] \in Guarded => pc[h] \in Guarded /\ call'[h] = call[h]
    PROVE  LocksInv'
  BY LeavingStep

LEMMA ReleaseEffect ==
    ASSUME TypeInv, NEW h \in Handlers, ReleaseBothLocks(h) \/ KeepALock(h)
    PROVE  \A a \in Accounts :
              /\ \A g \in Handlers \ {h} : g \in accountLock'[a] <=> g \in accountLock[a]
              /\ h \notin accountLock'[a]
  BY NullAssumption DEF ReleaseBothLocks, KeepALock, Kept, TypeInv, TypeOK

LEMMA ReturnEffect ==
    ASSUME TypeInv, NEW h \in Handlers, Return(h)
    PROVE  OthersStay(h) /\ pc'[h] = "idle"
  BY DEF Return, Goto, OthersStay, TypeInv, TypeOK

LEMMA GotoEffect ==
    ASSUME TypeInv, NEW h \in Handlers, NEW label, Goto(h, label)
    PROVE  /\ pc'[h] = label
           /\ \A g \in Handlers \ {h} : pc'[g] = pc[g]
  BY DEF Goto, TypeInv, TypeOK

LEMMA NextLocksInv == TypeInv /\ LocksInv /\ [Next]_vars => LocksInv'
<1> SUFFICES ASSUME TypeInv, LocksInv, [Next]_vars PROVE LocksInv'
  OBVIOUS
<1> USE DEF locks, calls
<1>1. ASSUME NEW h \in Handlers, NEW c \in Calls, RequestMoney(h, c) PROVE LocksInv'
  <2>1. OthersStay(h) /\ pc'[h] = "requestLock" /\ UNCHANGED accountLock
    BY <1>1 DEF RequestMoney, Goto, OthersStay, TypeInv, TypeOK
  <2> QED
    BY <2>1, LockFreeStep DEF Guarded
<1>2. ASSUME NEW h \in Handlers, AcquireRequestLock(h) PROVE LocksInv'
  <2>1. OthersStay(h) /\ pc'[h] = "accountLock" /\ UNCHANGED accountLock
    BY <1>2 DEF AcquireRequestLock, Goto, OthersStay, TypeInv, TypeOK
  <2> QED
    BY <2>1, LockFreeStep DEF Guarded
<1>3. ASSUME NEW h \in Handlers, AcquireAccountLock(h) PROVE LocksInv'
  <2> DEFINE a == AccountOf(call[h])
  <2>1. a \in Accounts
    BY <1>3, CallGold DEF AcquireAccountLock
  <2>2. /\ accountLock[a] \subseteq {IdleConnection}
        /\ accountLock'[a] = accountLock[a] \cup {h}
        /\ \A b \in Accounts \ {a} : accountLock'[b] = accountLock[b]
        /\ call' = call /\ \A g \in Handlers \ {h} : pc'[g] = pc[g]
    BY <1>3, <2>1 DEF AcquireAccountLock, Available, Goto, TypeInv, TypeOK
  <2>3. OneAccountHolder'
    BY <2>1, <2>2, NullAssumption DEF LocksInv, OneAccountHolder
  <2>4. AccountHeld'
    <3> SUFFICES ASSUME NEW g \in Handlers, pc'[g] \in Guarded
                 PROVE  g \in accountLock'[AccountOf(call[g])]
      BY <2>2 DEF AccountHeld, AccountOf
    <3>1. CASE g = h
      BY <2>2, <3>1
    <3>2. CASE g # h
      <4>1. pc[g] \in Guarded
        BY <2>2, <3>2
      <4>2. g \in accountLock[AccountOf(call[g])] /\ AccountOf(call[g]) \in Accounts
        BY <4>1, CallGold DEF LocksInv, AccountHeld, Guarded
      <4> HIDE DEF a
      <4> QED
        BY <2>2, <4>2
    <3> QED
      BY <3>1, <3>2
  <2> QED
    BY <2>3, <2>4 DEF LocksInv
<1>4. ASSUME NEW h \in Handlers,
             LockTimeout(h) \/ CommitUnacknowledged(h) \/ DatabaseError(h) PROVE LocksInv'
  <2>1. ReleaseBothLocks(h) /\ Return(h)
    BY <1>4 DEF LockTimeout, CommitUnacknowledged, DatabaseError
  <2>2. OthersStay(h) /\ pc'[h] = "idle"
    BY <2>1, ReturnEffect
  <2>3. \A a \in Accounts :
            /\ \A g \in Handlers \ {h} : g \in accountLock'[a] <=> g \in accountLock[a]
            /\ h \notin accountLock'[a]
    BY <2>1, ReleaseEffect
  <2> QED
    BY <2>2, <2>3, LeavingStep DEF Guarded
<1>5. ASSUME NEW h \in Handlers, ReleaseLocks(h) \/ ReleaseFails(h) PROVE LocksInv'
  <2>1. (ReleaseBothLocks(h) \/ KeepALock(h)) /\ Goto(h, "reserved") /\ call' = call
    BY <1>5 DEF ReleaseLocks, ReleaseFails
  <2>2. OthersStay(h) /\ pc'[h] = "reserved"
    BY <2>1, GotoEffect DEF OthersStay
  <2>3. \A a \in Accounts :
            /\ \A g \in Handlers \ {h} : g \in accountLock'[a] <=> g \in accountLock[a]
            /\ h \notin accountLock'[a]
    BY <2>1, ReleaseEffect
  <2> QED
    BY <2>2, <2>3, LeavingStep DEF Guarded
<1>6. ASSUME NEW h \in Handlers, FindExisting(h) PROVE LocksInv'
  <2>1. /\ Goto(h, "daily") \/ Goto(h, "release")
        /\ pc[h] = "find" /\ call' = call /\ UNCHANGED accountLock
    BY <1>6, Zenon DEF FindExisting
  <2> QED
    BY <2>1, GotoEffect, LockFreeStep DEF OthersStay, Guarded
<1>7. ASSUME NEW h \in Handlers, ReadDailyTotals(h) PROVE LocksInv'
  <2>1. /\ Goto(h, "insert") \/ Goto(h, "release")
        /\ pc[h] = "daily" /\ call' = call /\ UNCHANGED accountLock
    BY <1>7, Zenon DEF ReadDailyTotals
  <2> QED
    BY <2>1, GotoEffect, LockFreeStep DEF OthersStay, Guarded
<1>8. ASSUME NEW h \in Handlers, InsertPending(h) PROVE LocksInv'
  <2>1. Goto(h, "release") /\ pc[h] = "insert" /\ call' = call /\ UNCHANGED accountLock
    BY <1>8 DEF InsertPending, InsertRow
  <2> QED
    BY <2>1, GotoEffect, LockFreeStep DEF OthersStay, Guarded
<1>9. ASSUME NEW h \in Handlers,
             \/ HandleReservation(h) \/ ExecuteCommand(h) \/ ReceiveReply(h)
             \/ ReplyUnusable(h) \/ CountMatchingMail(h) \/ Mark(h) \/ MarkUnacknowledged(h)
      PROVE LocksInv'
  <2>1. UNCHANGED accountLock
    BY <1>9 DEF HandleReservation, ExecuteCommand, ReceiveReply, ReplyUnusable,
       CountMatchingMail, Mark, MarkUnacknowledged
  <2>2. CASE Return(h)
    BY <2>1, <2>2, ReturnEffect, LockFreeStep DEF Guarded
  <2>3. CASE (Goto(h, "count") \/ Goto(h, "awaiting") \/ Goto(h, "mark")) /\ call' = call
    BY <2>1, <2>3, GotoEffect, LockFreeStep DEF OthersStay, Guarded
  <2> QED
    BY <1>9, <2>2, <2>3, Zenon DEF HandleReservation, Refused, ReplayFinal, ReconcileExisting,
       ExecuteCommand, ReceiveReply, ReplyUnusable, CountMatchingMail, Mark, MarkUnacknowledged
<1>10. CASE Crash
  <2>1. /\ \A h \in Handlers : pc'[h] = "idle"
        /\ \A a \in Accounts : accountLock'[a] = {}
    BY <1>10 DEF Crash
  <2> QED
    BY <2>1 DEF LocksInv, AccountHeld, OneAccountHolder, Guarded
<1>11. CASE \/ \E o \in Overviews : \/ \E a \in Accounts : FindStalePending(o, a)
                                    \/ OverviewStep(o) \/ OverviewError(o)
            \/ \E r \in RequestIds : \/ WorldDelivers(r) \/ WorldRejects(r)
                                     \/ PlayerEmptiesMail(r) \/ RequestGoesStale(r)
            \/ Midnight
            \/ UNCHANGED vars
  <2>1. UNCHANGED <<pc, call, accountLock>>
    BY <1>11 DEF FindStalePending, OverviewStep, CountStaleMail, MarkStale, OverviewError,
       WorldDelivers, WorldRejects, PlayerEmptiesMail, RequestGoesStale, Midnight, vars
  <2> QED
    BY <2>1 DEF LocksInv, AccountHeld, OneAccountHolder, AccountOf
<1> QED
  BY <1>1, <1>2, <1>3, <1>4, <1>5, <1>6, <1>7, <1>8, <1>9, <1>10, <1>11 DEF Next, HandlerStep

\* A step that counts no new row and sends no call to its INSERT.
LEMMA NothingNewStep ==
    ASSUME IsFiniteSet(RequestIds), TypeInv, SumsInv, UNCHANGED <<row, today>>,
           \A r \in RequestIds : status'[r] # status[r] => status[r] \in CountedStatuses,
           \A h \in Handlers : pc'[h] = "insert" => pc[h] = "insert" /\ call'[h] = call[h]
    PROVE  SumsInv'
<1>1. \A r \in RequestIds : status'[r] \in CountedStatuses => status[r] \in CountedStatuses
  OBVIOUS
<1>2. \A r \in RequestIds : status[r] = "absent" => status'[r] = "absent"
  BY DEF CountedStatuses
<1>3. \A a, d : Counted(a, d)' \subseteq Counted(a, d)
  BY <1>1 DEF Counted, CreatedOn, AccountOf, CountedStatuses
<1>4. LimitsKept'
  <2> SUFFICES ASSUME NEW a \in Accounts, NEW d \in Days PROVE Fits(row, Counted(a, d)')
    BY DEF LimitsKept, Fits
  <2>1. Fits(row, Counted(a, d)) /\ Weighs(row, Counted(a, d))
    BY CountedWeighs DEF SumsInv, LimitsKept
  <2> QED
    BY <1>3, <2>1, FewerFit
<1>5. Checked'
  <2> SUFFICES ASSUME NEW h \in Handlers, pc'[h] = "insert"
               PROVE  Admits(row, Counted(AccountOf(call[h]), today)', call[h].gold)
    BY DEF Checked, Admits, AccountOf
  <2> DEFINE a == AccountOf(call[h])
  <2>1. pc[h] = "insert" /\ call'[h] = call[h] /\ call[h].gold \in Nat
    BY CallGold
  <2>2. Admits(row, Counted(a, today), call[h].gold) /\ Weighs(row, Counted(a, today))
    BY <2>1, CountedWeighs DEF SumsInv, Checked
  <2>3. Counted(a, today)' \subseteq Counted(a, today)
    BY <1>3, <2>1 DEF Counted, CreatedOn, AccountOf, CountedStatuses
  <2> QED
    BY <2>1, <2>2, <2>3, FewerFit
<1>6. DaysPast'
  BY DEF SumsInv, DaysPast, CountedStatuses
<1> QED
  BY <1>4, <1>5, <1>6 DEF SumsInv
\* The INSERT of a call adds what its statement of the totals admitted; the
\* lock on its account keeps the totals of every other inserting call as read.
LEMMA InsertStep ==
    ASSUME IsFiniteSet(RequestIds), TypeInv, LocksInv, SumsInv, NEW h \in Handlers,
           InsertRow(h), UNCHANGED today, OthersStay(h), pc'[h] # "insert"
    PROVE  SumsInv'
<1>1. PICK r, a, day, c : r = call[h].request /\ a = AccountOf(call[h]) /\ day = today
                          /\ c = call[h]
  OBVIOUS
<1>2. /\ pc[h] = "insert" /\ r \in RequestIds /\ a \in Accounts /\ day \in Days
      /\ status[r] = "absent" /\ c.gold \in Nat
      /\ h \in accountLock[a]
  <2>1. pc[h] = "insert" /\ status[r] = "absent"
    BY <1>1 DEF InsertRow
  <2>2. r \in RequestIds /\ a \in Accounts /\ c.gold \in Nat
    BY <1>1, <2>1, CallGold
  <2>3. h \in accountLock[a]
    BY <1>1, <2>1 DEF LocksInv, AccountHeld, Guarded
  <2>4. day \in Days
    BY <1>1 DEF TypeInv, TypeOK
  <2> QED
    BY <2>1, <2>2, <2>3, <2>4
<1>3. /\ status'[r] = "pending"
      /\ row'[r] = [character |-> c.character, gold |-> c.gold, day |-> day]
      /\ \A x \in RequestIds \ {r} : status'[x] = status[x] /\ row'[x] = row[x]
  BY <1>1, <1>2 DEF InsertRow, TypeInv, TypeOK
<1>4. row'[r].gold = c.gold /\ row'[r].day = day /\ Owner[row'[r].character] = a
  BY <1>1, <1>3 DEF AccountOf
<1>5. \A b, d : r \notin Counted(b, d)
  BY <1>2 DEF Counted, CreatedOn
<1>6. \A b, d : \A x \in Counted(b, d) : row'[x] = row[x]
  BY <1>3, <1>5 DEF Counted, CreatedOn
<1>7. ASSUME NEW b, NEW d, b # a \/ d # day PROVE Counted(b, d)' = Counted(b, d)
  BY <1>3, <1>4, <1>7, <1>2 DEF Counted, CreatedOn, AccountOf, CountedStatuses
<1>8. Counted(a, day)' = Counted(a, day) \cup {r}
  BY <1>3, <1>4, <1>2 DEF Counted, CreatedOn, AccountOf, CountedStatuses
<1>9. LimitsKept'
  <2> SUFFICES ASSUME NEW b \in Accounts, NEW d \in Days PROVE Fits(row', Counted(b, d)')
    BY DEF LimitsKept, Fits
  <2>1. Fits(row, Counted(b, d)) /\ Weighs(row, Counted(b, d))
    BY CountedWeighs DEF SumsInv, LimitsKept
  <2>2. CASE b # a \/ d # day
    <3>1. Counted(b, d)' = Counted(b, d)
      BY <1>7, <2>2
    <3>2. Counted(b, d) \in SUBSET Counted(b, d) /\ 0 \in Nat
      OBVIOUS
    <3>3. \A x \in Counted(b, d) : row'[x] = row[x]
      BY <1>6
    <3>4. Fits(row', Counted(b, d))
      BY <2>1, <3>2, <3>3, FewerFit
    <3> QED
      BY <3>1, <3>4
  <2>3. CASE b = a /\ d = day
    <3>1. Admits(row, Counted(a, day), row'[r].gold)
      BY <1>1, <1>2, <1>4 DEF SumsInv, Checked
    <3>2. Weighs(row, Counted(a, day)) /\ r \notin Counted(a, day)
          /\ \A x \in Counted(a, day) : row'[x] = row[x]
      BY <1>5, <1>6, <2>1, <2>3
    <3>3. row'[r].gold \in Nat
      BY <1>2, <1>4
    <3>4. Fits(row', Counted(a, day) \cup {r})
      BY <3>1, <3>2, <3>3, OneMoreFits
    <3> QED
      BY <1>8, <2>3, <3>4
  <2> QED
    BY <2>2, <2>3
<1>10. Checked'
  <2> SUFFICES ASSUME NEW g \in Handlers, pc'[g] = "insert"
               PROVE  Admits(row', Counted(AccountOf(call[g]), today)', call'[g].gold)
    BY DEF Checked, Admits, AccountOf
  <2>0. PICK b : b = AccountOf(call[g])
    OBVIOUS
  <2>1. g # h /\ pc[g] = "insert" /\ call'[g] = call[g] /\ b = AccountOf(call[g])
    BY <2>0 DEF OthersStay
  <2>2. g \in accountLock[b] /\ b \in Accounts /\ call[g].gold \in Nat
    BY <2>1, CallGold DEF LocksInv, AccountHeld, Guarded
  <2>3. b # a
    BY <1>2, <2>1, <2>2 DEF LocksInv, OneAccountHolder
  <2>4. Counted(AccountOf(call[g]), today)' = Counted(b, day)
    <3>1. Counted(b, day)' = Counted(b, day)
      BY <1>7, <2>3
    <3>2. Owner[call'[g].character] = b /\ today' = day
      BY <1>1, <2>0, <2>1 DEF AccountOf
    <3>3. Counted(AccountOf(call[g]), today)' = Counted(b, day)'
      BY <3>2 DEF Counted, CreatedOn, AccountOf
    <3> QED
      BY <3>1, <3>3
  <2>5. Admits(row, Counted(b, day), call[g].gold)
    BY <1>1, <2>1 DEF SumsInv, Checked
  <2>6. Weighs(row, Counted(b, day)) /\ \A x \in Counted(b, day) : row'[x] = row[x]
    BY <1>6, CountedWeighs
  <2>7. Counted(b, day) \in SUBSET Counted(b, day)
    OBVIOUS
  <2>8. Admits(row, Counted(b, day), call[g].gold)
          => Admits(row', Counted(b, day), call[g].gold)
    BY <2>2, <2>6, <2>7, FewerFit
  <2> QED
    BY <2>1, <2>4, <2>5, <2>8
<1>11. DaysPast'
  <2> SUFFICES ASSUME NEW x \in RequestIds, status'[x] # "absent"
               PROVE  row'[x].day <= today'
    BY DEF DaysPast
  <2>1. CASE x = r
    BY <1>1, <1>2, <1>4, <2>1 DEF Days
  <2>2. CASE x # r
    BY <1>3, <2>2 DEF SumsInv, DaysPast
  <2> QED
    BY <2>1, <2>2
<1> QED
  BY <1>9, <1>10, <1>11 DEF SumsInv

\* The statement of the daily totals sends a call to its INSERT only within the
\* limits of its account.
LEMMA TotalsStep ==
    ASSUME IsFiniteSet(RequestIds), TypeInv, SumsInv, NEW h \in Handlers, ReadDailyTotals(h)
    PROVE  SumsInv'
<1>1. /\ UNCHANGED <<status, row, today, call>>
      /\ \A g \in Handlers \ {h} : pc'[g] = pc[g]
  <2>1. Goto(h, "insert") \/ Goto(h, "release")
    BY Zenon DEF ReadDailyTotals
  <2> QED
    BY <2>1, GotoEffect DEF ReadDailyTotals, table
<1>2. CASE pc'[h] = "insert"
  <2>1. WithinLimits(AccountOf(call[h]), call[h].gold)
    <3>1. CASE Goto(h, "release")
      BY <1>2, <3>1, GotoEffect
    <3> QED
      BY <3>1, Zenon DEF ReadDailyTotals
  <2>2. DailyRows(AccountOf(call[h])) = Counted(AccountOf(call[h]), today)
    BY DEF DailyRows, Counted
  <2>3. Admits(row, Counted(AccountOf(call[h]), today), call[h].gold)
    BY <2>1, <2>2, GoldRead DEF WithinLimits, Admits
  <2>4. \A a, d : Counted(a, d)' = Counted(a, d)
    BY <1>1 DEF Counted, CreatedOn, AccountOf
  <2>5. ASSUME NEW g \in Handlers, pc'[g] = "insert"
        PROVE  Admits(row, Counted(AccountOf(call[g]), today), call[g].gold)
    BY <1>1, <2>3, <2>5 DEF SumsInv, Checked
  <2>6. Checked'
    <3> SUFFICES ASSUME NEW g \in Handlers, pc'[g] = "insert"
                 PROVE  Admits(row, Counted(AccountOf(call[g]), today)', call[g].gold)
      BY <1>1 DEF Checked, Admits, AccountOf
    <3>1. Counted(AccountOf(call[g]), today)' = Counted(AccountOf(call[g]), today)
      BY <1>1 DEF Counted, CreatedOn, AccountOf
    <3> QED
      BY <2>5, <3>1
  <2>7. LimitsKept'
    BY <1>1, <2>4 DEF LimitsKept, SumsInv, Fits
  <2>8. DaysPast'
    BY <1>1 DEF SumsInv, DaysPast
  <2> QED
    BY <2>6, <2>7, <2>8 DEF SumsInv
<1>3. CASE pc'[h] # "insert"
  BY <1>1, <1>3, NothingNewStep
<1> QED
  BY <1>2, <1>3

\* A day begins without rows: what the old day admitted, the new one does.
LEMMA MidnightStep ==
    ASSUME IsFiniteSet(RequestIds), TypeInv, SumsInv, Midnight
    PROVE  SumsInv'
<1>1. UNCHANGED <<status, row, call, pc>> /\ today' = today + 1 /\ today \in Nat
  BY DEF Midnight, table, calls, TypeInv, TypeOK, Days
<1>2. \A a, d : Counted(a, d)' = Counted(a, d)
  BY <1>1 DEF Counted, CreatedOn, AccountOf
<1>3. \A r \in RequestIds : status[r] # "absent" => row[r].day \in Nat
  BY DEF TypeInv, RowsKnown, Rows, Days
<1>4. \A r \in RequestIds : status[r] # "absent" => row[r].day < today + 1
  BY <1>1, <1>3 DEF SumsInv, DaysPast
<1>5. Checked'
  <2> SUFFICES ASSUME NEW h \in Handlers, pc[h] = "insert"
               PROVE  Admits(row, Counted(AccountOf(call[h]), today)', call[h].gold)
    BY <1>1 DEF Checked, Admits, AccountOf
  <2>1. Counted(AccountOf(call[h]), today)' = {}
    BY <1>1, <1>4 DEF Counted, CreatedOn
  <2>2. Admits(row, Counted(AccountOf(call[h]), today), call[h].gold)
    BY DEF SumsInv, Checked
  <2>3. Weighs(row, Counted(AccountOf(call[h]), today)) /\ call[h].gold \in Nat
    BY CountedWeighs, CallGold
  <2>4. Admits(row, {}, call[h].gold)
    BY <2>2, <2>3, EmptyDayAdmits
  <2> QED
    BY <2>1, <2>4
<1>6. LimitsKept'
  BY <1>1, <1>2 DEF LimitsKept, SumsInv, Fits
<1>7. DaysPast'
  BY <1>1, <1>4, <1>3 DEF DaysPast
<1> QED
  BY <1>5, <1>6, <1>7 DEF SumsInv

LEMMA NextSumsInv ==
    ASSUME IsFiniteSet(RequestIds)
    PROVE  TypeInv /\ LocksInv /\ SumsInv /\ [Next]_vars => SumsInv'
<1> SUFFICES ASSUME TypeInv, LocksInv, SumsInv, [Next]_vars PROVE SumsInv'
  OBVIOUS
<1> USE DEF table, calls
<1>1. ASSUME NEW h \in Handlers,
             \/ \E c \in Calls : RequestMoney(h, c)
             \/ AcquireRequestLock(h) \/ AcquireAccountLock(h) \/ LockTimeout(h)
             \/ FindExisting(h) \/ ReleaseLocks(h) \/ ReleaseFails(h) \/ DatabaseError(h)
             \/ HandleReservation(h) \/ ExecuteCommand(h) \/ ReceiveReply(h)
             \/ ReplyUnusable(h) \/ CountMatchingMail(h)
      PROVE  SumsInv'
  <2>1. UNCHANGED <<status, row, today>>
    BY <1>1 DEF RequestMoney, AcquireRequestLock, AcquireAccountLock, LockTimeout,
       FindExisting, ReleaseLocks, ReleaseFails, DatabaseError, HandleReservation,
       ExecuteCommand, ReceiveReply, ReplyUnusable, CountMatchingMail
  <2>2. \A g \in Handlers : pc'[g] = "insert" => pc[g] = "insert" /\ call'[g] = call[g]
    <3>1. CASE Return(h)
      BY <3>1, ReturnEffect DEF OthersStay
    <3>2. ASSUME NEW label, Goto(h, label), label # "insert",
                 \A g \in Handlers \ {h} : call'[g] = call[g]
          PROVE  \A g \in Handlers : pc'[g] = "insert" => pc[g] = "insert" /\ call'[g] = call[g]
      BY <3>2, GotoEffect
    <3>3. CASE \E c \in Calls : RequestMoney(h, c)
      <4>1. Goto(h, "requestLock") /\ \A g \in Handlers \ {h} : call'[g] = call[g]
        BY <3>3 DEF RequestMoney, TypeInv, TypeOK
      <4> QED
        BY <3>2, <4>1
    <3>4. CASE AcquireRequestLock(h) \/ AcquireAccountLock(h) \/ FindExisting(h)
               \/ ReleaseLocks(h) \/ ReleaseFails(h)
      <4>1. call' = call
        BY <3>4 DEF AcquireRequestLock, AcquireAccountLock, FindExisting, ReleaseLocks,
           ReleaseFails
      <4>2. \/ Goto(h, "accountLock") \/ Goto(h, "find") \/ Goto(h, "daily")
            \/ Goto(h, "release") \/ Goto(h, "reserved")
        BY <3>4, Zenon DEF AcquireRequestLock, AcquireAccountLock, FindExisting, ReleaseLocks,
           ReleaseFails
      <4> QED
        BY <3>2, <4>1, <4>2
    <3>5. CASE ReconcileExisting(h) \/ ExecuteCommand(h) \/ ReceiveReply(h)
               \/ ReplyUnusable(h) \/ CountMatchingMail(h)
      <4>1. call' = call
        BY <3>5 DEF ReconcileExisting, ExecuteCommand, ReceiveReply, ReplyUnusable,
           CountMatchingMail
      <4>2. Goto(h, "count") \/ Goto(h, "awaiting") \/ Goto(h, "mark")
        BY <3>5, Zenon DEF ReconcileExisting, ExecuteCommand, ReceiveReply, ReplyUnusable,
           CountMatchingMail
      <4> QED
        BY <3>2, <4>1, <4>2
    <3>6. CASE LockTimeout(h) \/ DatabaseError(h) \/ Refused(h) \/ ReplayFinal(h)
      BY <3>1, <3>6, Zenon DEF LockTimeout, DatabaseError, Refused, ReplayFinal
    <3> QED
      BY <1>1, <3>3, <3>4, <3>5, <3>6, Zenon DEF HandleReservation
  <2> QED
    BY <2>1, <2>2, NothingNewStep
<1>2. ASSUME NEW h \in Handlers, ReadDailyTotals(h) PROVE SumsInv'
  BY <1>2, TotalsStep
<1>3. ASSUME NEW h \in Handlers, InsertPending(h) PROVE SumsInv'
  <2>1. InsertRow(h) /\ Goto(h, "release") /\ call' = call /\ today' = today
    BY <1>3 DEF InsertPending
  <2>2. OthersStay(h) /\ pc'[h] # "insert"
    BY <2>1, GotoEffect DEF OthersStay
  <2> QED
    BY <2>1, <2>2, InsertStep
<1>4. ASSUME NEW h \in Handlers, CommitUnacknowledged(h) PROVE SumsInv'
  <2>1. InsertRow(h) /\ Return(h) /\ today' = today
    BY <1>4 DEF CommitUnacknowledged
  <2>2. OthersStay(h) /\ pc'[h] # "insert"
    BY <2>1, ReturnEffect
  <2> QED
    BY <2>1, <2>2, InsertStep
<1>5. ASSUME NEW r, NEW outcome, SetStatus(r, outcome)
      PROVE  \A x \in RequestIds : status'[x] # status[x] => status[x] \in CountedStatuses
  BY <1>5 DEF SetStatus, Markable, CountedStatuses, TypeInv, TypeOK
<1>6. ASSUME NEW h \in Handlers, Mark(h) \/ MarkUnacknowledged(h) PROVE SumsInv'
  <2>1. /\ SetStatus(call[h].request, verdict[h]) /\ Return(h)
        /\ UNCHANGED <<row, today>>
    BY <1>6 DEF Mark, MarkUnacknowledged
  <2>2. OthersStay(h) /\ pc'[h] = "idle"
    BY <2>1, ReturnEffect
  <2> QED
    BY <1>5, <2>1, <2>2, NothingNewStep DEF OthersStay
<1>7. ASSUME NEW o \in Overviews, MarkStale(o) PROVE SumsInv'
  <2>1. SetStatus(current[o], finding[o]) /\ UNCHANGED <<row, today, pc, call>>
    BY <1>7 DEF MarkStale
  <2> QED
    BY <1>5, <2>1, NothingNewStep
<1>8. CASE Crash
  <2>1. UNCHANGED <<status, row, today>> /\ \A h \in Handlers : pc'[h] = "idle"
    BY <1>8 DEF Crash
  <2> QED
    BY <2>1, NothingNewStep
<1>9. CASE Midnight
  BY <1>9, MidnightStep
<1>10. CASE \/ \E o \in Overviews : \/ \E a \in Accounts : FindStalePending(o, a)
                                    \/ \E r \in RequestIds : CountStaleMail(o, r)
                                    \/ OverviewError(o)
            \/ \E r \in RequestIds : \/ WorldDelivers(r) \/ WorldRejects(r)
                                     \/ PlayerEmptiesMail(r) \/ RequestGoesStale(r)
            \/ UNCHANGED vars
  <2>1. UNCHANGED <<status, row, today, pc, call>>
    BY <1>10 DEF FindStalePending, CountStaleMail, OverviewError, WorldDelivers,
       WorldRejects, PlayerEmptiesMail, RequestGoesStale, vars
  <2> QED
    BY <2>1, NothingNewStep
<1> QED
  BY <1>1, <1>2, <1>3, <1>4, <1>6, <1>7, <1>8, <1>9, <1>10
  DEF Next, HandlerStep, OverviewStep

\* No account ever has more requests, or more gold, reserved or delivered on a
\* day than the limits, whatever the calls of the account overlap with: the
\* rows that are spent are the rows that count, because a failed row has no
\* mail.
THEOREM DailyLimitsCorrect ==
    ASSUME IsFiniteSet(RequestIds)
    PROVE  Spec => []DailyLimits
<1>1. ASSUME Inv, SumsInv PROVE DailyLimits
  <2> SUFFICES ASSUME NEW a \in Accounts, NEW d \in Days
               PROVE  LET spent == {r \in CreatedOn(a, d) :
                                       status[r] # "failed" \/ delivered[r] > 0}
                      IN  /\ Cardinality(spent) <= DailyRequestLimit
                          /\ GoldOf(spent) <= DailyGoldLimit
    BY DEF DailyLimits
  <2> DEFINE spent == {r \in CreatedOn(a, d) : status[r] # "failed" \/ delivered[r] > 0}
  <2>1. \A r \in RequestIds : status[r] = "failed" => ~(delivered[r] > 0)
    BY <1>1 DEF Inv, StatusTrue, Undeliverable
  <2>2. \A r \in RequestIds : status[r] \in Statuses
    BY <1>1 DEF Inv, TypeInv, TypeOK
  <2>3. spent = Counted(a, d)
    BY <2>1, <2>2 DEF Counted, CreatedOn, CountedStatuses, Statuses
  <2>4. Fits(row, Counted(a, d))
    BY <1>1 DEF SumsInv, LimitsKept
  <2> QED
    BY <2>3, <2>4, GoldRead DEF Fits
<1>2. Inv => TypeInv
  BY DEF Inv
<1> QED
  BY <1>1, <1>2, SpecInv, InitLimits, NextLocksInv, NextSumsInv, PTL DEF Spec


=============================================================================
