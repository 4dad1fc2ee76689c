------------------------ MODULE MailItemBoost_proof ------------------------
(***************************************************************************)
(* Proofs about the boosts that mail items, for any number of concurrent   *)
(* calls, characters, names, requests, attachments, renames and faults.    *)
(***************************************************************************)
EXTENDS MailItemBoost, SequenceTheorems, TLAPS

-----------------------------------------------------------------------------
(* The inductive invariant.                                                *)

\* Only an idle slot has no input, and a call marks only what it found out.
CallsKnown ==
    \A h \in Handlers :
        /\ pc[h] # "idle" => call[h] \in Inputs
        /\ pc[h] = "mark" => verdict[h] # "none"
        /\ pc[h] # "mark" => verdict[h] = "none"

RowsKnown == \A r \in RequestIds : status[r] # "absent" => row[r] \in Rows

ViewsKnown ==
    \A o \in Overviews :
        /\ current[o] # NoRequest => finding[o] \in {"sent", "unknown"}
        /\ current[o] = NoRequest => finding[o] = "none"

TypeInv == TypeOK /\ CallsKnown /\ RowsKnown /\ ViewsKnown

\* From GET_LOCK to its release a call holds the lock of its request.
LocksHeld ==
    \A h \in Handlers :
        pc[h] \in {"find", "insert", "release"} => h \in requestLock[call[h].request]

\* ... and no other call does.
OneHolder ==
    \A r \in RequestIds : \A g, h \in Handlers :
        g \in requestLock[r] /\ h \in requestLock[r] => g = h

\* ... so the row it did not find is still missing when it inserts it.
StillAbsent ==
    \A h \in Handlers : pc[h] = "insert" => status[call[h].request] = "absent"

\* A call that inserted its row and has not yet posted its command.
HoldsTicket(h) ==
    pc[h] \in {"release", "reserved"} /\ reservation[h] = "inserted"

\* The command of r is spent and produced nothing.
Undeliverable(r) == issued[r] = 1 /\ queued[r] = {} /\ Len(mails[r]) = 0

\* One command, one mail at most, and neither without a row.
Counts ==
    \A r \in RequestIds :
        /\ issued[r] <= 1
        /\ \A m, n \in queued[r] : m = n
        /\ queued[r] # {} => issued[r] = 1 /\ Len(mails[r]) = 0
        /\ Len(mails[r]) <= issued[r]
        /\ status[r] = "absent" => issued[r] = 0

Tickets ==
    \A h \in Handlers : HoldsTicket(h) => issued[call[h].request] = 0

OneTicket ==
    \A g, h \in Handlers :
        HoldsTicket(g) /\ HoldsTicket(h) /\ call[g].request = call[h].request
            => g = h

\* What reserve returned stays true of the row.
ReservationTrue(h) ==
    /\ reservation[h] \in {"inserted", "pending", "sent", "failed", "unknown"}
          => /\ pc[h] # "idle"
             /\ status[call[h].request] # "absent"
             /\ SameDetails(call[h], call[h].request)
    /\ reservation[h] \in {"sent", "failed"}
          => status[call[h].request] = reservation[h]
    /\ pc[h] \in {"idle", "requestLock", "find", "insert"}
          => reservation[h] = "none"
    /\ pc[h] \in {"awaiting", "inspect", "mark"}
          => reservation[h] \in {"inserted", "pending", "unknown"}

ReservationsTrue == \A h \in Handlers : ReservationTrue(h)

\* What a call or an overview is about to mark is what happened in the game.
EvidenceTrue ==
    /\ \A h \in Handlers :
        /\ reply[h] = "sent" => /\ pc[h] # "idle"
                                /\ Len(mails[call[h].request]) = 1
        /\ reply[h] = "failed" => /\ pc[h] # "idle"
                                  /\ Undeliverable(call[h].request)
        /\ verdict[h] = "sent" => Len(mails[call[h].request]) = 1
        /\ verdict[h] = "failed" => Undeliverable(call[h].request)
    /\ \A o \in Overviews :
        finding[o] = "sent" => Len(mails[current[o]]) = 1

StatusTrue ==
    \A r \in RequestIds :
        /\ status[r] = "sent" => Len(mails[r]) = 1
        /\ status[r] = "failed" => Undeliverable(r)

Inv == /\ TypeInv
       /\ LocksHeld
       /\ OneHolder
       /\ StillAbsent
       /\ Counts
       /\ Tickets
       /\ OneTicket
       /\ ReservationsTrue
       /\ EvidenceTrue
       /\ StatusTrue
       /\ AnswersMatchLedger

-----------------------------------------------------------------------------
(* Lemmas about the parts of a step.                                       *)

LEMMA InitInv == Init => Inv
BY NullAssumption, SizeAssumption, EmptySeq
DEF Init, Inv, TypeInv, TypeOK, CallsKnown, RowsKnown, ViewsKnown, Statuses,
    Rows, Inputs, Reservations, Verdicts, PCs, LocksHeld, OneHolder, StillAbsent,
    HoldsTicket, Undeliverable, Counts, Tickets, OneTicket, ReservationsTrue,
    ReservationTrue, EvidenceTrue, StatusTrue, AnswersMatchLedger

\* The UPDATE of mark settles an open row and touches no other.
LEMMA SetStatusEffect ==
    ASSUME TypeOK, NEW r \in RequestIds, NEW outcome \in {"sent", "failed", "unknown"},
           SetStatus(r, outcome)
    PROVE  /\ status' \in [RequestIds -> Statuses]
           /\ \A x \in RequestIds \ {r} : status'[x] = status[x]
           /\ status[r] \in {"pending", "unknown"} => status'[r] = outcome
           /\ status[r] \notin {"pending", "unknown"} => status'[r] = status[r]
BY DEF TypeOK, SetStatus, Markable, Statuses

LEMMA AtMostOne ==
    ASSUME NEW l \in Nat, NEW i \in 1 .. l, NEW k \in Nat, l <= k, k <= 1
    PROVE  l = 1
OBVIOUS

\* A complete mail proves the delivery; less never proves anything.
LEMMA FindingSound ==
    ASSUME TypeOK, Counts, NEW r \in RequestIds
    PROVE  /\ FindingOf(Match(r)) \in {"sent", "unknown"}
           /\ FindingOf(Match(r)) = "sent" => Len(mails[r]) = 1
<1>1. FindingOf(Match(r)) \in {"sent", "unknown"}
  BY DEF FindingOf
<1>2. ASSUME Match(r) = "exact" PROVE Len(mails[r]) = 1
  <2>1. MatchingMails(r) # {}
    BY <1>2 DEF Match
  <2>2. \E i \in 1 .. Len(mails[r]) : TRUE
    BY <2>1 DEF MatchingMails
  <2>3. Len(mails[r]) \in Nat /\ issued[r] \in Nat
    BY LenProperties DEF TypeOK
  <2>4. Len(mails[r]) <= issued[r] /\ issued[r] <= 1
    BY DEF Counts
  <2>. QED
    BY <2>2, <2>3, <2>4, AtMostOne
<1>. QED
  BY <1>1, <1>2 DEF FindingOf

\* Only the calls that wait for it get the reply.
LEMMA ReplyEffect ==
    ASSUME TypeOK, NEW r \in RequestIds, NEW text, ReplyToWaiting(r, text)
    PROVE  \A h \in Handlers :
              reply'[h] # reply[h] =>
                  reply'[h] = text /\ pc[h] = "awaiting" /\ call[h].request = r
BY DEF ReplyToWaiting

\* Only a command that is on its way delivers, and it is the only one.
LEMMA OnTheWay ==
    ASSUME Counts, NEW r \in RequestIds, NEW n \in queued[r]
    PROVE  /\ queued[r] = {n}
           /\ issued[r] = 1
           /\ Len(mails[r]) = 0
           /\ status[r] # "absent"
BY DEF Counts

\* A rejected command is gone.
LEMMA RejectionEffect ==
    ASSUME Counts, NEW r \in RequestIds, NEW n \in Names, WorldRejects(r, n)
    PROVE  n \in queued[r] /\ queued' = [queued EXCEPT ![r] = {}]
<1>1. n \in queued[r] /\ queued' = [queued EXCEPT ![r] = @ \ {n}]
  BY DEF WorldRejects
<1>2. queued[r] = {n}
  BY <1>1, OnTheWay
<1>3. queued[r] \ {n} = {}
  BY <1>2
<1>. QED
  BY <1>1, <1>3

\* The command sends one mail, to whoever has the name now.
LEMMA DeliveryEffect ==
    ASSUME TypeOK, RowsKnown, Counts, NEW r \in RequestIds, NEW c \in Characters,
           WorldDelivers(r, c)
    PROVE  /\ name[c] \in queued[r]
           /\ queued' = [queued EXCEPT ![r] = {}]
           /\ mails' \in [RequestIds -> Seq(Mails)]
           /\ \A x \in RequestIds \ {r} : mails'[x] = mails[x]
           /\ Len(mails'[r]) = 1
           /\ mails'[r][1].to = c
<1> DEFINE m == [to |-> c, left |-> row[r].stacks]
<1>1. /\ name[c] \in queued[r]
      /\ queued' = [queued EXCEPT ![r] = @ \ {name[c]}]
      /\ mails' = [mails EXCEPT ![r] = Append(@, m)]
  BY DEF WorldDelivers
<1>2. queued[r] = {name[c]} /\ Len(mails[r]) = 0 /\ status[r] # "absent"
  BY <1>1, OnTheWay
<1>3. m \in Mails
  <2>1. row[r] \in Rows
    BY <1>2 DEF RowsKnown
  <2>. QED  BY <2>1, SizeAssumption DEF Rows, Mails, StackCounts
<1>4. mails \in [RequestIds -> Seq(Mails)]
  BY DEF TypeOK
<1>5. /\ Append(mails[r], m) \in Seq(Mails)
      /\ Len(Append(mails[r], m)) = Len(mails[r]) + 1
      /\ Append(mails[r], m)[Len(mails[r]) + 1] = m
  BY <1>3, <1>4, AppendProperties
<1>6. /\ Len(Append(mails[r], m)) = 1
      /\ Append(mails[r], m)[1] = m
  BY <1>2, <1>5
<1>7. mails'[r] = Append(mails[r], m)
  BY <1>1, <1>4
<1>8. /\ mails' \in [RequestIds -> Seq(Mails)]
      /\ \A x \in RequestIds \ {r} : mails'[x] = mails[x]
  BY <1>1, <1>4, <1>5
<1>9. queued' = [queued EXCEPT ![r] = {}]
  BY <1>1, <1>2
<1>10. Len(mails'[r]) = 1 /\ mails'[r][1] = m
  BY <1>6, <1>7
<1>11. m.to = c
  OBVIOUS
<1>. HIDE DEF m
<1>. QED
  BY <1>1, <1>8, <1>9, <1>10, <1>11

\* Taking an item changes neither the number of mails nor their receivers.
LEMMA TakeEffect ==
    ASSUME TypeOK, NEW r \in RequestIds, NEW i \in DOMAIN mails[r],
           PlayerTakesItem(r, i)
    PROVE  /\ mails' \in [RequestIds -> Seq(Mails)]
           /\ \A x \in RequestIds :
                 /\ Len(mails'[x]) = Len(mails[x])
                 /\ \A j \in 1 .. Len(mails[x]) : mails'[x][j].to = mails[x][j].to
<1> DEFINE m == [mails[r][i] EXCEPT !.left = @ - 1]
<1>1. mails' = [mails EXCEPT ![r] = [mails[r] EXCEPT ![i] = m]] /\ mails[r][i].left > 0
  BY DEF PlayerTakesItem
<1>2. mails \in [RequestIds -> Seq(Mails)]
  BY DEF TypeOK
<1>3. i \in 1 .. Len(mails[r])
  BY <1>2, LenProperties
<1>4. mails[r][i] \in Mails
  BY <1>2, <1>3, ElementOfSeq
<1>5. m \in Mails /\ m.to = mails[r][i].to
  BY <1>1, <1>4, SizeAssumption DEF Mails
<1>6. /\ [mails[r] EXCEPT ![i] = m] \in Seq(Mails)
      /\ Len([mails[r] EXCEPT ![i] = m]) = Len(mails[r])
      /\ \A j \in 1 .. Len(mails[r]) :
             [mails[r] EXCEPT ![i] = m][j] = IF j = i THEN m ELSE mails[r][j]
  BY <1>2, <1>3, <1>5, ExceptSeq
<1>7. mails'[r] = [mails[r] EXCEPT ![i] = m]
  BY <1>1, <1>2
<1>8. \A x \in RequestIds \ {r} : mails'[x] = mails[x]
  BY <1>1, <1>2
<1>9. mails' \in [RequestIds -> Seq(Mails)]
  BY <1>1, <1>2, <1>6
<1>10. \A j \in 1 .. Len(mails[r]) : mails'[r][j].to = mails[r][j].to
  BY <1>5, <1>6, <1>7
<1>. QED
  BY <1>6, <1>7, <1>8, <1>9, <1>10

\* A verdict that a call is about to mark is true, and its row exists.
LEMMA VerdictTrue ==
    ASSUME Inv, NEW h \in Handlers, pc[h] = "mark"
    PROVE  /\ call[h].request \in RequestIds
           /\ verdict[h] \in {"sent", "failed", "unknown"}
           /\ status[call[h].request] # "absent"
           /\ verdict[h] = "sent" => Len(mails[call[h].request]) = 1
           /\ verdict[h] = "failed" => Undeliverable(call[h].request)
           /\ verdict[h] = "sent" => status[call[h].request] # "failed"
           /\ verdict[h] = "failed" => status[call[h].request] # "sent"
<1>1. call[h].request \in RequestIds /\ verdict[h] \in {"sent", "failed", "unknown"}
  BY DEF Inv, TypeInv, TypeOK, CallsKnown, Inputs, Verdicts
<1>2. status[call[h].request] # "absent"
  BY DEF Inv, ReservationsTrue, ReservationTrue
<1>3. /\ verdict[h] = "sent" => Len(mails[call[h].request]) = 1
      /\ verdict[h] = "failed" => Undeliverable(call[h].request)
  BY DEF Inv, EvidenceTrue
<1>4. /\ status[call[h].request] = "sent" => Len(mails[call[h].request]) = 1
      /\ status[call[h].request] = "failed" => Undeliverable(call[h].request)
  BY <1>1 DEF Inv, StatusTrue
<1>5. ~(Len(mails[call[h].request]) = 1 /\ Undeliverable(call[h].request))
  BY DEF Undeliverable
<1>. QED
  BY <1>1, <1>2, <1>3, <1>4, <1>5

-----------------------------------------------------------------------------
(* Type correctness.                                                       *)

\* Every step keeps the variables in their types.  The mail of a command has
\* its receiver's row to take its size from (Counts).
LEMMA NextTypeInv == Inv /\ [Next]_vars => TypeInv'
<1> SUFFICES ASSUME Inv, [Next]_vars PROVE TypeInv'
  BY DEF Inv
<1> USE NullAssumption, SizeAssumption
    DEF Inv, TypeInv, TypeOK, CallsKnown, RowsKnown, ViewsKnown, Inputs, Rows,
        Statuses, Reservations, Verdicts, PCs, Holders, table, calls, views, world
<1>1. ASSUME NEW h \in Handlers, NEW r \in RequestIds, NEW c \in Characters,
             NEW n \in StackCounts, RequestItem(h, r, c, n)
      PROVE  TypeInv'
  BY <1>1 DEF RequestItem, Goto
<1>2. ASSUME NEW h \in Handlers, AcquireLock(h) PROVE TypeInv'
  BY <1>2 DEF AcquireLock, Goto
<1>3. ASSUME NEW h \in Handlers, LockTimeout(h) PROVE TypeInv'
  BY <1>3 DEF LockTimeout, ReleaseLock, Return, Goto
<1>4. ASSUME NEW h \in Handlers, FindExisting(h) PROVE TypeInv'
  <2>1. pc[h] = "find" /\ call[h].request \in RequestIds
    BY <1>4 DEF FindExisting
  <2>2. \/ reservation' = reservation
        \/ \E x \in Statuses \cup {"conflict"} :
               x # "absent" /\ reservation' = [reservation EXCEPT ![h] = x]
    BY <1>4, <2>1 DEF FindExisting
  <2>3. reservation' \in [Handlers -> Reservations]
    BY <2>2
  <2>4. \E l \in {"insert", "release"} : pc' = [pc EXCEPT ![h] = l]
    BY <1>4, Zenon DEF FindExisting, Goto
  <2>5. UNCHANGED <<table, requestLock, call, verdict, reply, views, world,
                    issued, answered, faults>>
    BY <1>4, Zenon DEF FindExisting
  <2>. QED
    BY <2>1, <2>3, <2>4, <2>5
<1>5. ASSUME NEW h \in Handlers, InsertPending(h) PROVE TypeInv'
  BY <1>5 DEF InsertPending, InsertRow, Goto
<1>6. ASSUME NEW h \in Handlers, ReleaseLocks(h) PROVE TypeInv'
  BY <1>6 DEF ReleaseLocks, ReleaseLock, Goto
<1>7. ASSUME NEW h \in Handlers, HandleReservation(h) PROVE TypeInv'
  <2>1. CASE Refused(h)
    BY <1>7, <2>1 DEF HandleReservation, Refused, Return, Goto
  <2>2. CASE ReplayFinal(h)
    BY <1>7, <2>2 DEF HandleReservation, ReplayFinal, Answer, Answers, Return, Goto
  <2>3. CASE ReconcileExisting(h)
    BY <1>7, <2>3 DEF HandleReservation, ReconcileExisting, Goto
  <2>. QED
    BY <1>7, <2>1, <2>2, <2>3, Zenon DEF HandleReservation
<1>8. ASSUME NEW h \in Handlers, ExecuteCommand(h) PROVE TypeInv'
  BY <1>8 DEF ExecuteCommand, SendsCommand, Goto
<1>9. ASSUME NEW h \in Handlers, ReceiveReply(h) PROVE TypeInv'
  BY <1>9 DEF ReceiveReply, Goto
<1>10. ASSUME NEW h \in Handlers, ReplyUnusable(h) PROVE TypeInv'
  BY <1>10 DEF ReplyUnusable, Goto
<1>11. ASSUME NEW h \in Handlers, InspectMatchingMail(h) PROVE TypeInv'
  <2>1. pc[h] = "inspect" /\ call[h].request \in RequestIds
    BY <1>11 DEF InspectMatchingMail
  <2>2. PICK seen \in {"sent", "unknown"} : verdict' = [verdict EXCEPT ![h] = seen]
    BY <1>11, <2>1, FindingSound DEF InspectMatchingMail
  <2>3. /\ pc' = [pc EXCEPT ![h] = "mark"]
        /\ UNCHANGED <<table, requestLock, call, reservation, reply, views, world,
                       issued, answered, faults>>
    BY <1>11 DEF InspectMatchingMail, Goto
  <2>. QED
    BY <2>1, <2>2, <2>3
<1>12. ASSUME NEW h \in Handlers, Mark(h) PROVE TypeInv'
  BY <1>12 DEF Mark, SetStatus, Markable, Answer, Answers, Return, Goto
<1>13. ASSUME NEW h \in Handlers, CommitUnacknowledged(h) PROVE TypeInv'
  BY <1>13 DEF CommitUnacknowledged, Fault, InsertRow, ReleaseLock, Return, Goto
<1>14. ASSUME NEW h \in Handlers, ReleaseFails(h) PROVE TypeInv'
  BY <1>14 DEF ReleaseFails, Fault, Goto
<1>15. ASSUME NEW h \in Handlers, DatabaseError(h) PROVE TypeInv'
  BY <1>15 DEF DatabaseError, Fault, ReleaseLock, Return, Goto
<1>16. ASSUME NEW h \in Handlers, MarkUnacknowledged(h) PROVE TypeInv'
  BY <1>16 DEF MarkUnacknowledged, Fault, SetStatus, Markable, Return, Goto
<1>17. ASSUME NEW o \in Overviews, NEW a \in Accounts, FindStalePending(o, a)
      PROVE  TypeInv'
  BY <1>17 DEF FindStalePending
<1>18. ASSUME NEW o \in Overviews, NEW r \in RequestIds, InspectStaleMail(o, r)
      PROVE  TypeInv'
  <2>1. PICK seen \in {"sent", "unknown"} : finding' = [finding EXCEPT ![o] = seen]
    BY <1>18, FindingSound DEF InspectStaleMail
  <2>2. /\ current' = [current EXCEPT ![o] = r]
        /\ UNCHANGED <<table, requestLock, calls, batch, world, issued, answered,
                       faults>>
    BY <1>18 DEF InspectStaleMail
  <2>. QED
    BY <2>1, <2>2
<1>19. ASSUME NEW o \in Overviews, MarkStale(o) PROVE TypeInv'
  BY <1>19 DEF MarkStale, SetStatus, Markable
<1>20. ASSUME NEW o \in Overviews, OverviewError(o) PROVE TypeInv'
  BY <1>20 DEF OverviewError, Fault
<1>21. ASSUME NEW r \in RequestIds, NEW c \in Characters, WorldDelivers(r, c)
      PROVE  TypeInv'
  <2>1. mails' \in [RequestIds -> Seq(Mails)] /\ queued' = [queued EXCEPT ![r] = {}]
    BY <1>21, DeliveryEffect
  <2>2. UNCHANGED <<table, requestLock, pc, call, reservation, verdict, views,
                    name, renames, issued, answered, faults>>
    BY <1>21 DEF WorldDelivers
  <2>3. reply' \in [Handlers -> {"none", "sent", "failed"}]
    BY <1>21 DEF WorldDelivers, ReplyToWaiting
  <2>. QED
    BY <2>1, <2>2, <2>3
<1>22. ASSUME NEW r \in RequestIds, NEW n \in Names, WorldRejects(r, n) PROVE TypeInv'
  BY <1>22 DEF WorldRejects, ReplyToWaiting
<1>23. ASSUME NEW r \in RequestIds, NEW i \in DOMAIN mails[r], PlayerTakesItem(r, i)
      PROVE  TypeInv'
  <2>1. mails' \in [RequestIds -> Seq(Mails)]
    BY <1>23, TakeEffect
  <2>2. UNCHANGED <<table, requestLock, calls, views, name, renames, queued,
                    issued, answered, faults>>
    BY <1>23 DEF PlayerTakesItem
  <2>. QED
    BY <2>1, <2>2
<1>24. ASSUME NEW r \in RequestIds, RequestGoesStale(r) PROVE TypeInv'
  BY <1>24 DEF RequestGoesStale
<1>25. ASSUME NEW c \in Characters, NEW n \in Names, Rename(c, n) PROVE TypeInv'
  BY <1>25 DEF Rename
<1>26. CASE Crash
  BY <1>26 DEF Crash, Fault
<1>27. CASE UNCHANGED vars
  BY <1>27 DEF vars
<1>. QED
  BY <1>1, <1>2, <1>3, <1>4, <1>5, <1>6, <1>7, <1>8, <1>9, <1>10, <1>11, <1>12, <1>13,
     <1>14, <1>15, <1>16, <1>17, <1>18, <1>19, <1>20, <1>21, <1>22, <1>23, <1>24,
     <1>25, <1>26, <1>27
  DEF Next, HandlerStep

-----------------------------------------------------------------------------
(* Safety.                                                                 *)

LEMMA NextInv == Inv /\ TypeInv' /\ [Next]_vars => Inv'
<1> SUFFICES ASSUME Inv, TypeInv', [Next]_vars PROVE Inv'
  OBVIOUS
<1> USE NullAssumption
    DEF Inv, TypeInv, TypeOK, CallsKnown, RowsKnown, ViewsKnown, Inputs, Rows,
        Holders, table, calls, views, world
<1>1. ASSUME NEW h \in Handlers, NEW r \in RequestIds, NEW c \in Characters,
             NEW n \in StackCounts, RequestItem(h, r, c, n)
      PROVE  Inv'
  <2>1. LocksHeld' /\ OneHolder' /\ StillAbsent'
    BY <1>1 DEF RequestItem, Goto, LocksHeld, OneHolder, StillAbsent
  <2>2. Counts' /\ Tickets' /\ OneTicket'
    BY <1>1 DEF RequestItem, Goto, Counts, Tickets, OneTicket, HoldsTicket,
       StillAbsent
  <2>3. ReservationsTrue'
    <3>1. /\ pc[h] = "idle"
          /\ pc' = [pc EXCEPT ![h] = "requestLock"]
          /\ \A g \in Handlers \ {h} : call'[g] = call[g]
          /\ UNCHANGED <<status, row, reservation>>
      BY <1>1 DEF RequestItem, Goto
    <3>2. reservation[h] = "none"
      BY <3>1 DEF ReservationsTrue, ReservationTrue
    <3>3. /\ pc'[h] = "requestLock" /\ reservation'[h] = "none"
          /\ \A g \in Handlers \ {h} :
                 pc'[g] = pc[g] /\ call'[g] = call[g] /\ reservation'[g] = reservation[g]
      BY <3>1, <3>2
    <3>4. ReservationTrue(h)'
      BY <3>3 DEF ReservationTrue
    <3>5. ASSUME NEW g \in Handlers \ {h} PROVE ReservationTrue(g)'
      BY <3>1, <3>3 DEF ReservationsTrue, ReservationTrue, SameDetails
    <3>. QED  BY <3>4, <3>5 DEF ReservationsTrue, ReservationTrue
  <2>4. EvidenceTrue' /\ StatusTrue'
    <3>1. /\ pc[h] = "idle"
          /\ pc' = [pc EXCEPT ![h] = "requestLock"]
          /\ \A g \in Handlers \ {h} : call'[g] = call[g]
          /\ UNCHANGED <<status, reply, verdict, finding, current, queued, issued, mails>>
      BY <1>1 DEF RequestItem, Goto
    <3>2. verdict[h] = "none" /\ reply[h] \notin {"sent", "failed"}
      BY <3>1 DEF EvidenceTrue
    <3>3. EvidenceTrue'
      BY <3>1, <3>2 DEF EvidenceTrue, Undeliverable
    <3>4. StatusTrue'
      BY <3>1 DEF StatusTrue, Undeliverable
    <3>. QED  BY <3>3, <3>4
  <2>5. AnswersMatchLedger'
    BY <1>1 DEF RequestItem, Goto, AnswersMatchLedger, SameDetails
  <2>. QED  BY <2>1, <2>2, <2>3, <2>4, <2>5
<1>2. ASSUME NEW h \in Handlers, AcquireLock(h) PROVE Inv'
  <2>1. LocksHeld' /\ OneHolder' /\ StillAbsent'
    BY <1>2 DEF AcquireLock, Goto, LocksHeld, OneHolder, StillAbsent, Available
  <2>2. Counts' /\ Tickets' /\ OneTicket'
    BY <1>2 DEF AcquireLock, Goto, Counts, Tickets, OneTicket, HoldsTicket,
       StillAbsent
  <2>3. ReservationsTrue'
    BY <1>2 DEF AcquireLock, Goto, ReservationsTrue, ReservationTrue, SameDetails
  <2>4. EvidenceTrue' /\ StatusTrue'
    BY <1>2 DEF AcquireLock, Goto, EvidenceTrue, StatusTrue, Undeliverable, Counts
  <2>5. AnswersMatchLedger'
    BY <1>2 DEF AcquireLock, Goto, AnswersMatchLedger, SameDetails
  <2>. QED  BY <2>1, <2>2, <2>3, <2>4, <2>5
<1>3. ASSUME NEW h \in Handlers, LockTimeout(h) PROVE Inv'
  <2>1. LocksHeld' /\ OneHolder' /\ StillAbsent'
    BY <1>3 DEF LockTimeout, ReleaseLock, Return, Goto, LocksHeld, OneHolder,
       StillAbsent
  <2>2. Counts' /\ Tickets' /\ OneTicket'
    BY <1>3 DEF LockTimeout, ReleaseLock, Return, Goto, Counts, Tickets, OneTicket,
       HoldsTicket, StillAbsent
  <2>3. ReservationsTrue'
    BY <1>3 DEF LockTimeout, ReleaseLock, Return, Goto, ReservationsTrue,
       ReservationTrue, SameDetails
  <2>4. EvidenceTrue' /\ StatusTrue'
    BY <1>3 DEF LockTimeout, ReleaseLock, Return, Goto, EvidenceTrue, StatusTrue,
       Undeliverable, Counts
  <2>5. AnswersMatchLedger'
    BY <1>3 DEF LockTimeout, ReleaseLock, Return, Goto, AnswersMatchLedger,
       SameDetails
  <2>. QED  BY <2>1, <2>2, <2>3, <2>4, <2>5
<1>4. ASSUME NEW h \in Handlers, FindExisting(h) PROVE Inv'
  <2>1. LocksHeld' /\ OneHolder' /\ StillAbsent'
    BY <1>4 DEF FindExisting, Goto, LocksHeld, OneHolder, StillAbsent
  <2>2. Counts' /\ Tickets' /\ OneTicket'
    <3>1. /\ pc[h] = "find"
          /\ \E l \in {"insert", "release"} : pc' = [pc EXCEPT ![h] = l]
          /\ UNCHANGED <<status, call, queued, mails, issued>>
      BY <1>4, Zenon DEF FindExisting, Goto
    <3>2. reservation[h] = "none"
      BY <3>1 DEF ReservationsTrue, ReservationTrue
    <3>3. \/ UNCHANGED reservation
          \/ \E x \in Statuses \cup {"conflict"} :
                 reservation' = [reservation EXCEPT ![h] = x]
      BY <1>4, <3>1 DEF FindExisting
    <3>4. /\ reservation'[h] # "inserted"
          /\ \A g \in Handlers \ {h} : reservation'[g] = reservation[g]
      BY <3>2, <3>3 DEF Statuses
    <3>. QED  BY <3>1, <3>4 DEF Counts, Tickets, OneTicket, HoldsTicket, StillAbsent
  <2>3. ReservationsTrue'
    BY <1>4 DEF FindExisting, Goto, ReservationsTrue, ReservationTrue, SameDetails
  <2>4. EvidenceTrue' /\ StatusTrue'
    BY <1>4 DEF FindExisting, Goto, EvidenceTrue, StatusTrue, Undeliverable, Counts
  <2>5. AnswersMatchLedger'
    BY <1>4 DEF FindExisting, Goto, AnswersMatchLedger, SameDetails
  <2>. QED  BY <2>1, <2>2, <2>3, <2>4, <2>5
<1>5. ASSUME NEW h \in Handlers, InsertPending(h) PROVE Inv'
  <2>1. LocksHeld' /\ OneHolder' /\ StillAbsent'
    BY <1>5 DEF InsertPending, InsertRow, Goto, LocksHeld, OneHolder, StillAbsent
  <2>2. Counts' /\ Tickets' /\ OneTicket'
    BY <1>5 DEF InsertPending, InsertRow, Goto, Counts, Tickets, OneTicket,
       HoldsTicket, StillAbsent, ReservationsTrue, ReservationTrue
  <2>3. ReservationsTrue'
    BY <1>5 DEF InsertPending, InsertRow, Goto, ReservationsTrue, ReservationTrue,
       SameDetails
  <2>4. EvidenceTrue' /\ StatusTrue'
    BY <1>5 DEF InsertPending, InsertRow, Goto, EvidenceTrue, StatusTrue,
       Undeliverable, Counts
  <2>5. AnswersMatchLedger'
    BY <1>5 DEF InsertPending, InsertRow, Goto, AnswersMatchLedger, SameDetails
  <2>. QED  BY <2>1, <2>2, <2>3, <2>4, <2>5
<1>6. ASSUME NEW h \in Handlers, ReleaseLocks(h) PROVE Inv'
  <2>1. LocksHeld' /\ OneHolder' /\ StillAbsent'
    BY <1>6 DEF ReleaseLocks, ReleaseLock, Goto, LocksHeld, OneHolder, StillAbsent
  <2>2. Counts' /\ Tickets' /\ OneTicket'
    BY <1>6 DEF ReleaseLocks, ReleaseLock, Goto, Counts, Tickets, OneTicket,
       HoldsTicket, StillAbsent
  <2>3. ReservationsTrue'
    BY <1>6 DEF ReleaseLocks, ReleaseLock, Goto, ReservationsTrue, ReservationTrue,
       SameDetails
  <2>4. EvidenceTrue' /\ StatusTrue'
    BY <1>6 DEF ReleaseLocks, ReleaseLock, Goto, EvidenceTrue, StatusTrue,
       Undeliverable, Counts
  <2>5. AnswersMatchLedger'
    BY <1>6 DEF ReleaseLocks, ReleaseLock, Goto, AnswersMatchLedger, SameDetails
  <2>. QED  BY <2>1, <2>2, <2>3, <2>4, <2>5
<1>7. ASSUME NEW h \in Handlers, HandleReservation(h) PROVE Inv'
  <2>1. CASE Refused(h)
    <3>1. LocksHeld' /\ OneHolder' /\ StillAbsent'
      BY <1>7, <2>1 DEF HandleReservation, Refused, Return, Goto, LocksHeld,
         OneHolder, StillAbsent
    <3>2. Counts' /\ Tickets' /\ OneTicket'
      BY <1>7, <2>1 DEF HandleReservation, Refused, Return, Goto, Counts, Tickets,
         OneTicket, HoldsTicket, StillAbsent
    <3>3. ReservationsTrue'
      BY <1>7, <2>1 DEF HandleReservation, Refused, Return, Goto, ReservationsTrue,
         ReservationTrue, SameDetails
    <3>4. EvidenceTrue' /\ StatusTrue'
      BY <1>7, <2>1 DEF HandleReservation, Refused, Return, Goto, EvidenceTrue,
         StatusTrue, Undeliverable, Counts
    <3>5. AnswersMatchLedger'
      BY <1>7, <2>1 DEF HandleReservation, Refused, Return, Goto, AnswersMatchLedger,
         SameDetails
    <3>. QED  BY <3>1, <3>2, <3>3, <3>4, <3>5
  <2>2. CASE ReplayFinal(h)
    <3>1. LocksHeld' /\ OneHolder' /\ StillAbsent'
      BY <1>7, <2>2 DEF HandleReservation, ReplayFinal, Answer, Return, Goto,
         LocksHeld, OneHolder, StillAbsent
    <3>2. Counts' /\ Tickets' /\ OneTicket'
      BY <1>7, <2>2 DEF HandleReservation, ReplayFinal, Answer, Return, Goto, Counts,
         Tickets, OneTicket, HoldsTicket, StillAbsent
    <3>3. ReservationsTrue'
      BY <1>7, <2>2 DEF HandleReservation, ReplayFinal, Answer, Return, Goto,
         ReservationsTrue, ReservationTrue, SameDetails
    <3>4. EvidenceTrue' /\ StatusTrue'
      BY <1>7, <2>2 DEF HandleReservation, ReplayFinal, Answer, Return, Goto,
         EvidenceTrue, StatusTrue, Undeliverable, Counts
    <3>5. AnswersMatchLedger'
      <4>1. /\ reservation[h] \in {"sent", "failed"}
            /\ answered' = [answered EXCEPT ![call[h].request] = @ \cup
                   {[character |-> call[h].character, stacks |-> call[h].stacks,
                     outcome |-> reservation[h]]}]
            /\ UNCHANGED <<status, row>>
        BY <1>7, <2>2 DEF HandleReservation, ReplayFinal, Answer
      <4>. QED  BY <4>1 DEF AnswersMatchLedger, ReservationsTrue, ReservationTrue, SameDetails
    <3>. QED  BY <3>1, <3>2, <3>3, <3>4, <3>5
  <2>3. CASE ReconcileExisting(h)
    <3>1. LocksHeld' /\ OneHolder' /\ StillAbsent'
      BY <1>7, <2>3 DEF HandleReservation, ReconcileExisting, Goto, LocksHeld,
         OneHolder, StillAbsent
    <3>2. Counts' /\ Tickets' /\ OneTicket'
      BY <1>7, <2>3 DEF HandleReservation, ReconcileExisting, Goto, Counts, Tickets,
         OneTicket, HoldsTicket, StillAbsent
    <3>3. ReservationsTrue'
      BY <1>7, <2>3 DEF HandleReservation, ReconcileExisting, Goto, ReservationsTrue,
         ReservationTrue, SameDetails
    <3>4. EvidenceTrue' /\ StatusTrue'
      BY <1>7, <2>3 DEF HandleReservation, ReconcileExisting, Goto, EvidenceTrue,
         StatusTrue, Undeliverable, Counts
    <3>5. AnswersMatchLedger'
      BY <1>7, <2>3 DEF HandleReservation, ReconcileExisting, Goto,
         AnswersMatchLedger, SameDetails
    <3>. QED  BY <3>1, <3>2, <3>3, <3>4, <3>5
  <2>. QED
    BY <1>7, <2>1, <2>2, <2>3, Zenon DEF HandleReservation
<1>8. ASSUME NEW h \in Handlers, ExecuteCommand(h) PROVE Inv'
  <2>1. LocksHeld' /\ OneHolder' /\ StillAbsent'
    BY <1>8 DEF ExecuteCommand, SendsCommand, Goto, LocksHeld, OneHolder, StillAbsent
  <2>2. Counts' /\ Tickets' /\ OneTicket'
    BY <1>8 DEF ExecuteCommand, SendsCommand, Goto, Counts, Tickets, OneTicket,
       HoldsTicket, StillAbsent, ReservationsTrue, ReservationTrue
  <2>3. ReservationsTrue'
    BY <1>8 DEF ExecuteCommand, SendsCommand, Goto, ReservationsTrue, ReservationTrue,
       SameDetails
  <2>4. EvidenceTrue' /\ StatusTrue'
    BY <1>8 DEF ExecuteCommand, SendsCommand, Goto, EvidenceTrue, StatusTrue,
       Undeliverable, Counts, Tickets, HoldsTicket
  <2>5. AnswersMatchLedger'
    BY <1>8 DEF ExecuteCommand, SendsCommand, Goto, AnswersMatchLedger, SameDetails
  <2>. QED  BY <2>1, <2>2, <2>3, <2>4, <2>5
<1>9. ASSUME NEW h \in Handlers, ReceiveReply(h) PROVE Inv'
  <2>1. LocksHeld' /\ OneHolder' /\ StillAbsent'
    BY <1>9 DEF ReceiveReply, Goto, LocksHeld, OneHolder, StillAbsent
  <2>2. Counts' /\ Tickets' /\ OneTicket'
    BY <1>9 DEF ReceiveReply, Goto, Counts, Tickets, OneTicket, HoldsTicket,
       StillAbsent
  <2>3. ReservationsTrue'
    BY <1>9 DEF ReceiveReply, Goto, ReservationsTrue, ReservationTrue, SameDetails
  <2>4. EvidenceTrue' /\ StatusTrue'
    BY <1>9 DEF ReceiveReply, Goto, EvidenceTrue, StatusTrue, Undeliverable, Counts
  <2>5. AnswersMatchLedger'
    BY <1>9 DEF ReceiveReply, Goto, AnswersMatchLedger, SameDetails
  <2>. QED  BY <2>1, <2>2, <2>3, <2>4, <2>5
<1>10. ASSUME NEW h \in Handlers, ReplyUnusable(h) PROVE Inv'
  <2>1. LocksHeld' /\ OneHolder' /\ StillAbsent'
    BY <1>10 DEF ReplyUnusable, Goto, LocksHeld, OneHolder, StillAbsent
  <2>2. Counts' /\ Tickets' /\ OneTicket'
    BY <1>10 DEF ReplyUnusable, Goto, Counts, Tickets, OneTicket, HoldsTicket,
       StillAbsent
  <2>3. ReservationsTrue'
    BY <1>10 DEF ReplyUnusable, Goto, ReservationsTrue, ReservationTrue, SameDetails
  <2>4. EvidenceTrue' /\ StatusTrue'
    BY <1>10 DEF ReplyUnusable, Goto, EvidenceTrue, StatusTrue, Undeliverable, Counts
  <2>5. AnswersMatchLedger'
    BY <1>10 DEF ReplyUnusable, Goto, AnswersMatchLedger, SameDetails
  <2>. QED  BY <2>1, <2>2, <2>3, <2>4, <2>5
<1>11. ASSUME NEW h \in Handlers, InspectMatchingMail(h) PROVE Inv'
  <2>1. LocksHeld' /\ OneHolder' /\ StillAbsent'
    BY <1>11 DEF InspectMatchingMail, Goto, LocksHeld, OneHolder, StillAbsent
  <2>2. Counts' /\ Tickets' /\ OneTicket'
    BY <1>11 DEF InspectMatchingMail, Goto, Counts, Tickets, OneTicket, HoldsTicket,
       StillAbsent
  <2>3. ReservationsTrue'
    BY <1>11 DEF InspectMatchingMail, Goto, ReservationsTrue, ReservationTrue,
       SameDetails
  <2>4. EvidenceTrue' /\ StatusTrue'
    <3>1. pc[h] = "inspect" /\ call[h].request \in RequestIds
      BY <1>11 DEF InspectMatchingMail
    <3>2. PICK seen \in {"sent", "unknown"} :
             /\ verdict' = [verdict EXCEPT ![h] = seen]
             /\ seen = "sent" => Len(mails[call[h].request]) = 1
      BY <1>11, <3>1, FindingSound DEF InspectMatchingMail
    <3>3. /\ pc' = [pc EXCEPT ![h] = "mark"]
          /\ UNCHANGED <<status, call, reply, finding, current, queued, issued, mails>>
      BY <1>11 DEF InspectMatchingMail, Goto
    <3>. QED  BY <3>1, <3>2, <3>3 DEF EvidenceTrue, StatusTrue, Undeliverable
  <2>5. AnswersMatchLedger'
    BY <1>11 DEF InspectMatchingMail, Goto, AnswersMatchLedger, SameDetails
  <2>. QED  BY <2>1, <2>2, <2>3, <2>4, <2>5
<1>12. ASSUME NEW h \in Handlers, Mark(h) PROVE Inv'
  <2> DEFINE r == call[h].request
  <2>1. /\ r \in RequestIds
        /\ pc[h] = "mark"
        /\ verdict[h] \in {"sent", "failed", "unknown"}
        /\ SetStatus(r, verdict[h])
    BY <1>12 DEF Mark, Verdicts
  <2>2. /\ status' \in [RequestIds -> Statuses]
        /\ \A x \in RequestIds \ {r} : status'[x] = status[x]
        /\ status[r] \in {"pending", "unknown"} => status'[r] = verdict[h]
        /\ status[r] \notin {"pending", "unknown"} => status'[r] = status[r]
    BY <2>1, SetStatusEffect
  <2>3. /\ pc' = [pc EXCEPT ![h] = "idle"]
        /\ call' = [call EXCEPT ![h] = NoCall]
        /\ reservation' = [reservation EXCEPT ![h] = "none"]
        /\ verdict' = [verdict EXCEPT ![h] = "none"]
        /\ reply' = [reply EXCEPT ![h] = "none"]
        /\ UNCHANGED <<row, requestLock, views, world, issued>>
        /\ answered' = [answered EXCEPT ![r] = @ \cup
               {[character |-> call[h].character, stacks |-> call[h].stacks,
                 outcome |-> verdict[h]]}]
    BY <1>12 DEF Mark, Answer, Return, Goto
  <2>4. LocksHeld' /\ OneHolder' /\ StillAbsent'
    BY <2>1, <2>2, <2>3 DEF LocksHeld, OneHolder, StillAbsent
  <2>5. Counts' /\ Tickets' /\ OneTicket'
    BY <2>1, <2>2, <2>3 DEF Counts, Tickets, OneTicket, HoldsTicket, StillAbsent
  <2>6. ReservationsTrue'
    BY <2>1, <2>2, <2>3 DEF ReservationsTrue, ReservationTrue, SameDetails
  <2>7. EvidenceTrue' /\ StatusTrue'
    <3>1. EvidenceTrue'
      BY <2>1, <2>2, <2>3 DEF EvidenceTrue, Undeliverable
    <3>2. StatusTrue'
      BY <2>1, <2>2, <2>3 DEF EvidenceTrue, StatusTrue, Undeliverable
    <3>. QED  BY <3>1, <3>2
  <2>8. AnswersMatchLedger'
    <3>1. status[r] # "absent" /\ SameDetails(call[h], r)
      BY <2>1 DEF ReservationsTrue, ReservationTrue
    <3>2. verdict[h] \in {"sent", "failed"} => status'[r] = verdict[h]
      BY <2>1, <2>2, <3>1, VerdictTrue DEF Statuses
    <3>3. verdict[h] = "unknown" => status'[r] # "pending"
      BY <2>1, <2>2
    <3>. QED  BY <2>1, <2>2, <2>3, <3>1, <3>2, <3>3 DEF AnswersMatchLedger, SameDetails
  <2>. QED  BY <2>4, <2>5, <2>6, <2>7, <2>8
<1>13. ASSUME NEW h \in Handlers, CommitUnacknowledged(h) PROVE Inv'
  <2>1. LocksHeld' /\ OneHolder' /\ StillAbsent'
    BY <1>13 DEF CommitUnacknowledged, Fault, InsertRow, ReleaseLock, Return, Goto,
       LocksHeld, OneHolder, StillAbsent
  <2>2. Counts' /\ Tickets' /\ OneTicket'
    <3>1. Counts'
      BY <1>13 DEF CommitUnacknowledged, InsertRow, Return, Goto, Counts
    <3>2. Tickets' /\ OneTicket'
      BY <1>13 DEF CommitUnacknowledged, InsertRow, Return, Goto, Tickets, OneTicket, HoldsTicket
    <3>. QED  BY <3>1, <3>2
  <2>3. ReservationsTrue'
    <3> DEFINE r == call[h].request
    <3>1. /\ r \in RequestIds
          /\ status[r] = "absent"
          /\ \A x \in RequestIds \ {r} : status'[x] = status[x] /\ row'[x] = row[x]
      BY <1>13 DEF CommitUnacknowledged, InsertRow
    <3>2. /\ pc' = [pc EXCEPT ![h] = "idle"]
          /\ call' = [call EXCEPT ![h] = NoCall]
          /\ reservation' = [reservation EXCEPT ![h] = "none"]
      BY <1>13 DEF CommitUnacknowledged, Return, Goto
    <3>3. \A g \in Handlers :
             reservation[g] \in {"inserted", "pending", "sent", "failed", "unknown"}
                 => call[g].request \in RequestIds \ {r}
      BY <3>1 DEF ReservationsTrue, ReservationTrue
    <3>. QED  BY <3>1, <3>2, <3>3 DEF ReservationsTrue, ReservationTrue, SameDetails
  <2>4. EvidenceTrue' /\ StatusTrue'
    BY <1>13 DEF CommitUnacknowledged, Fault, InsertRow, ReleaseLock, Return, Goto,
       EvidenceTrue, StatusTrue, Undeliverable, Counts
  <2>5. AnswersMatchLedger'
    BY <1>13 DEF CommitUnacknowledged, Fault, InsertRow, ReleaseLock, Return, Goto,
       AnswersMatchLedger, SameDetails
  <2>. QED  BY <2>1, <2>2, <2>3, <2>4, <2>5
<1>14. ASSUME NEW h \in Handlers, ReleaseFails(h) PROVE Inv'
  <2>1. LocksHeld' /\ OneHolder' /\ StillAbsent'
    BY <1>14 DEF ReleaseFails, Fault, Goto, LocksHeld, OneHolder, StillAbsent
  <2>2. Counts' /\ Tickets' /\ OneTicket'
    BY <1>14 DEF ReleaseFails, Fault, Goto, Counts, Tickets, OneTicket, HoldsTicket,
       StillAbsent
  <2>3. ReservationsTrue'
    BY <1>14 DEF ReleaseFails, Fault, Goto, ReservationsTrue, ReservationTrue,
       SameDetails
  <2>4. EvidenceTrue' /\ StatusTrue'
    BY <1>14 DEF ReleaseFails, Fault, Goto, EvidenceTrue, StatusTrue, Undeliverable,
       Counts
  <2>5. AnswersMatchLedger'
    BY <1>14 DEF ReleaseFails, Fault, Goto, AnswersMatchLedger, SameDetails
  <2>. QED  BY <2>1, <2>2, <2>3, <2>4, <2>5
<1>15. ASSUME NEW h \in Handlers, DatabaseError(h) PROVE Inv'
  <2>1. LocksHeld' /\ OneHolder' /\ StillAbsent'
    BY <1>15 DEF DatabaseError, Fault, ReleaseLock, Return, Goto, LocksHeld,
       OneHolder, StillAbsent
  <2>2. Counts' /\ Tickets' /\ OneTicket'
    BY <1>15 DEF DatabaseError, Fault, ReleaseLock, Return, Goto, Counts, Tickets,
       OneTicket, HoldsTicket, StillAbsent
  <2>3. ReservationsTrue'
    BY <1>15 DEF DatabaseError, Fault, ReleaseLock, Return, Goto, ReservationsTrue,
       ReservationTrue, SameDetails
  <2>4. EvidenceTrue' /\ StatusTrue'
    BY <1>15 DEF DatabaseError, Fault, ReleaseLock, Return, Goto, EvidenceTrue,
       StatusTrue, Undeliverable, Counts
  <2>5. AnswersMatchLedger'
    BY <1>15 DEF DatabaseError, Fault, ReleaseLock, Return, Goto, AnswersMatchLedger,
       SameDetails
  <2>. QED  BY <2>1, <2>2, <2>3, <2>4, <2>5
<1>16. ASSUME NEW h \in Handlers, MarkUnacknowledged(h) PROVE Inv'
  <2> DEFINE r == call[h].request
  <2>1. /\ r \in RequestIds
        /\ pc[h] = "mark"
        /\ verdict[h] \in {"sent", "failed", "unknown"}
        /\ SetStatus(r, verdict[h])
    BY <1>16 DEF MarkUnacknowledged, Verdicts
  <2>2. /\ status' \in [RequestIds -> Statuses]
        /\ \A x \in RequestIds \ {r} : status'[x] = status[x]
        /\ status[r] \in {"pending", "unknown"} => status'[r] = verdict[h]
        /\ status[r] \notin {"pending", "unknown"} => status'[r] = status[r]
    BY <2>1, SetStatusEffect
  <2>3. /\ pc' = [pc EXCEPT ![h] = "idle"]
        /\ call' = [call EXCEPT ![h] = NoCall]
        /\ reservation' = [reservation EXCEPT ![h] = "none"]
        /\ verdict' = [verdict EXCEPT ![h] = "none"]
        /\ reply' = [reply EXCEPT ![h] = "none"]
        /\ UNCHANGED <<row, requestLock, views, world, issued>>
        /\ answered' = answered
    BY <1>16 DEF MarkUnacknowledged, Fault, Return, Goto
  <2>4. LocksHeld' /\ OneHolder' /\ StillAbsent'
    BY <2>1, <2>2, <2>3 DEF LocksHeld, OneHolder, StillAbsent
  <2>5. Counts' /\ Tickets' /\ OneTicket'
    BY <2>1, <2>2, <2>3 DEF Counts, Tickets, OneTicket, HoldsTicket, StillAbsent
  <2>6. ReservationsTrue'
    BY <2>1, <2>2, <2>3 DEF ReservationsTrue, ReservationTrue, SameDetails
  <2>7. EvidenceTrue' /\ StatusTrue'
    <3>1. EvidenceTrue'
      BY <2>1, <2>2, <2>3 DEF EvidenceTrue, Undeliverable
    <3>2. StatusTrue'
      BY <2>1, <2>2, <2>3 DEF EvidenceTrue, StatusTrue, Undeliverable
    <3>. QED  BY <3>1, <3>2
  <2>8. AnswersMatchLedger'
    BY <2>1, <2>2, <2>3 DEF AnswersMatchLedger, SameDetails
  <2>. QED  BY <2>4, <2>5, <2>6, <2>7, <2>8
<1>17. ASSUME NEW o \in Overviews, NEW a \in Accounts, FindStalePending(o, a) PROVE Inv'
  <2>1. LocksHeld' /\ OneHolder' /\ StillAbsent'
    BY <1>17 DEF FindStalePending, LocksHeld, OneHolder, StillAbsent
  <2>2. Counts' /\ Tickets' /\ OneTicket'
    BY <1>17 DEF FindStalePending, Counts, Tickets, OneTicket, HoldsTicket,
       StillAbsent
  <2>3. ReservationsTrue'
    BY <1>17 DEF FindStalePending, ReservationsTrue, ReservationTrue, SameDetails
  <2>4. EvidenceTrue' /\ StatusTrue'
    BY <1>17 DEF FindStalePending, EvidenceTrue, StatusTrue, Undeliverable, Counts
  <2>5. AnswersMatchLedger'
    BY <1>17 DEF FindStalePending, AnswersMatchLedger, SameDetails
  <2>. QED  BY <2>1, <2>2, <2>3, <2>4, <2>5
<1>18. ASSUME NEW o \in Overviews, NEW r \in RequestIds, InspectStaleMail(o, r)
      PROVE  Inv'
  <2>1. LocksHeld' /\ OneHolder' /\ StillAbsent'
    BY <1>18 DEF InspectStaleMail, LocksHeld, OneHolder, StillAbsent
  <2>2. Counts' /\ Tickets' /\ OneTicket'
    BY <1>18 DEF InspectStaleMail, Counts, Tickets, OneTicket, HoldsTicket,
       StillAbsent
  <2>3. ReservationsTrue'
    BY <1>18 DEF InspectStaleMail, ReservationsTrue, ReservationTrue, SameDetails
  <2>4. EvidenceTrue' /\ StatusTrue'
    <3>1. PICK seen \in {"sent", "unknown"} :
             /\ finding' = [finding EXCEPT ![o] = seen]
             /\ seen = "sent" => Len(mails[r]) = 1
      BY <1>18, FindingSound DEF InspectStaleMail
    <3>2. /\ current' = [current EXCEPT ![o] = r]
          /\ UNCHANGED <<status, call, pc, reply, verdict, queued, issued, mails>>
      BY <1>18 DEF InspectStaleMail
    <3>. QED  BY <3>1, <3>2 DEF EvidenceTrue, StatusTrue, Undeliverable
  <2>5. AnswersMatchLedger'
    BY <1>18 DEF InspectStaleMail, AnswersMatchLedger, SameDetails
  <2>. QED  BY <2>1, <2>2, <2>3, <2>4, <2>5
<1>19. ASSUME NEW o \in Overviews, MarkStale(o) PROVE Inv'
  <2>1. LocksHeld' /\ OneHolder' /\ StillAbsent'
    BY <1>19 DEF MarkStale, SetStatus, Markable, LocksHeld, OneHolder, StillAbsent
  <2>2. Counts' /\ Tickets' /\ OneTicket'
    <3> DEFINE q == current[o]
    <3>1. /\ SetStatus(q, finding[o])
          /\ q \in RequestIds /\ finding[o] \in {"sent", "unknown"}
          /\ UNCHANGED <<queued, mails, issued, pc, call, reservation>>
      BY <1>19 DEF MarkStale
    <3>2. /\ \A x \in RequestIds \ {q} : status'[x] = status[x]
          /\ status[q] \in {"pending", "unknown"} => status'[q] = finding[o]
          /\ status[q] \notin {"pending", "unknown"} => status'[q] = status[q]
      BY <3>1, SetStatusEffect
    <3>3. Counts'
      BY <3>1, <3>2 DEF Counts
    <3>4. Tickets' /\ OneTicket'
      BY <3>1 DEF Tickets, OneTicket, HoldsTicket
    <3>. QED  BY <3>3, <3>4
  <2>3. ReservationsTrue'
    BY <1>19 DEF MarkStale, SetStatus, Markable, ReservationsTrue, ReservationTrue,
       SameDetails
  <2>4. EvidenceTrue' /\ StatusTrue'
    BY <1>19 DEF MarkStale, SetStatus, Markable, EvidenceTrue, StatusTrue,
       Undeliverable, Counts
  <2>5. AnswersMatchLedger'
    BY <1>19 DEF MarkStale, SetStatus, Markable, AnswersMatchLedger, SameDetails
  <2>. QED  BY <2>1, <2>2, <2>3, <2>4, <2>5
<1>20. ASSUME NEW o \in Overviews, OverviewError(o) PROVE Inv'
  <2>1. LocksHeld' /\ OneHolder' /\ StillAbsent'
    BY <1>20 DEF OverviewError, Fault, LocksHeld, OneHolder, StillAbsent
  <2>2. Counts' /\ Tickets' /\ OneTicket'
    BY <1>20 DEF OverviewError, Fault, Counts, Tickets, OneTicket, HoldsTicket,
       StillAbsent
  <2>3. ReservationsTrue'
    BY <1>20 DEF OverviewError, Fault, ReservationsTrue, ReservationTrue, SameDetails
  <2>4. EvidenceTrue' /\ StatusTrue'
    BY <1>20 DEF OverviewError, Fault, EvidenceTrue, StatusTrue, Undeliverable, Counts
  <2>5. AnswersMatchLedger'
    BY <1>20 DEF OverviewError, Fault, AnswersMatchLedger, SameDetails
  <2>. QED  BY <2>1, <2>2, <2>3, <2>4, <2>5
<1>21. ASSUME NEW r \in RequestIds, NEW c \in Characters, WorldDelivers(r, c) PROVE Inv'
  <2>1. LocksHeld' /\ OneHolder' /\ StillAbsent'
    BY <1>21 DEF WorldDelivers, ReplyToWaiting, LocksHeld, OneHolder, StillAbsent
  <2>2. Counts' /\ Tickets' /\ OneTicket'
    <3>1. /\ queued[r] = {name[c]} /\ issued[r] = 1 /\ Len(mails[r]) = 0
          /\ status[r] # "absent"
          /\ queued' = [queued EXCEPT ![r] = {}]
          /\ Len(mails'[r]) = 1
          /\ \A x \in RequestIds \ {r} : mails'[x] = mails[x]
      BY <1>21, DeliveryEffect, OnTheWay
    <3>2. UNCHANGED <<status, pc, call, reservation, verdict, finding, current, issued>>
      BY <1>21 DEF WorldDelivers
    <3>3. queued'[r] = {} /\ \A x \in RequestIds \ {r} : queued'[x] = queued[x]
      BY <3>1
    <3>4. Counts'
      <4>1. issued[r] = 1 /\ queued'[r] = {} /\ Len(mails'[r]) = 1 /\ status[r] # "absent"
        BY <3>1, <3>3
      <4>2. \A x \in RequestIds \ {r} : queued'[x] = queued[x] /\ mails'[x] = mails[x]
        BY <3>1, <3>3
      <4> SUFFICES ASSUME NEW x \in RequestIds
                   PROVE  /\ issued'[x] <= 1
                          /\ \A m, n \in queued'[x] : m = n
                          /\ queued'[x] # {} => issued'[x] = 1 /\ Len(mails'[x]) = 0
                          /\ Len(mails'[x]) <= issued'[x]
                          /\ status'[x] = "absent" => issued'[x] = 0
        BY DEF Counts
      <4>3. CASE x = r
        <5>1. issued'[x] = 1 /\ queued'[x] = {} /\ Len(mails'[x]) = 1 /\ status'[x] # "absent"
          BY <3>2, <4>1, <4>3
        <5>2. issued'[x] <= 1 /\ Len(mails'[x]) <= issued'[x]
          BY <5>1
        <5>. QED  BY <5>1, <5>2
      <4>4. CASE x # r
        BY <3>2, <4>2, <4>4 DEF Counts
      <4>. QED  BY <4>3, <4>4
    <3>5. Tickets' /\ OneTicket'
      BY <3>2 DEF Tickets, OneTicket, HoldsTicket
    <3>. QED  BY <3>4, <3>5
  <2>3. ReservationsTrue'
    BY <1>21 DEF WorldDelivers, ReplyToWaiting, ReservationsTrue, ReservationTrue,
       SameDetails
  <2>4. EvidenceTrue' /\ StatusTrue'
    <3>1. /\ queued[r] = {name[c]} /\ issued[r] = 1 /\ Len(mails[r]) = 0
          /\ status[r] # "absent"
          /\ queued' = [queued EXCEPT ![r] = {}]
          /\ Len(mails'[r]) = 1
          /\ \A x \in RequestIds \ {r} : mails'[x] = mails[x]
      BY <1>21, DeliveryEffect, OnTheWay
    <3>2. UNCHANGED <<status, pc, call, reservation, verdict, finding, current, issued>>
      BY <1>21 DEF WorldDelivers
    <3>3. queued'[r] = {} /\ \A x \in RequestIds \ {r} : queued'[x] = queued[x]
      BY <3>1
    <3>4. \A h \in Handlers :
             reply'[h] # reply[h] =>
                 reply'[h] = "sent" /\ pc[h] = "awaiting" /\ call[h].request = r
      BY <1>21, ReplyEffect DEF WorldDelivers
    <3>5. ASSUME NEW x \in RequestIds
          PROVE  /\ Len(mails[x]) = 1 => Len(mails'[x]) = 1
                 /\ Undeliverable(x) =>
                       issued'[x] = 1 /\ queued'[x] = {} /\ Len(mails'[x]) = 0
      <4>1. CASE x = r
        BY <3>1, <3>2, <3>3, <4>1 DEF Undeliverable
      <4>2. CASE x # r
        <5>1. mails'[x] = mails[x]
          BY <3>1, <4>2
        <5>. QED  BY <3>2, <3>3, <4>2, <5>1 DEF Undeliverable
      <4>. QED  BY <4>1, <4>2
    <3>6. EvidenceTrue'
      BY <3>1, <3>2, <3>3, <3>4, <3>5 DEF EvidenceTrue, Undeliverable
    <3>7. StatusTrue'
      BY <3>2, <3>5 DEF StatusTrue, Undeliverable
    <3>. QED  BY <3>6, <3>7
  <2>5. AnswersMatchLedger'
    BY <1>21 DEF WorldDelivers, ReplyToWaiting, AnswersMatchLedger, SameDetails
  <2>. QED  BY <2>1, <2>2, <2>3, <2>4, <2>5
<1>22. ASSUME NEW r \in RequestIds, NEW n \in Names, WorldRejects(r, n) PROVE Inv'
  <2>1. LocksHeld' /\ OneHolder' /\ StillAbsent'
    BY <1>22 DEF WorldRejects, ReplyToWaiting, LocksHeld, OneHolder, StillAbsent
  <2>2. Counts' /\ Tickets' /\ OneTicket'
    BY <1>22 DEF WorldRejects, ReplyToWaiting, Counts, Tickets, OneTicket,
       HoldsTicket, StillAbsent
  <2>3. ReservationsTrue'
    BY <1>22 DEF WorldRejects, ReplyToWaiting, ReservationsTrue, ReservationTrue,
       SameDetails
  <2>4. EvidenceTrue' /\ StatusTrue'
    <3>1. /\ queued[r] = {n} /\ issued[r] = 1 /\ Len(mails[r]) = 0
          /\ queued' = [queued EXCEPT ![r] = {}] /\ UNCHANGED mails
      BY <1>22, RejectionEffect, OnTheWay DEF WorldRejects
    <3>2. UNCHANGED <<status, pc, call, reservation, verdict, finding, current, issued>>
      BY <1>22 DEF WorldRejects
    <3>3. queued'[r] = {} /\ \A x \in RequestIds \ {r} : queued'[x] = queued[x]
      BY <3>1
    <3>4. \A h \in Handlers :
             reply'[h] # reply[h] =>
                 reply'[h] = "failed" /\ pc[h] = "awaiting" /\ call[h].request = r
      BY <1>22, ReplyEffect DEF WorldRejects
    <3>5. ASSUME NEW x \in RequestIds
          PROVE  /\ Len(mails[x]) = 1 => Len(mails'[x]) = 1
                 /\ Undeliverable(x) =>
                       issued'[x] = 1 /\ queued'[x] = {} /\ Len(mails'[x]) = 0
      <4>1. CASE x = r
        BY <3>1, <3>2, <3>3, <4>1 DEF Undeliverable
      <4>2. CASE x # r
        <5>1. mails'[x] = mails[x]
          BY <3>1, <4>2
        <5>. QED  BY <3>2, <3>3, <4>2, <5>1 DEF Undeliverable
      <4>. QED  BY <4>1, <4>2
    <3>6. EvidenceTrue'
      BY <3>1, <3>2, <3>3, <3>4, <3>5 DEF EvidenceTrue, Undeliverable
    <3>7. StatusTrue'
      BY <3>2, <3>5 DEF StatusTrue, Undeliverable
    <3>. QED  BY <3>6, <3>7
  <2>5. AnswersMatchLedger'
    BY <1>22 DEF WorldRejects, ReplyToWaiting, AnswersMatchLedger, SameDetails
  <2>. QED  BY <2>1, <2>2, <2>3, <2>4, <2>5
<1>23. ASSUME NEW r \in RequestIds, NEW i \in DOMAIN mails[r], PlayerTakesItem(r, i)
      PROVE  Inv'
  <2>1. LocksHeld' /\ OneHolder' /\ StillAbsent'
    BY <1>23 DEF PlayerTakesItem, LocksHeld, OneHolder, StillAbsent
  <2>2. Counts' /\ Tickets' /\ OneTicket'
    <3>1. \A x \in RequestIds : Len(mails'[x]) = Len(mails[x])
      BY <1>23, TakeEffect
    <3>2. UNCHANGED <<status, queued, pc, call, reservation, verdict, reply, finding,
                      current, issued>>
      BY <1>23 DEF PlayerTakesItem
    <3>. QED  BY <3>1, <3>2 DEF Counts, Tickets, OneTicket, HoldsTicket
  <2>3. ReservationsTrue'
    BY <1>23 DEF PlayerTakesItem, ReservationsTrue, ReservationTrue, SameDetails
  <2>4. EvidenceTrue' /\ StatusTrue'
    <3>1. \A x \in RequestIds : Len(mails'[x]) = Len(mails[x])
      BY <1>23, TakeEffect
    <3>2. UNCHANGED <<status, queued, pc, call, reservation, verdict, reply, finding,
                      current, issued>>
      BY <1>23 DEF PlayerTakesItem
    <3>. QED  BY <3>1, <3>2 DEF EvidenceTrue, StatusTrue, Undeliverable
  <2>5. AnswersMatchLedger'
    BY <1>23 DEF PlayerTakesItem, AnswersMatchLedger, SameDetails
  <2>. QED  BY <2>1, <2>2, <2>3, <2>4, <2>5
<1>24. ASSUME NEW r \in RequestIds, RequestGoesStale(r) PROVE Inv'
  <2>1. LocksHeld' /\ OneHolder' /\ StillAbsent'
    BY <1>24 DEF RequestGoesStale, LocksHeld, OneHolder, StillAbsent
  <2>2. Counts' /\ Tickets' /\ OneTicket'
    BY <1>24 DEF RequestGoesStale, Counts, Tickets, OneTicket, HoldsTicket,
       StillAbsent
  <2>3. ReservationsTrue'
    BY <1>24 DEF RequestGoesStale, ReservationsTrue, ReservationTrue, SameDetails
  <2>4. EvidenceTrue' /\ StatusTrue'
    BY <1>24 DEF RequestGoesStale, EvidenceTrue, StatusTrue, Undeliverable, Counts
  <2>5. AnswersMatchLedger'
    BY <1>24 DEF RequestGoesStale, AnswersMatchLedger, SameDetails
  <2>. QED  BY <2>1, <2>2, <2>3, <2>4, <2>5
<1>25. ASSUME NEW c \in Characters, NEW n \in Names, Rename(c, n) PROVE Inv'
  <2>1. LocksHeld' /\ OneHolder' /\ StillAbsent'
    BY <1>25 DEF Rename, LocksHeld, OneHolder, StillAbsent
  <2>2. Counts' /\ Tickets' /\ OneTicket'
    BY <1>25 DEF Rename, Counts, Tickets, OneTicket, HoldsTicket, StillAbsent
  <2>3. ReservationsTrue'
    BY <1>25 DEF Rename, ReservationsTrue, ReservationTrue, SameDetails
  <2>4. EvidenceTrue' /\ StatusTrue'
    BY <1>25 DEF Rename, EvidenceTrue, StatusTrue, Undeliverable, Counts
  <2>5. AnswersMatchLedger'
    BY <1>25 DEF Rename, AnswersMatchLedger, SameDetails
  <2>. QED  BY <2>1, <2>2, <2>3, <2>4, <2>5
<1>26. CASE Crash
  <2>1. LocksHeld' /\ OneHolder' /\ StillAbsent'
    BY <1>26 DEF Crash, Fault, LocksHeld, OneHolder, StillAbsent
  <2>2. Counts' /\ Tickets' /\ OneTicket'
    BY <1>26 DEF Crash, Fault, Counts, Tickets, OneTicket, HoldsTicket, StillAbsent
  <2>3. ReservationsTrue'
    BY <1>26 DEF Crash, Fault, ReservationsTrue, ReservationTrue, SameDetails
  <2>4. EvidenceTrue' /\ StatusTrue'
    BY <1>26 DEF Crash, Fault, EvidenceTrue, StatusTrue, Undeliverable, Counts
  <2>5. AnswersMatchLedger'
    BY <1>26 DEF Crash, Fault, AnswersMatchLedger, SameDetails
  <2>. QED  BY <2>1, <2>2, <2>3, <2>4, <2>5
<1>27. CASE UNCHANGED vars
  <2>1. LocksHeld' /\ OneHolder' /\ StillAbsent'
    BY <1>27 DEF vars, LocksHeld, OneHolder, StillAbsent
  <2>2. Counts' /\ Tickets' /\ OneTicket'
    BY <1>27 DEF vars, Counts, Tickets, OneTicket, HoldsTicket, StillAbsent
  <2>3. ReservationsTrue'
    BY <1>27 DEF vars, ReservationsTrue, ReservationTrue, SameDetails
  <2>4. EvidenceTrue' /\ StatusTrue'
    BY <1>27 DEF vars, EvidenceTrue, StatusTrue, Undeliverable, Counts
  <2>5. AnswersMatchLedger'
    BY <1>27 DEF vars, AnswersMatchLedger, SameDetails
  <2>. QED  BY <2>1, <2>2, <2>3, <2>4, <2>5
<1>. QED
  BY <1>1, <1>2, <1>3, <1>4, <1>5, <1>6, <1>7, <1>8, <1>9, <1>10, <1>11, <1>12, <1>13,
     <1>14, <1>15, <1>16, <1>17, <1>18, <1>19, <1>20, <1>21, <1>22, <1>23, <1>24,
     <1>25, <1>26, <1>27
  DEF Next, HandlerStep

LEMMA SpecInv == Spec => []Inv
BY InitInv, NextTypeInv, NextInv, PTL DEF Spec

\* The variables of the boosts that mail items always have their types.
THEOREM TypeCorrect == Spec => []TypeOK
<1>1. Inv => TypeOK
  BY DEF Inv, TypeInv
<1>. QED
  BY <1>1, SpecInv, PTL

\* At most one "send items" command is ever posted for a request ID, however
\* many calls carry it, retry it or die with it.
THEOREM AtMostOneCommandCorrect == Spec => []AtMostOneCommand
<1>1. Inv => AtMostOneCommand
  BY DEF Inv, Counts, AtMostOneCommand
<1>. QED
  BY <1>1, SpecInv, PTL

\* No caller is told an outcome that the row, or another caller, contradicts.
THEOREM AnswersCorrect == Spec => []AnswersMatchLedger
<1>1. Inv => AnswersMatchLedger
  BY DEF Inv
<1>. QED
  BY <1>1, SpecInv, PTL

-----------------------------------------------------------------------------
(* Renamed characters.                                                     *)

\* As long as nobody was renamed, every name leads to the character of its
\* call and of its row.
NamesTrue ==
    renames = 0 =>
        /\ \A c, d \in Characters : name[c] = name[d] => c = d
        /\ \A h \in Handlers : pc[h] # "idle" => call[h].name = name[call[h].character]
        /\ \A r \in RequestIds : \A n \in queued[r] : n = name[row[r].character]
        /\ NeverRedirected

LEMMA NextNames == Inv /\ NamesTrue /\ [Next]_vars => NamesTrue'
<1> SUFFICES ASSUME Inv, NamesTrue, [Next]_vars, renames' = 0
             PROVE  NamesTrue'
  BY DEF NamesTrue
<1> USE DEF table, calls, views, world
<1>1. /\ renames \in Nat
      /\ \A h \in Handlers : pc[h] # "idle" => call[h] \in Inputs
      /\ call \in [Handlers -> Inputs \cup {NoCall}]
      /\ pc \in [Handlers -> PCs]
      /\ row \in [RequestIds -> Rows \cup {NoRow}]
      /\ mails \in [RequestIds -> Seq(Mails)]
      /\ queued \in [RequestIds -> SUBSET Names]
      /\ name \in [Characters -> Names]
  BY SizeAssumption DEF Inv, TypeInv, TypeOK, CallsKnown
<1>2. CASE \E c \in Characters, n \in Names : Rename(c, n)
  BY <1>1, <1>2 DEF Rename
<1>3. ASSUME NEW h \in Handlers, NEW r \in RequestIds, NEW c \in Characters,
             NEW n \in StackCounts, RequestItem(h, r, c, n)
      PROVE  NamesTrue'
  <2>1. /\ pc' = [pc EXCEPT ![h] = "requestLock"]
        /\ call' = [call EXCEPT ![h] = [request |-> r, character |-> c,
                                        stacks |-> n, name |-> name[c]]]
        /\ UNCHANGED <<row, world>>
    BY <1>3 DEF RequestItem, Goto
  <2>. QED  BY <1>1, <2>1 DEF NamesTrue, NeverRedirected
<1>4. ASSUME NEW h \in Handlers, InsertPending(h) \/ CommitUnacknowledged(h)
      PROVE  NamesTrue'
  <2> DEFINE q == call[h].request
  <2>1. /\ pc[h] = "insert" /\ status[q] = "absent" /\ UNCHANGED world
        /\ \A x \in RequestIds \ {q} : row'[x] = row[x]
        /\ \A g \in Handlers : pc'[g] # "idle" => pc[g] # "idle" /\ call'[g] = call[g]
    BY <1>1, <1>4 DEF InsertPending, CommitUnacknowledged, InsertRow, Return, Goto
  <2>2. q \in RequestIds
    BY <1>1, <2>1 DEF Inputs
  <2>3. issued[q] = 0 /\ queued[q] = {} /\ Len(mails[q]) <= issued[q]
    BY <2>1, <2>2 DEF Inv, Counts
  <2>4. Len(mails[q]) = 0
    BY <1>1, <2>2, <2>3, LenProperties
  <2>5. \A i \in 1 .. Len(mails[q]) : FALSE
    BY <2>4
  <2>. QED  BY <2>1, <2>2, <2>3, <2>5 DEF NamesTrue, NeverRedirected
<1>5. ASSUME NEW h \in Handlers, ExecuteCommand(h)
      PROVE  NamesTrue'
  <2> DEFINE q == call[h].request
  <2>1. /\ pc[h] = "reserved" /\ reservation[h] = "inserted"
        /\ queued' = [queued EXCEPT ![q] = @ \cup {call[h].name}]
        /\ \A g \in Handlers : pc'[g] # "idle" => pc[g] # "idle"
        /\ UNCHANGED <<row, call, name, renames, mails>>
    BY <1>1, <1>5 DEF ExecuteCommand, SendsCommand, Goto
  <2>2. q \in RequestIds
    BY <1>1, <2>1 DEF Inputs
  <2>3. call[h].character = row[q].character
    BY <2>1 DEF Inv, ReservationsTrue, ReservationTrue, SameDetails
  <2>4. call[h].name = name[call[h].character]
    BY <2>1 DEF NamesTrue
  <2>. QED  BY <1>1, <2>1, <2>2, <2>3, <2>4 DEF NamesTrue, NeverRedirected
<1>6. ASSUME NEW r \in RequestIds, NEW c \in Characters, WorldDelivers(r, c)
      PROVE  NamesTrue'
  <2>1. /\ name[c] \in queued[r]
        /\ queued' = [queued EXCEPT ![r] = {}]
        /\ \A x \in RequestIds \ {r} : mails'[x] = mails[x]
        /\ Len(mails'[r]) = 1 /\ mails'[r][1].to = c
    BY <1>6, DeliveryEffect DEF Inv, TypeInv
  <2>2. UNCHANGED <<row, pc, call, name, renames>>
    BY <1>6 DEF WorldDelivers
  <2>3. row[r] \in Rows
    BY <2>1, OnTheWay DEF Inv, TypeInv, RowsKnown
  <2>4. c = row[r].character
    BY <2>1, <2>2, <2>3 DEF NamesTrue, Rows
  <2>5. NeverRedirected'
    BY <2>1, <2>2, <2>4 DEF NamesTrue, NeverRedirected
  <2>. QED  BY <1>1, <2>1, <2>2, <2>5 DEF NamesTrue
<1>7. ASSUME NEW r \in RequestIds, NEW i \in DOMAIN mails[r], PlayerTakesItem(r, i)
      PROVE  NamesTrue'
  <2>1. UNCHANGED <<row, pc, call, name, renames, queued>>
    BY <1>7 DEF PlayerTakesItem
  <2>2. \A x \in RequestIds :
           /\ Len(mails'[x]) = Len(mails[x])
           /\ \A j \in 1 .. Len(mails[x]) : mails'[x][j].to = mails[x][j].to
    BY <1>7, TakeEffect DEF Inv, TypeInv
  <2>3. NeverRedirected'
    BY <2>1, <2>2 DEF NamesTrue, NeverRedirected
  <2>. QED  BY <2>1, <2>3 DEF NamesTrue
<1>8. ASSUME UNCHANGED <<row, name, renames, mails>>,
             \A x \in RequestIds : queued'[x] \subseteq queued[x],
             \A g \in Handlers : pc'[g] # "idle" => pc[g] # "idle" /\ call'[g] = call[g]
      PROVE  NamesTrue'
  BY <1>8 DEF NamesTrue, NeverRedirected
<1>9. ASSUME NEW h \in Handlers,
             \/ AcquireLock(h)
             \/ LockTimeout(h)
             \/ FindExisting(h)
             \/ ReleaseLocks(h)
             \/ HandleReservation(h)
             \/ ReceiveReply(h)
             \/ ReplyUnusable(h)
             \/ InspectMatchingMail(h)
             \/ Mark(h)
             \/ ReleaseFails(h)
             \/ DatabaseError(h)
             \/ MarkUnacknowledged(h)
      PROVE  NamesTrue'
  <2>1. UNCHANGED <<row, world>>
    BY <1>9, Zenon DEF AcquireLock, LockTimeout, FindExisting, ReleaseLocks,
       HandleReservation, ReceiveReply, ReplyUnusable, InspectMatchingMail, Mark,
       ReleaseFails, DatabaseError, MarkUnacknowledged
  <2>2. /\ pc[h] # "idle"
        /\ \/ Return(h)
           \/ (\E l \in PCs : Goto(h, l)) /\ UNCHANGED call
    BY <1>9 DEF AcquireLock, LockTimeout, FindExisting, ReleaseLocks,
       HandleReservation, Refused, ReplayFinal, ReconcileExisting, ReceiveReply,
       ReplyUnusable, InspectMatchingMail, Mark, ReleaseFails, DatabaseError,
       MarkUnacknowledged, PCs
  <2>3. \A g \in Handlers : pc'[g] # "idle" => pc[g] # "idle" /\ call'[g] = call[g]
    BY <1>1, <2>2 DEF Return, Goto
  <2>. QED  BY <1>8, <2>1, <2>3
<1>10. ASSUME NEW o \in Overviews,
              \/ \E a \in Accounts : FindStalePending(o, a)
              \/ \E r \in RequestIds : InspectStaleMail(o, r)
              \/ MarkStale(o)
              \/ OverviewError(o)
       PROVE  NamesTrue'
  <2>1. UNCHANGED <<row, pc, call, world>>
    BY <1>10 DEF FindStalePending, InspectStaleMail, MarkStale, OverviewError
  <2>. QED  BY <1>8, <2>1
<1>11. ASSUME NEW r \in RequestIds,
              (\E n \in Names : WorldRejects(r, n)) \/ RequestGoesStale(r)
       PROVE  NamesTrue'
  <2>1. /\ UNCHANGED <<row, pc, call, name, renames, mails>>
        /\ \A x \in RequestIds : queued'[x] \subseteq queued[x]
    BY <1>1, <1>11 DEF WorldRejects, RequestGoesStale
  <2>. QED  BY <1>8, <2>1
<1>12. CASE Crash \/ UNCHANGED vars
  BY <1>8, <1>12 DEF Crash, vars
<1>. QED
  BY <1>2, <1>3, <1>4, <1>5, <1>6, <1>7, <1>9, <1>10, <1>11, <1>12
  DEF Next, HandlerStep

\* A mail goes to another character than its row says only if characters were
\* renamed: the violation of NeverRedirected needs nothing else.
THEOREM OnlyRenamesRedirect == Spec => [](renames = 0 => NeverRedirected)
<1>1. Init => NamesTrue
  BY EmptySeq DEF Init, NamesTrue, NeverRedirected
<1>2. NamesTrue => (renames = 0 => NeverRedirected)
  BY DEF NamesTrue
<1>. QED
  BY <1>1, <1>2, SpecInv, NextNames, PTL DEF Spec

-----------------------------------------------------------------------------
(* The status column and the mails implement the abstract ledger.          *)

\* What the ledger calls delivered.
Sent == [r \in RequestIds |-> Len(mails[r])]

\* An UPDATE of mark with a true verdict is one step of the ledger.
LEMMA MarkRefines ==
    ASSUME Inv, NEW r \in RequestIds, NEW outcome \in {"sent", "failed", "unknown"},
           SetStatus(r, outcome),
           UNCHANGED mails,
           status[r] # "absent",
           outcome = "sent" => Len(mails[r]) = 1,
           outcome = "failed" => Len(mails[r]) = 0
    PROVE  Ledger!Next \/ UNCHANGED Ledger!vars
<1>1. CASE status[r] \notin {"pending", "unknown"} \/ outcome = status[r]
  <2>1. status' = status
    BY <1>1 DEF SetStatus, Markable, Inv, TypeInv, TypeOK
  <2>. QED  BY <2>1 DEF Ledger!vars
<1>2. CASE status[r] = "pending" /\ outcome = "unknown"
  <2>1. Ledger!Doubt(r)
    BY <1>2 DEF Ledger!Doubt, SetStatus, Markable
  <2>. QED  BY <2>1 DEF Ledger!Next
<1>3. CASE status[r] \in {"pending", "unknown"} /\ outcome = "sent"
  <2>1. Ledger!Confirm(r)
    BY <1>3 DEF Ledger!Confirm, Ledger!Open, SetStatus, Markable
  <2>. QED  BY <2>1 DEF Ledger!Next
<1>4. CASE status[r] \in {"pending", "unknown"} /\ outcome = "failed"
  <2>1. Ledger!Reject(r)
    BY <1>4 DEF Ledger!Reject, Ledger!Open, SetStatus, Markable
  <2>. QED  BY <2>1 DEF Ledger!Next
<1>. QED
  BY <1>1, <1>2, <1>3, <1>4

LEMMA StepRefines == Inv /\ [Next]_vars => [Ledger!Next]_(Ledger!vars)
<1> SUFFICES ASSUME Inv, [Next]_vars
             PROVE  Ledger!Next \/ UNCHANGED Ledger!vars
  OBVIOUS
<1> USE DEF table, calls, views, world
<1>1. ASSUME NEW h \in Handlers, InsertPending(h) \/ CommitUnacknowledged(h)
      PROVE  Ledger!Next
  <2>1. InsertRow(h) /\ UNCHANGED mails /\ pc[h] = "insert"
    BY <1>1 DEF InsertPending, CommitUnacknowledged, InsertRow
  <2>2. call[h].request \in RequestIds
    BY <2>1 DEF Inv, TypeInv, CallsKnown, Inputs
  <2>3. Ledger!Enter(call[h].request)
    BY <2>1 DEF Ledger!Enter, InsertRow
  <2>. QED  BY <2>2, <2>3 DEF Ledger!Next
<1>2. ASSUME NEW h \in Handlers, Mark(h) \/ MarkUnacknowledged(h)
      PROVE  Ledger!Next \/ UNCHANGED Ledger!vars
  <2>1. pc[h] = "mark" /\ SetStatus(call[h].request, verdict[h]) /\ UNCHANGED mails
    BY <1>2 DEF Mark, MarkUnacknowledged
  <2>. QED
    BY <2>1, VerdictTrue, MarkRefines DEF Undeliverable
<1>3. ASSUME NEW o \in Overviews, MarkStale(o)
      PROVE  Ledger!Next \/ UNCHANGED Ledger!vars
  <2>1. /\ current[o] # NoRequest
        /\ SetStatus(current[o], finding[o])
        /\ UNCHANGED mails
    BY <1>3 DEF MarkStale
  <2>2. current[o] \in RequestIds /\ finding[o] \in {"sent", "unknown"}
    BY <2>1 DEF Inv, TypeInv, TypeOK, ViewsKnown
  <2>3. finding[o] = "sent" => Len(mails[current[o]]) = 1
    BY DEF Inv, EvidenceTrue
  <2>4. CASE status[current[o]] = "absent"
    <3>1. status' = status
      BY <2>1, <2>2, <2>4 DEF SetStatus, Markable, Inv, TypeInv, TypeOK
    <3>. QED  BY <2>1, <3>1 DEF Ledger!vars
  <2>. QED
    BY <2>1, <2>2, <2>3, <2>4, MarkRefines
<1>4. ASSUME NEW r \in RequestIds, NEW c \in Characters, WorldDelivers(r, c)
      PROVE  Ledger!Next
  <2>1. /\ name[c] \in queued[r]
        /\ Len(mails'[r]) = 1
        /\ \A x \in RequestIds \ {r} : mails'[x] = mails[x]
    BY <1>4, DeliveryEffect DEF Inv, TypeInv
  <2>2. queued[r] # {} /\ Len(mails[r]) = 0 /\ status[r] # "absent"
    BY <2>1, OnTheWay DEF Inv
  <2>3. status[r] \in {"pending", "unknown"}
    <3>1. status[r] \in Statuses
      BY DEF Inv, TypeInv, TypeOK
    <3>2. (status[r] = "sent" => Len(mails[r]) = 1) /\ (status[r] = "failed" => queued[r] = {})
      BY DEF Inv, StatusTrue, Undeliverable
    <3>. QED  BY <2>2, <3>1, <3>2 DEF Statuses
  <2>4. Sent' = [Sent EXCEPT ![r] = 1] /\ Sent[r] = 0
    BY <2>1, <2>2 DEF Sent
  <2>5. UNCHANGED status
    BY <1>4 DEF WorldDelivers
  <2>6. Ledger!Deliver(r)
    BY <2>3, <2>4, <2>5 DEF Ledger!Deliver, Ledger!Open, Sent
  <2>. QED  BY <2>6 DEF Ledger!Next
<1>5. ASSUME NEW r \in RequestIds, NEW i \in DOMAIN mails[r], PlayerTakesItem(r, i)
      PROVE  UNCHANGED Ledger!vars
  <2>1. \A x \in RequestIds : Len(mails'[x]) = Len(mails[x])
    BY <1>5, TakeEffect DEF Inv, TypeInv
  <2>2. UNCHANGED status
    BY <1>5 DEF PlayerTakesItem
  <2>. QED  BY <2>1, <2>2 DEF Ledger!vars
<1>6. ASSUME NEW h \in Handlers,
             \/ \E r \in RequestIds, c \in Characters, n \in StackCounts :
                   RequestItem(h, r, c, n)
             \/ AcquireLock(h)
             \/ LockTimeout(h)
             \/ FindExisting(h)
             \/ ReleaseLocks(h)
             \/ HandleReservation(h)
             \/ ExecuteCommand(h)
             \/ ReceiveReply(h)
             \/ ReplyUnusable(h)
             \/ InspectMatchingMail(h)
             \/ ReleaseFails(h)
             \/ DatabaseError(h)
      PROVE  UNCHANGED <<status, mails>>
  BY <1>6, Zenon DEF RequestItem, AcquireLock, LockTimeout, FindExisting, ReleaseLocks,
     HandleReservation, ExecuteCommand, ReceiveReply, ReplyUnusable,
     InspectMatchingMail, ReleaseFails, DatabaseError
<1>7. ASSUME NEW o \in Overviews,
             \/ \E a \in Accounts : FindStalePending(o, a)
             \/ \E r \in RequestIds : InspectStaleMail(o, r)
             \/ OverviewError(o)
      PROVE  UNCHANGED <<status, mails>>
  BY <1>7 DEF FindStalePending, InspectStaleMail, OverviewError
<1>8. ASSUME NEW r \in RequestIds,
             (\E n \in Names : WorldRejects(r, n)) \/ RequestGoesStale(r)
      PROVE  UNCHANGED <<status, mails>>
  BY <1>8 DEF WorldRejects, RequestGoesStale
<1>9. ASSUME \/ \E c \in Characters, n \in Names : Rename(c, n)
             \/ Crash
             \/ UNCHANGED vars
      PROVE  UNCHANGED <<status, mails>>
  BY <1>9 DEF Rename, Crash, vars
<1>. QED
  BY <1>1, <1>2, <1>3, <1>4, <1>5, <1>6, <1>7, <1>8, <1>9
  DEF Next, HandlerStep, Ledger!vars

\* The status column and the mails sent behave as the abstract ledger allows:
\* entered before anything is mailed, mailed once at most, final when "sent" or
\* "failed".
THEOREM LedgerRefined == Spec => LedgerSpec
<1>1. Init => Ledger!Init
  BY DEF Init, Ledger!Init
<1>. QED
  BY <1>1, SpecInv, StepRefines, PTL DEF Spec, LedgerSpec, Ledger!Spec

=============================================================================
