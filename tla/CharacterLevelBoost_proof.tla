---------------------- MODULE CharacterLevelBoost_proof ----------------------
(* Theorems about CharacterLevelBoost, for every value of its constants. *)
EXTENDS CharacterLevelBoost, FiniteSetTheorems, TLAPS

-----------------------------------------------------------------------------
(* Type correctness.                                                       *)

\* Only a slot that is idle or looks for stale rows has no input, and a call
\* marks only what it found out.
CallsKnown ==
    \A h \in Handlers :
        /\ pc[h] \notin {"idle", "stale"} => call[h] \in Calls
        /\ pc[h] = "mark" => verdict[h] # "none"

\* There is a row behind every status, every row still to be settled, every
\* call about to post its command and every command on its way.
RowsKnown ==
    /\ \A r \in RequestIds :
          /\ status[r] # "absent" => row[r] \in Rows
          /\ posted[r] + unsaved[r] > 0 => status[r] # "absent"
    /\ \A h \in Handlers :
          /\ \A r \in batch[h] : status[r] # "absent"
          /\ pc[h] = "command" => status[call[h].request] # "absent"

TypeInv == TypeOK /\ CallsKnown /\ RowsKnown

LEMMA InitTypeInv == Init => TypeInv
  BY LimitAssumption, ModeAssumption, NullAssumption
  DEF Init, TypeInv, TypeOK, CallsKnown, RowsKnown, Statuses, Verdicts, PCs,
      Levels, Calls, Rows

\* A queue that grows below its limit, or gives up its head, stays a queue.
LEMMA QueueType ==
    ASSUME NEW h \in Handlers, queue \in Seq(Handlers), Len(queue) <= QueueLimit,
           \/ Connects(h)
           \/ Len(queue) < QueueLimit /\ queue' = Append(queue, h)
           \/ UNCHANGED queue
           \/ queue' = <<>>
    PROVE  queue' \in Seq(Handlers) /\ Len(queue') <= QueueLimit
<1>1. Len(queue) \in Nat /\ QueueLimit \in Nat
  BY LimitAssumption
<1>2. CASE queue # <<>> /\ queue' = Tail(queue)
  <2>1. queue' \in Seq(Handlers) /\ Len(queue') = Len(queue) - 1
    BY <1>2
  <2> QED
    BY <1>1, <2>1
<1>3. CASE Len(queue) < QueueLimit /\ queue' = Append(queue, h)
  <2>1. queue' \in Seq(Handlers) /\ Len(queue') = Len(queue) + 1
    BY <1>3
  <2> QED
    BY <1>1, <1>3, <2>1
<1>4. CASE queue' = queue
  BY <1>4
<1>5. CASE queue' = <<>>
  BY <1>1, <1>5
<1> QED
  BY <1>2, <1>3, <1>4, <1>5 DEF Connects

LEMMA LockType ==
    ASSUME NEW h \in Handlers, NEW S, NEW lock \in [S -> SUBSET Holders], NEW n \in S
    PROVE  /\ Released(lock, n, h) \in [S -> SUBSET Holders]
           /\ Kept(lock, n, h) \in [S -> SUBSET Holders]
           /\ [lock EXCEPT ![n] = @ \cup {h}] \in [S -> SUBSET Holders]
<1>1. /\ lock[n] \ {h} \in SUBSET Holders
      /\ (lock[n] \ {h}) \cup {IdleConnection} \in SUBSET Holders
      /\ lock[n] \cup {h} \in SUBSET Holders
  BY DEF Holders
<1> HIDE DEF Holders
<1> QED
  BY <1>1 DEF Released, Kept

\* The calls part of the type invariant, and the rest of TypeOK.
CallTypes ==
    /\ pc \in [Handlers -> PCs]
    /\ call \in [Handlers -> Calls \cup {NoCall}]
    /\ batch \in [Handlers -> SUBSET RequestIds]
    /\ seen \in [Handlers -> Levels \cup {0}]
    /\ verdict \in [Handlers -> Verdicts]
    /\ reply \in [Handlers -> {"none", "accepted", "failed"}]
    /\ CallsKnown

StoreTypes ==
    /\ status \in [RequestIds -> Statuses]
    /\ row \in [RequestIds -> Rows \cup {NoRow}]
    /\ stale \in SUBSET RequestIds
    /\ level \in [Characters -> Levels]
    /\ posted \in [RequestIds -> Nat]
    /\ unsaved \in [RequestIds -> Nat]
    /\ issued \in [RequestIds -> Nat]
    /\ reached \in SUBSET RequestIds
    /\ changed \in SUBSET RequestIds
    /\ answered \in [RequestIds -> SUBSET Answers]
    /\ cut \in SUBSET Characters
    /\ faults \in 0 .. MaxFaults

LockTypes ==
    /\ characterLock \in [Characters -> SUBSET Holders]
    /\ requestLock \in [RequestIds -> SUBSET Holders]

QueueTypes == queue \in Seq(Handlers) /\ Len(queue) <= QueueLimit

LEMMA TypeParts ==
    TypeInv <=> CallTypes /\ StoreTypes /\ LockTypes /\ QueueTypes /\ RowsKnown
  BY DEF TypeInv, TypeOK, CallTypes, StoreTypes, LockTypes, QueueTypes

LEMMA Labels ==
    PCs = {"idle", "connect", "stale", "character", "find", "reserve",
           "confirm", "mark", "characterLock", "command", "awaiting",
           "unlock", "requestLock", "insert"}
  BY DEF PCs, AsksWithNone, AsksWithOne, HoldsOne, HoldsTwo

LEMMA CallFields ==
    \A c \in Calls : /\ c.request \in RequestIds
                     /\ c.character \in Characters
                     /\ c.target \in Targets
  BY DEF Calls, Requests, Settlements

LEMMA RowFields ==
    \A w \in Rows : w.character \in Characters /\ w.target \in Targets
  BY DEF Rows

\* How a call ends, fails, or goes on with the next stale row.
LEMMA ReturnTypes ==
    ASSUME CallTypes, NEW h \in Handlers, Return(h)
    PROVE  /\ CallTypes'
           /\ \A g \in Handlers :
                 /\ batch'[g] \subseteq batch[g]
                 /\ pc'[g] = "command" => pc[g] = "command" /\ call'[g] = call[g]
  BY Labels DEF CallTypes, CallsKnown, Return, Goto, Verdicts

LEMMA ThrowTypes ==
    ASSUME CallTypes, NEW h \in Handlers, pc[h] # "idle", Throw(h)
    PROVE  /\ CallTypes'
           /\ \A g \in Handlers :
                 /\ batch'[g] \subseteq batch[g]
                 /\ pc'[g] = "command" => pc[g] = "command" /\ call'[g] = call[g]
<1>1. CASE pc[h] \in AsksWithNone
  BY <1>1, ReturnTypes DEF Throw
<1>2. CASE pc[h] \notin AsksWithNone
  <2>1. /\ pc' = [pc EXCEPT ![h] = "unlock"]
        /\ batch' = [batch EXCEPT ![h] = {}]
        /\ UNCHANGED <<call, seen, verdict, reply>>
        /\ pc[h] \notin {"idle", "stale"}
    BY <1>2 DEF Throw, Goto, AsksWithNone
  <2> QED
    BY <2>1, Labels DEF CallTypes, CallsKnown
<1> QED
  BY <1>1, <1>2

LEMMA ProceedTypes ==
    ASSUME CallTypes, StoreTypes, RowsKnown, NEW h \in Handlers,
           NEW rows \in SUBSET RequestIds, \A r \in rows : status[r] # "absent",
           Proceed(h, rows)
    PROVE  /\ CallTypes'
           /\ \A g \in Handlers :
                 /\ batch'[g] \subseteq batch[g] \cup rows
                 /\ pc'[g] = "command" => pc[g] = "command" /\ call'[g] = call[g]
<1>1. CASE Return(h)
  BY <1>1, ReturnTypes
<1>2. ASSUME NEW r \in rows,
             batch' = [batch EXCEPT ![h] = rows \ {r}],
             call' = [call EXCEPT ![h] = [kind |-> "settle", request |-> r,
                          character |-> row[r].character,
                          target |-> row[r].target]],
             Goto(h, "connect"),
             seen' = [seen EXCEPT ![h] = 0],
             verdict' = [verdict EXCEPT ![h] = "none"],
             reply' = [reply EXCEPT ![h] = "none"]
      PROVE  /\ CallTypes'
             /\ \A g \in Handlers :
                   /\ batch'[g] \subseteq batch[g] \cup rows
                   /\ pc'[g] = "command" => pc[g] = "command" /\ call'[g] = call[g]
  <2>1. row[r] \in Rows
    BY DEF RowsKnown
  <2>2. [kind |-> "settle", request |-> r, character |-> row[r].character,
         target |-> row[r].target] \in Calls
    BY <2>1 DEF Rows, Calls, Settlements
  <2> HIDE DEF Calls
  <2> QED
    BY <1>2, <2>2, Labels DEF CallTypes, CallsKnown, Goto, Verdicts
<1> QED
  BY <1>1, <1>2 DEF Proceed

\* Every step keeps the variables in their types, whoever holds the locks.
LEMMA NextTypeInv == TypeInv /\ [Next]_vars => TypeInv'
<1> SUFFICES ASSUME CallTypes, StoreTypes, LockTypes, QueueTypes, RowsKnown,
                    [Next]_vars
             PROVE  CallTypes' /\ StoreTypes' /\ LockTypes' /\ QueueTypes' /\ RowsKnown'
  BY TypeParts, PTL
<1> USE CallFields
    DEF table, locks, calls, world, history
<1>1. ASSUME NEW h \in Handlers, NEW c \in Requests, RequestCharacterLevel(h, c)
      PROVE  CallTypes' /\ StoreTypes' /\ LockTypes' /\ QueueTypes' /\ RowsKnown'
  <2>0. c \in Calls
    BY DEF Calls
  <2>1. CallTypes'
    BY <1>1, <2>0, Labels DEF RequestCharacterLevel, Goto, CallTypes,
       CallsKnown
  <2>2. RowsKnown'
    BY <1>1 DEF RequestCharacterLevel, Goto, CallTypes, RowsKnown
  <2>3. StoreTypes' /\ LockTypes' /\ QueueTypes'
    BY <1>1 DEF RequestCharacterLevel, StoreTypes, LockTypes, QueueTypes
  <2> QED
    BY <2>1, <2>2, <2>3
<1>2. ASSUME NEW h \in Handlers, GetMetadata(h)
      PROVE  CallTypes' /\ StoreTypes' /\ LockTypes' /\ QueueTypes' /\ RowsKnown'
  <2>1. CallTypes'
    BY <1>2, Labels DEF GetMetadata, Goto, CallTypes, CallsKnown
  <2>2. RowsKnown'
    BY <1>2 DEF GetMetadata, Goto, CallTypes, RowsKnown
  <2>3. StoreTypes' /\ LockTypes' /\ QueueTypes'
    BY <1>2 DEF GetMetadata, StoreTypes, LockTypes, QueueTypes
  <2> QED
    BY <2>1, <2>2, <2>3
<1>3. ASSUME NEW h \in Handlers, QueueForConnection(h)
      PROVE  CallTypes' /\ StoreTypes' /\ LockTypes' /\ QueueTypes' /\ RowsKnown'
  <2>1. QueueTypes'
    BY <1>3, QueueType DEF QueueForConnection, QueueTypes
  <2>2. CallTypes' /\ StoreTypes' /\ LockTypes' /\ RowsKnown'
    BY <1>3 DEF QueueForConnection, CallTypes, CallsKnown, StoreTypes,
       LockTypes, RowsKnown
  <2> QED
    BY <2>1, <2>2
<1>4. ASSUME NEW h \in Handlers, FindStalePending(h)
      PROVE  CallTypes' /\ StoreTypes' /\ LockTypes' /\ QueueTypes' /\ RowsKnown'
  <2>1. PICK rows \in SUBSET {r \in RequestIds : IsStalePending(r)} :
            Proceed(h, rows)
    BY <1>4 DEF FindStalePending
  <2>2. rows \in SUBSET RequestIds /\ \A r \in rows : status[r] # "absent"
    BY DEF IsStalePending
  <2>3. /\ CallTypes'
        /\ \A g \in Handlers :
              /\ batch'[g] \subseteq batch[g] \cup rows
              /\ pc'[g] = "command" => pc[g] = "command" /\ call'[g] = call[g]
    BY <2>1, <2>2, ProceedTypes
  <2>4. RowsKnown'
    BY <1>4, <2>2, <2>3 DEF FindStalePending, RowsKnown
  <2>5. QueueTypes'
    BY <1>4, QueueType DEF FindStalePending, QueueTypes
  <2>6. StoreTypes' /\ LockTypes'
    BY <1>4 DEF FindStalePending, StoreTypes, LockTypes
  <2> QED
    BY <2>3, <2>4, <2>5, <2>6
<1>5. ASSUME NEW h \in Handlers, Connect(h)
      PROVE  CallTypes' /\ StoreTypes' /\ LockTypes' /\ QueueTypes' /\ RowsKnown'
  <2>1. CallTypes'
    BY <1>5, Labels DEF Connect, Goto, CallTypes, CallsKnown
  <2>2. QueueTypes'
    BY <1>5, QueueType DEF Connect, QueueTypes
  <2>3. RowsKnown'
    BY <1>5 DEF Connect, Goto, CallTypes, RowsKnown
  <2>4. StoreTypes' /\ LockTypes'
    BY <1>5 DEF Connect, StoreTypes, LockTypes
  <2> QED
    BY <2>1, <2>2, <2>3, <2>4
<1>6. ASSUME NEW h \in Handlers, AcquireCharacterLock(h)
      PROVE  CallTypes' /\ StoreTypes' /\ LockTypes' /\ QueueTypes' /\ RowsKnown'
  <2>0. call[h] \in Calls
    BY <1>6 DEF AcquireCharacterLock, CallTypes, CallsKnown
  <2>1. CallTypes'
    BY <1>6, Labels DEF AcquireCharacterLock, Goto, CallTypes, CallsKnown
  <2>2. LockTypes'
    BY <1>6, <2>0, LockType DEF AcquireCharacterLock, LockTypes
  <2>3. RowsKnown'
    BY <1>6 DEF AcquireCharacterLock, Goto, CallTypes, RowsKnown
  <2>4. StoreTypes' /\ QueueTypes'
    BY <1>6 DEF AcquireCharacterLock, StoreTypes, QueueTypes
  <2> QED
    BY <2>1, <2>2, <2>3, <2>4
<1>7. ASSUME NEW h \in Handlers, LockTimeout(h)
      PROVE  CallTypes' /\ StoreTypes' /\ LockTypes' /\ QueueTypes' /\ RowsKnown'
  <2>1. /\ CallTypes'
        /\ \A g \in Handlers :
              /\ batch'[g] \subseteq batch[g]
              /\ pc'[g] = "command" => pc[g] = "command" /\ call'[g] = call[g]
    BY <1>7, ThrowTypes DEF LockTimeout
  <2>2. RowsKnown'
    BY <1>7, <2>1 DEF LockTimeout, RowsKnown
  <2>3. StoreTypes' /\ LockTypes' /\ QueueTypes'
    BY <1>7 DEF LockTimeout, StoreTypes, LockTypes, QueueTypes
  <2> QED
    BY <2>1, <2>2, <2>3
<1>8. ASSUME NEW h \in Handlers, Unlock(h)
      PROVE  CallTypes' /\ StoreTypes' /\ LockTypes' /\ QueueTypes' /\ RowsKnown'
  <2>0. call[h] \in Calls
    BY <1>8 DEF Unlock, CallTypes, CallsKnown
  <2>1. /\ CallTypes'
        /\ \A g \in Handlers :
              /\ batch'[g] \subseteq batch[g] \cup batch[h]
              /\ pc'[g] = "command" => pc[g] = "command" /\ call'[g] = call[g]
    BY <1>8, ProceedTypes DEF Unlock, CallTypes, RowsKnown
  <2>2. RowsKnown'
    BY <1>8, <2>1 DEF Unlock, RowsKnown
  <2>3. LockTypes'
    BY <1>8, <2>0, LockType DEF Unlock, LockTypes
  <2>4. StoreTypes' /\ QueueTypes'
    BY <1>8 DEF Unlock, StoreTypes, QueueTypes
  <2> QED
    BY <2>1, <2>2, <2>3, <2>4
<1>9. ASSUME NEW h \in Handlers, ReadCharacter(h)
      PROVE  CallTypes' /\ StoreTypes' /\ LockTypes' /\ QueueTypes' /\ RowsKnown'
  <2>0. call[h] \in Calls
    BY <1>9 DEF ReadCharacter, CallTypes, CallsKnown
  <2>1. CallTypes'
    BY <1>9, <2>0, Labels DEF ReadCharacter, Goto, CallTypes, CallsKnown,
       StoreTypes
  <2>2. QueueTypes'
    BY <1>9, QueueType DEF ReadCharacter, QueueTypes
  <2>3. RowsKnown'
    BY <1>9 DEF ReadCharacter, Goto, CallTypes, RowsKnown
  <2>4. StoreTypes' /\ LockTypes'
    BY <1>9 DEF ReadCharacter, StoreTypes, LockTypes
  <2> QED
    BY <2>1, <2>2, <2>3, <2>4
<1>10. ASSUME NEW h \in Handlers, Find(h)
      PROVE  CallTypes' /\ StoreTypes' /\ LockTypes' /\ QueueTypes' /\ RowsKnown'
  <2>0. call[h] \in Calls
    BY <1>10 DEF Find, CallTypes, CallsKnown
  <2>1. /\ pc[h] \notin {"idle", "stale"}
        /\ \E l \in {"confirm", "reserve", "unlock"} : pc' = [pc EXCEPT ![h] = l]
        /\ UNCHANGED <<call, batch, seen, verdict, reply, table, world>>
    BY <1>10 DEF Find, HandleExisting, ResumesAt, Leave, Goto
  <2>2. CallTypes'
    BY <2>0, <2>1, Labels DEF CallTypes, CallsKnown
  <2>3. StoreTypes'
    BY <1>10, <2>0 DEF Find, HandleExisting, Answer, Answers, StoreTypes
  <2>4. RowsKnown'
    BY <2>1 DEF CallTypes, RowsKnown
  <2>5. QueueTypes'
    BY <1>10, QueueType DEF Find, QueueTypes
  <2>6. LockTypes'
    BY <1>10 DEF Find, LockTypes
  <2> QED
    BY <2>2, <2>3, <2>4, <2>5, <2>6
<1>11. ASSUME NEW h \in Handlers, Reserve(h)
      PROVE  CallTypes' /\ StoreTypes' /\ LockTypes' /\ QueueTypes' /\ RowsKnown'
  <2>1. CallTypes'
    BY <1>11, Labels DEF Reserve, Goto, CallTypes, CallsKnown
  <2>2. QueueTypes'
    BY <1>11, QueueType DEF Reserve, QueueTypes
  <2>3. RowsKnown'
    BY <1>11 DEF Reserve, Goto, CallTypes, RowsKnown
  <2>4. StoreTypes' /\ LockTypes'
    BY <1>11 DEF Reserve, StoreTypes, LockTypes
  <2> QED
    BY <2>1, <2>2, <2>3, <2>4
<1>12. ASSUME NEW h \in Handlers, AcquireRequestLock(h)
      PROVE  CallTypes' /\ StoreTypes' /\ LockTypes' /\ QueueTypes' /\ RowsKnown'
  <2>0. call[h] \in Calls
    BY <1>12 DEF AcquireRequestLock, CallTypes, CallsKnown
  <2>1. CallTypes'
    BY <1>12, Labels DEF AcquireRequestLock, Goto, CallTypes, CallsKnown
  <2>2. LockTypes'
    BY <1>12, <2>0, LockType DEF AcquireRequestLock, LockTypes
  <2>3. RowsKnown'
    BY <1>12 DEF AcquireRequestLock, Goto, CallTypes, RowsKnown
  <2>4. StoreTypes' /\ QueueTypes'
    BY <1>12 DEF AcquireRequestLock, StoreTypes, QueueTypes
  <2> QED
    BY <2>1, <2>2, <2>3, <2>4
<1>13. ASSUME NEW h \in Handlers, InsertPending(h)
      PROVE  CallTypes' /\ StoreTypes' /\ LockTypes' /\ QueueTypes' /\ RowsKnown'
  <2>0. call[h] \in Calls
    BY <1>13 DEF InsertPending, InsertRow, CallTypes, CallsKnown
  <2>1. CallTypes'
    BY <1>13, Labels DEF InsertPending, Goto, InsertRow, CallTypes, CallsKnown
  <2>2. StoreTypes'
    <3>1. [character |-> call[h].character, target |-> call[h].target] \in Rows
      BY <2>0 DEF Rows
    <3>2. "pending" \in Statuses
      BY DEF Statuses
    <3> QED
      BY <1>13, <2>0, <3>1, <3>2
      DEF InsertPending, InsertRow, StoreTypes
  <2>3. LockTypes'
    BY <1>13, <2>0, LockType DEF InsertPending, LockTypes
  <2>4. RowsKnown'
    <3>1. [character |-> call[h].character, target |-> call[h].target] \in Rows
      BY <2>0 DEF Rows
    <3> QED
      BY <1>13, <2>0, <2>1, <3>1
      DEF InsertPending, InsertRow, Goto, CallTypes, StoreTypes,
         RowsKnown
  <2>5. QueueTypes'
    BY <1>13 DEF InsertPending, QueueTypes
  <2> QED
    BY <2>1, <2>2, <2>3, <2>4, <2>5
<1>14. ASSUME NEW h \in Handlers, FindsRow(h)
      PROVE  CallTypes' /\ StoreTypes' /\ LockTypes' /\ QueueTypes' /\ RowsKnown'
  <2>0. call[h] \in Calls
    BY <1>14 DEF FindsRow, CallTypes, CallsKnown
  <2>1. /\ pc[h] \notin {"idle", "stale"}
        /\ \E l \in {"confirm", "reserve", "unlock"} : pc' = [pc EXCEPT ![h] = l]
        /\ UNCHANGED <<call, batch, seen, verdict, reply, table, world>>
    BY <1>14 DEF FindsRow, HandleExisting, ResumesAt, Leave, Goto
  <2>2. CallTypes'
    BY <2>0, <2>1, Labels DEF CallTypes, CallsKnown
  <2>3. StoreTypes'
    BY <1>14, <2>0 DEF FindsRow, HandleExisting, Answer, Answers, StoreTypes
  <2>4. RowsKnown'
    BY <2>1 DEF CallTypes, RowsKnown
  <2>5. LockTypes'
    BY <1>14, <2>0, LockType DEF FindsRow, LockTypes
  <2>6. QueueTypes'
    BY <1>14 DEF FindsRow, QueueTypes
  <2> QED
    BY <2>2, <2>3, <2>4, <2>5, <2>6
<1>15. ASSUME NEW h \in Handlers, ExecuteCommand(h)
      PROVE  CallTypes' /\ StoreTypes' /\ LockTypes' /\ QueueTypes' /\ RowsKnown'
  <2>0. call[h] \in Calls
    BY <1>15 DEF ExecuteCommand, CallTypes, CallsKnown
  <2>1. CallTypes'
    BY <1>15, Labels DEF ExecuteCommand, Goto, CallTypes, CallsKnown
  <2>2. StoreTypes'
    BY <1>15, <2>0 DEF ExecuteCommand, StoreTypes
  <2>3. RowsKnown'
    BY <1>15, <2>0 DEF ExecuteCommand, Goto, CallTypes, StoreTypes, RowsKnown
  <2>4. LockTypes' /\ QueueTypes'
    BY <1>15 DEF ExecuteCommand, LockTypes, QueueTypes
  <2> QED
    BY <2>1, <2>2, <2>3, <2>4
<1>16. ASSUME NEW h \in Handlers, ReceiveReply(h)
      PROVE  CallTypes' /\ StoreTypes' /\ LockTypes' /\ QueueTypes' /\ RowsKnown'
  <2>1. CallTypes'
    BY <1>16, Labels DEF ReceiveReply, Goto, Verdicts, CallTypes, CallsKnown
  <2>2. RowsKnown'
    BY <1>16 DEF ReceiveReply, Goto, CallTypes, RowsKnown
  <2>3. StoreTypes' /\ LockTypes' /\ QueueTypes'
    BY <1>16 DEF ReceiveReply, StoreTypes, LockTypes, QueueTypes
  <2> QED
    BY <2>1, <2>2, <2>3
<1>17. ASSUME NEW h \in Handlers, ReplyUnusable(h)
      PROVE  CallTypes' /\ StoreTypes' /\ LockTypes' /\ QueueTypes' /\ RowsKnown'
  <2>1. CallTypes'
    BY <1>17, Labels DEF ReplyUnusable, Goto, CallTypes, CallsKnown
  <2>2. RowsKnown'
    BY <1>17 DEF ReplyUnusable, Goto, CallTypes, RowsKnown
  <2>3. StoreTypes' /\ LockTypes' /\ QueueTypes'
    BY <1>17 DEF ReplyUnusable, StoreTypes, LockTypes, QueueTypes
  <2> QED
    BY <2>1, <2>2, <2>3
<1>18. ASSUME NEW h \in Handlers, ConfirmLevel(h)
      PROVE  CallTypes' /\ StoreTypes' /\ LockTypes' /\ QueueTypes' /\ RowsKnown'
  <2>1. CallTypes'
    BY <1>18, Labels DEF ConfirmLevel, Goto, VerdictOf, Verdicts, CallTypes,
       CallsKnown
  <2>2. QueueTypes'
    BY <1>18, QueueType DEF ConfirmLevel, QueueTypes
  <2>3. RowsKnown'
    BY <1>18 DEF ConfirmLevel, Goto, CallTypes, RowsKnown
  <2>4. StoreTypes' /\ LockTypes'
    BY <1>18 DEF ConfirmLevel, StoreTypes, LockTypes
  <2> QED
    BY <2>1, <2>2, <2>3, <2>4
<1>19. ASSUME NEW h \in Handlers, ReadStaleLevel(h)
      PROVE  CallTypes' /\ StoreTypes' /\ LockTypes' /\ QueueTypes' /\ RowsKnown'
  <2>1. CallTypes'
    BY <1>19, Labels DEF ReadStaleLevel, Goto, VerdictOf, Verdicts, CallTypes,
       CallsKnown
  <2>2. QueueTypes'
    BY <1>19, QueueType DEF ReadStaleLevel, QueueTypes
  <2>3. RowsKnown'
    BY <1>19 DEF ReadStaleLevel, Goto, CallTypes, RowsKnown
  <2>4. StoreTypes' /\ LockTypes'
    BY <1>19 DEF ReadStaleLevel, StoreTypes, LockTypes
  <2> QED
    BY <2>1, <2>2, <2>3, <2>4
<1>20. ASSUME NEW h \in Handlers, Mark(h)
      PROVE  CallTypes' /\ StoreTypes' /\ LockTypes' /\ QueueTypes' /\ RowsKnown'
  <2>0. call[h] \in Calls
    BY <1>20 DEF Mark, CallTypes, CallsKnown
  <2>1. CallTypes'
    BY <1>20, Labels DEF Mark, Goto, Leave, CallTypes, CallsKnown
  <2>2. /\ status' \in [RequestIds -> Statuses]
        /\ \A r \in RequestIds : status[r] # "absent" <=> status'[r] # "absent"
    BY <1>20, <2>0 DEF Mark, SetStatus, Markable, CallTypes, CallsKnown,
       StoreTypes, Statuses, Verdicts
  <2>3. StoreTypes'
    BY <1>20, <2>0, <2>2 DEF Mark, Answer, Answers, CallTypes, CallsKnown,
       StoreTypes, Verdicts
  <2>4. QueueTypes'
    BY <1>20, QueueType DEF Mark, QueueTypes
  <2>5. RowsKnown'
    BY <1>20, <2>2 DEF Mark, Leave, Goto, CallTypes, CallsKnown, StoreTypes,
       RowsKnown
  <2>6. LockTypes'
    BY <1>20 DEF Mark, LockTypes
  <2> QED
    BY <2>1, <2>3, <2>4, <2>5, <2>6
<1>21. ASSUME NEW h \in Handlers, StatementFails(h)
      PROVE  CallTypes' /\ StoreTypes' /\ LockTypes' /\ QueueTypes' /\ RowsKnown'
  <2>1. pc[h] # "idle"
    BY <1>21 DEF StatementFails, PoolRefuses, DatabaseError, AsksWithNone,
       AsksWithOne, HoldsTwo
  <2>2. /\ CallTypes'
        /\ \A g \in Handlers :
              /\ batch'[g] \subseteq batch[g]
              /\ pc'[g] = "command" => pc[g] = "command" /\ call'[g] = call[g]
    <3>1. CASE Throw(h)
      BY <2>1, <3>1, ThrowTypes
    <3>2. CASE /\ ReadIsCaught(h)
               /\ verdict' = [verdict EXCEPT ![h] = "unknown"]
               /\ Goto(h, "mark")
               /\ UNCHANGED <<call, batch, seen, reply>>
      BY <3>2, Labels DEF ReadIsCaught, Goto, CallTypes, CallsKnown, Verdicts
    <3> QED
      BY <1>21, <3>1, <3>2 DEF StatementFails
  <2>3. StoreTypes'
    BY <1>21, ModeAssumption DEF StatementFails, PoolRefuses, DatabaseError,
       Fault, StoreTypes
  <2>4. LockTypes'
    BY <1>21, LockType DEF StatementFails, LockTypes, CallTypes, CallsKnown
  <2>5. QueueTypes'
    BY <1>21, QueueType DEF StatementFails, PoolRefuses, DatabaseError, QueueTypes
  <2>6. RowsKnown'
    BY <1>21, <2>2 DEF StatementFails, RowsKnown
  <2> QED
    BY <2>2, <2>3, <2>4, <2>5, <2>6
<1>22. ASSUME NEW h \in Handlers, CommitUnacknowledged(h)
      PROVE  CallTypes' /\ StoreTypes' /\ LockTypes' /\ QueueTypes' /\ RowsKnown'
  <2>1. /\ CallTypes'
        /\ \A g \in Handlers :
              /\ batch'[g] \subseteq batch[g]
              /\ pc'[g] = "command" => pc[g] = "command" /\ call'[g] = call[g]
    BY <1>22, ThrowTypes DEF CommitUnacknowledged, InsertRow
  <2>0. call[h] \in Calls
    BY <1>22 DEF CommitUnacknowledged, InsertRow, CallTypes, CallsKnown
  <2>2. StoreTypes'
    <3>1. [character |-> call[h].character, target |-> call[h].target] \in Rows
      BY <2>0 DEF Rows
    <3>2. "pending" \in Statuses
      BY DEF Statuses
    <3> QED
      BY <1>22, <2>0, <3>1, <3>2, ModeAssumption
      DEF CommitUnacknowledged, InsertRow, Fault, StoreTypes
  <2>3. LockTypes'
    BY <1>22, <2>0, LockType DEF CommitUnacknowledged, LockTypes
  <2>4. RowsKnown'
    <3>1. [character |-> call[h].character, target |-> call[h].target] \in Rows
      BY <2>0 DEF Rows
    <3> QED
      BY <1>22, <2>0, <2>1, <3>1
      DEF CommitUnacknowledged, InsertRow, StoreTypes, RowsKnown
  <2>5. QueueTypes'
    BY <1>22 DEF CommitUnacknowledged, QueueTypes
  <2> QED
    BY <2>1, <2>2, <2>3, <2>4, <2>5
<1>23. ASSUME NEW h \in Handlers, MarkUnacknowledged(h)
      PROVE  CallTypes' /\ StoreTypes' /\ LockTypes' /\ QueueTypes' /\ RowsKnown'
  <2>1. /\ CallTypes'
        /\ \A g \in Handlers :
              /\ batch'[g] \subseteq batch[g]
              /\ pc'[g] = "command" => pc[g] = "command" /\ call'[g] = call[g]
    BY <1>23, ThrowTypes DEF MarkUnacknowledged
  <2>0. call[h] \in Calls
    BY <1>23 DEF MarkUnacknowledged, CallTypes, CallsKnown
  <2>2. /\ status' \in [RequestIds -> Statuses]
        /\ \A r \in RequestIds : status[r] # "absent" <=> status'[r] # "absent"
    BY <1>23, <2>0 DEF MarkUnacknowledged, SetStatus, Markable, CallTypes, CallsKnown,
       StoreTypes, Statuses, Verdicts
  <2>3. StoreTypes'
    BY <1>23, <2>2, ModeAssumption DEF MarkUnacknowledged, Fault, StoreTypes
  <2>4. QueueTypes'
    BY <1>23, QueueType DEF MarkUnacknowledged, QueueTypes
  <2>5. RowsKnown'
    BY <1>23, <2>1, <2>2 DEF MarkUnacknowledged, CallTypes, CallsKnown,
       StoreTypes, RowsKnown
  <2>6. LockTypes'
    BY <1>23 DEF MarkUnacknowledged, LockTypes
  <2> QED
    BY <2>1, <2>3, <2>4, <2>5, <2>6
<1>24. ASSUME NEW h \in Handlers, UnlockFails(h)
      PROVE  CallTypes' /\ StoreTypes' /\ LockTypes' /\ QueueTypes' /\ RowsKnown'
  <2>0. call[h] \in Calls
    BY <1>24 DEF UnlockFails, CallTypes, CallsKnown
  <2>1. /\ CallTypes'
        /\ \A g \in Handlers :
              /\ batch'[g] \subseteq batch[g] \cup batch[h]
              /\ pc'[g] = "command" => pc[g] = "command" /\ call'[g] = call[g]
    BY <1>24, ProceedTypes DEF UnlockFails, CallTypes, RowsKnown
  <2>2. RowsKnown'
    BY <1>24, <2>1 DEF UnlockFails, RowsKnown
  <2>3. StoreTypes'
    BY <1>24, ModeAssumption DEF UnlockFails, Fault, StoreTypes
  <2>4. LockTypes'
    BY <1>24, <2>0, LockType DEF UnlockFails, LockTypes
  <2>5. QueueTypes'
    BY <1>24 DEF UnlockFails, QueueTypes
  <2> QED
    BY <2>1, <2>2, <2>3, <2>4, <2>5
<1>25. ASSUME NEW h \in Handlers, LockConnectionLost(h)
      PROVE  CallTypes' /\ StoreTypes' /\ LockTypes' /\ QueueTypes' /\ RowsKnown'
  <2>0. call[h].character \in Characters
    BY <1>25, Labels DEF LockConnectionLost, CallTypes, CallsKnown, Calls,
       HoldsOne, AsksWithOne, HoldsTwo
  <2>1. StoreTypes'
    BY <1>25, <2>0, ModeAssumption DEF LockConnectionLost, Fault, StoreTypes
  <2>2. LockTypes'
    BY <1>25, LockType, Labels DEF LockConnectionLost, LockTypes, CallTypes,
       CallsKnown, HoldsOne, AsksWithOne, HoldsTwo
  <2>3. CallTypes' /\ QueueTypes' /\ RowsKnown'
    BY <1>25 DEF LockConnectionLost, CallTypes, CallsKnown, QueueTypes,
       RowsKnown
  <2> QED
    BY <2>1, <2>2, <2>3
<1>26. ASSUME NEW r \in RequestIds, WorldAccepts(r)
      PROVE  CallTypes' /\ StoreTypes' /\ LockTypes' /\ QueueTypes' /\ RowsKnown'
  <2>1. CallTypes'
    BY <1>26 DEF WorldAccepts, ReplyToWaiting, CallTypes, CallsKnown
  <2>2. StoreTypes'
    BY <1>26 DEF WorldAccepts, StoreTypes
  <2>3. RowsKnown'
    BY <1>26 DEF WorldAccepts, StoreTypes, RowsKnown
  <2>4. LockTypes' /\ QueueTypes'
    BY <1>26 DEF WorldAccepts, LockTypes, QueueTypes
  <2> QED
    BY <2>1, <2>2, <2>3, <2>4
<1>27. ASSUME NEW r \in RequestIds, WorldRejects(r)
      PROVE  CallTypes' /\ StoreTypes' /\ LockTypes' /\ QueueTypes' /\ RowsKnown'
  <2>1. CallTypes'
    BY <1>27 DEF WorldRejects, ReplyToWaiting, CallTypes, CallsKnown
  <2>2. StoreTypes'
    BY <1>27 DEF WorldRejects, StoreTypes
  <2>3. RowsKnown'
    BY <1>27 DEF WorldRejects, StoreTypes, RowsKnown
  <2>4. LockTypes' /\ QueueTypes'
    BY <1>27 DEF WorldRejects, LockTypes, QueueTypes
  <2> QED
    BY <2>1, <2>2, <2>3, <2>4
<1>28. ASSUME NEW r \in RequestIds, WorldWrites(r)
      PROVE  CallTypes' /\ StoreTypes' /\ LockTypes' /\ QueueTypes' /\ RowsKnown'
  <2>1. StoreTypes'
    <3>1. row[r].character \in Characters /\ row[r].target \in Levels
      <4>1. row[r] \in Rows
        BY <1>28 DEF WorldWrites, StoreTypes, RowsKnown
      <4> QED
        BY <4>1, RowFields, LimitAssumption DEF Targets, Levels
    <3> QED
      BY <1>28, <3>1 DEF WorldWrites, SetLevel, StoreTypes
  <2>2. RowsKnown'
    BY <1>28 DEF WorldWrites, SetLevel, StoreTypes, RowsKnown
  <2>3. CallTypes' /\ LockTypes' /\ QueueTypes'
    BY <1>28 DEF WorldWrites, CallTypes, CallsKnown, LockTypes, QueueTypes
  <2> QED
    BY <2>1, <2>2, <2>3
<1>29. ASSUME NEW r \in RequestIds, RequestGoesStale(r)
      PROVE  CallTypes' /\ StoreTypes' /\ LockTypes' /\ QueueTypes' /\ RowsKnown'
  <2>1. StoreTypes'
    BY <1>29 DEF RequestGoesStale, StoreTypes
  <2>2. CallTypes' /\ LockTypes' /\ QueueTypes' /\ RowsKnown'
    BY <1>29 DEF RequestGoesStale, CallTypes, CallsKnown, LockTypes,
       QueueTypes, RowsKnown
  <2> QED
    BY <2>1, <2>2
<1>30. ASSUME NEW c \in Characters, PlayerGainsLevel(c)
      PROVE  CallTypes' /\ StoreTypes' /\ LockTypes' /\ QueueTypes' /\ RowsKnown'
  <2>1. StoreTypes'
    BY <1>30, LimitAssumption DEF PlayerGainsLevel, SetLevel, StoreTypes,
       Levels
  <2>2. CallTypes' /\ LockTypes' /\ QueueTypes' /\ RowsKnown'
    BY <1>30 DEF PlayerGainsLevel, CallTypes, CallsKnown, LockTypes,
       QueueTypes, RowsKnown
  <2> QED
    BY <2>1, <2>2
<1>31. CASE Crash
  <2>1. QueueTypes'
    BY <1>31, QueueType DEF Crash, QueueTypes
  <2>2. CallTypes' /\ StoreTypes' /\ LockTypes' /\ RowsKnown'
    BY <1>31, Labels, ModeAssumption DEF Crash, Fault, CallTypes, CallsKnown,
       StoreTypes, LockTypes, RowsKnown, Verdicts
  <2> QED
    BY <2>1, <2>2
<1>32. CASE UNCHANGED vars
  BY <1>32 DEF vars, CallTypes, CallsKnown, StoreTypes, LockTypes, QueueTypes,
     RowsKnown
<1> QED
  BY <1>1, <1>2, <1>3, <1>4, <1>5, <1>6, <1>7, <1>8, <1>9, <1>10, <1>11, <1>12,
     <1>13, <1>14, <1>15, <1>16, <1>17, <1>18, <1>19, <1>20, <1>21, <1>22,
     <1>23, <1>24, <1>25, <1>26, <1>27, <1>28, <1>29, <1>30, <1>31, <1>32
  DEF Next, HandlerStep

\* The variables of the level boost always have their types.
THEOREM TypeCorrect == Spec => []TypeOK
<1>1. TypeInv => TypeOK
  BY DEF TypeInv
<1> QED
  BY <1>1, InitTypeInv, NextTypeInv, PTL DEF Spec

-----------------------------------------------------------------------------
(* Safety.                                                                 *)

\* The command of r is spent and changed nothing.
Undeliverable(r) ==
    issued[r] = 1 /\ posted[r] = 0 /\ unsaved[r] = 0 /\ r \notin changed

\* One command, carried out once at most, and none before there is a row.
Counts ==
    \A r \in RequestIds :
        /\ issued[r] <= 1
        /\ posted[r] + unsaved[r] <= issued[r]
        /\ r \in changed => issued[r] = 1 /\ posted[r] + unsaved[r] = 0
        /\ status[r] = "absent" => issued[r] = 0

\* Only the call that inserted a row posts its command.
Tickets ==
    /\ \A h \in Handlers :
          pc[h] = "command" => issued[call[h].request] = 0
    /\ \A g, h \in Handlers :
          pc[g] = "command" /\ pc[h] = "command" /\ call[g].request = call[h].request
              => g = h

\* The history misses no level that a reserved request asked for.
ReachedComplete ==
    \A r \in RequestIds :
        status[r] # "absent" /\ level[row[r].character] = row[r].target
            => r \in reached

StatusTrue ==
    \A r \in RequestIds :
        /\ status[r] = "applied" => r \in reached
        /\ status[r] = "failed" => Undeliverable(r)

\* The row of the call's request is there and says what the call says.
HasRow(c) ==
    /\ status[c.request] # "absent"
    /\ row[c.request].character = c.character
    /\ row[c.request].target = c.target

\* What a call knows of its request is true.
CallTrue(h) ==
    /\ pc[h] \in {"idle", "stale"} => reply[h] = "none" /\ verdict[h] = "none"
    /\ pc[h] \in {"command", "awaiting", "confirm", "mark"} => HasRow(call[h])
    /\ pc[h] \notin {"idle", "stale"} /\ call[h].kind = "settle" => HasRow(call[h])
    /\ reply[h] = "failed" => Undeliverable(call[h].request)
    /\ verdict[h] = "failed" => Undeliverable(call[h].request)
    /\ verdict[h] = "applied" => call[h].request \in reached

Inv == /\ TypeInv
       /\ Counts
       /\ Tickets
       /\ ReachedComplete
       /\ StatusTrue
       /\ \A h \in Handlers : CallTrue(h)

LEMMA InitInv == Init => Inv
  BY InitTypeInv
  DEF Init, Inv, Counts, Tickets, ReachedComplete, StatusTrue, CallTrue

\* A step that leaves the slot of h alone.
SlotUnchanged(h) ==
    /\ pc'[h] = pc[h]
    /\ call'[h] = call[h]
    /\ verdict'[h] = verdict[h]
    /\ reply'[h] = reply[h]

\* What a step of the table or of the game server must respect.
KnowledgeKept ==
    \A r \in RequestIds :
        /\ status[r] # "absent" => status'[r] # "absent" /\ row'[r] = row[r]
        /\ r \in reached => r \in reached'
        /\ Undeliverable(r) => Undeliverable(r)'

\* ... so that the calls it does not move stay right.
LEMMA StaysTrue ==
    ASSUME TypeInv, KnowledgeKept, NEW h \in Handlers, CallTrue(h), SlotUnchanged(h)
    PROVE  CallTrue(h)'
<1>1. CASE pc[h] \in {"idle", "stale"}
  BY <1>1 DEF CallTrue, SlotUnchanged
<1>2. CASE pc[h] \notin {"idle", "stale"}
  <2>1. call[h].request \in RequestIds
    BY <1>2, CallFields DEF TypeInv, CallsKnown
  <2> QED
    BY <1>2, <2>1 DEF CallTrue, SlotUnchanged, KnowledgeKept, HasRow
<1> QED
  BY <1>1, <1>2

facts == <<status, row, level, posted, unsaved, reached, changed, issued>>

\* A step of one call that changes neither table nor game server.
LEMMA CallStep ==
    ASSUME Inv, TypeInv', NEW h \in Handlers, UNCHANGED facts,
           \A g \in Handlers \ {h} : SlotUnchanged(g),
           pc'[h] = "command" => pc[h] = "command" /\ call'[h] = call[h],
           CallTrue(h)'
    PROVE  Inv'
<1>1. \A g \in Handlers : CallTrue(g)'
  BY StaysTrue DEF Inv, facts, KnowledgeKept, Undeliverable
<1>2. Tickets'
  BY DEF Inv, Tickets, facts, SlotUnchanged
<1>3. Counts' /\ ReachedComplete' /\ StatusTrue'
  BY DEF Inv, Counts, ReachedComplete, StatusTrue, Undeliverable, facts
<1> QED
  BY <1>1, <1>2, <1>3 DEF Inv

\* A step of the table or of the game server that moves no call forward.
LEMMA WorldStep ==
    ASSUME Inv, TypeInv', UNCHANGED <<pc, call>>, KnowledgeKept,
           Counts', ReachedComplete', StatusTrue', UNCHANGED issued,
           \A h \in Handlers : CallTrue(h)'
    PROVE  Inv'
<1>1. Tickets'
  BY DEF Inv, Tickets
<1> QED
  BY <1>1 DEF Inv

\* The UPDATE of mark settles an open row and touches no other.
LEMMA SetStatusEffect ==
    ASSUME TypeInv, NEW r \in RequestIds, NEW outcome, SetStatus(r, outcome)
    PROVE  /\ \A x \in RequestIds \ {r} : status'[x] = status[x]
           /\ \/ status'[r] = outcome /\ status[r] # "absent"
              \/ status'[r] = status[r]
  BY DEF TypeInv, TypeOK, SetStatus, Markable

LEMMA MarkKeeps ==
    ASSUME Inv, NEW h \in Handlers, pc[h] = "mark",
           SetStatus(call[h].request, verdict[h]),
           UNCHANGED <<row, level, posted, unsaved, reached, changed, issued>>
    PROVE  KnowledgeKept /\ Counts' /\ ReachedComplete' /\ StatusTrue'
<1> DEFINE r == call[h].request
<1>1. r \in RequestIds /\ verdict[h] \in {"applied", "failed", "unknown"}
  BY CallFields DEF Inv, TypeInv, TypeOK, CallsKnown, Verdicts
<1>2. /\ \A x \in RequestIds \ {r} : status'[x] = status[x]
      /\ \/ status'[r] = verdict[h] /\ status[r] # "absent"
         \/ status'[r] = status[r]
  BY <1>1, SetStatusEffect DEF Inv
<1>3. /\ verdict[h] = "applied" => r \in reached
      /\ verdict[h] = "failed" => Undeliverable(r)
  BY DEF Inv, CallTrue
<1> HIDE DEF r
<1>4. \A x \in RequestIds : status'[x] = "absent" <=> status[x] = "absent"
  BY <1>1, <1>2
<1>5. KnowledgeKept
  BY <1>4 DEF KnowledgeKept, Undeliverable
<1>6. Counts' /\ ReachedComplete'
  BY <1>4 DEF Inv, Counts, ReachedComplete
<1>7. StatusTrue'
  BY <1>1, <1>2, <1>3 DEF Inv, StatusTrue, Undeliverable
<1> QED
  BY <1>5, <1>6, <1>7

\* The INSERT makes a row for a request that never had a command.
LEMMA InsertKeeps ==
    ASSUME Inv, NEW h \in Handlers, InsertRow(h), UNCHANGED issued
    PROVE  /\ KnowledgeKept /\ Counts' /\ ReachedComplete' /\ StatusTrue'
           /\ status'[call[h].request] # "absent"
           /\ row'[call[h].request].character = call[h].character
           /\ row'[call[h].request].target = call[h].target
<1> DEFINE r == call[h].request
<1>1. r \in RequestIds /\ call[h].character \in Characters
  BY CallFields DEF Inv, TypeInv, CallsKnown, InsertRow
<1>2. /\ status[r] = "absent"
      /\ \A x \in RequestIds \ {r} : status'[x] = status[x] /\ row'[x] = row[x]
      /\ status'[r] = "pending"
      /\ row'[r].character = call[h].character
      /\ row'[r].target = call[h].target
      /\ UNCHANGED <<level, posted, unsaved, changed>>
      /\ \A x \in reached : x \in reached'
      /\ level[call[h].character] = call[h].target => r \in reached'
  BY <1>1 DEF Inv, TypeInv, TypeOK, InsertRow
<1> HIDE DEF r
<1>3. KnowledgeKept /\ Counts'
  BY <1>1, <1>2 DEF Inv, KnowledgeKept, Undeliverable, Counts
<1>4. ReachedComplete' /\ StatusTrue'
  BY <1>1, <1>2 DEF Inv, ReachedComplete, StatusTrue, Undeliverable
<1> QED
  BY <1>2, <1>3, <1>4 DEF r

\* A call that returns, fails or goes on with the next stale row.
LEMMA ThrowTrue ==
    ASSUME TypeInv, TypeInv', NEW h \in Handlers, CallTrue(h),
           pc[h] # "idle", Throw(h), KnowledgeKept
    PROVE  /\ \A g \in Handlers \ {h} : SlotUnchanged(g)
           /\ pc'[h] # "command" /\ CallTrue(h)'
<1>1. CASE pc[h] \in AsksWithNone
  BY <1>1 DEF Throw, Return, Goto, SlotUnchanged, CallTrue, TypeInv, TypeOK
<1>2. CASE pc[h] \notin AsksWithNone
  <2>1. /\ pc' = [pc EXCEPT ![h] = "unlock"]
        /\ UNCHANGED <<call, verdict, reply>>
        /\ pc[h] \notin {"idle", "stale"}
    BY <1>2 DEF Throw, Goto, AsksWithNone
  <2>2. call[h].request \in RequestIds
    BY <2>1, CallFields DEF TypeInv, CallsKnown
  <2> QED
    BY <2>1, <2>2 DEF SlotUnchanged, CallTrue, HasRow, KnowledgeKept, TypeInv, TypeOK
<1> QED
  BY <1>1, <1>2

LEMMA ProceedTrue ==
    ASSUME TypeInv, NEW h \in Handlers,
           NEW rows \in SUBSET RequestIds, \A r \in rows : status[r] # "absent",
           Proceed(h, rows), UNCHANGED facts
    PROVE  /\ \A g \in Handlers \ {h} : SlotUnchanged(g)
           /\ pc'[h] # "command" /\ CallTrue(h)'
<1>1. CASE Return(h)
  BY <1>1 DEF Return, Goto, SlotUnchanged, CallTrue, TypeInv, TypeOK
<1>2. CASE ~Return(h)
  <2>1. PICK r \in rows :
            /\ call' = [call EXCEPT ![h] = [kind |-> "settle", request |-> r,
                            character |-> row[r].character,
                            target |-> row[r].target]]
            /\ pc' = [pc EXCEPT ![h] = "connect"]
            /\ verdict' = [verdict EXCEPT ![h] = "none"]
            /\ reply' = [reply EXCEPT ![h] = "none"]
    BY <1>2 DEF Proceed, Goto
  <2> QED
    BY <2>1 DEF SlotUnchanged, CallTrue, HasRow, facts, TypeInv, TypeOK
<1> QED
  BY <1>1, <1>2

\* The level in the table proves the verdict drawn from it.
LEMMA VerdictSound ==
    ASSUME Inv, NEW c \in Calls, HasRow(c), VerdictOf(c) = "applied"
    PROVE  c.request \in reached
<1>1. level[c.character] = c.target
  BY DEF VerdictOf
<1> QED
  BY <1>1, CallFields DEF Inv, ReachedComplete, HasRow

\* A command that is still posted is the only one and has changed nothing.
LEMMA PostedIsAlone ==
    ASSUME Inv, NEW r \in RequestIds, posted[r] > 0
    PROVE  posted[r] = 1 /\ unsaved[r] = 0 /\ issued[r] = 1 /\ r \notin changed
<1>1. /\ posted[r] \in Nat /\ unsaved[r] \in Nat /\ issued[r] \in Nat
      /\ issued[r] <= 1 /\ posted[r] + unsaved[r] <= issued[r]
      /\ r \in changed => posted[r] + unsaved[r] = 0
  BY DEF Inv, TypeInv, TypeOK, Counts
<1> QED
  BY <1>1

LEMMA UnsavedIsAlone ==
    ASSUME Inv, NEW r \in RequestIds, unsaved[r] > 0
    PROVE  posted[r] = 0 /\ unsaved[r] = 1 /\ issued[r] = 1 /\ status[r] # "absent"
<1>1. /\ posted[r] \in Nat /\ unsaved[r] \in Nat /\ issued[r] \in Nat
      /\ issued[r] <= 1 /\ posted[r] + unsaved[r] <= issued[r]
      /\ status[r] = "absent" => issued[r] = 0
  BY DEF Inv, TypeInv, TypeOK, Counts
<1> QED
  BY <1>1

\* A new level is noted for every request that asked for it.
LEMMA SetLevelComplete ==
    ASSUME TypeInv, ReachedComplete, NEW c \in Characters, NEW l, SetLevel(c, l),
           UNCHANGED <<status, row>>
    PROVE  ReachedComplete'
<1> SUFFICES ASSUME NEW r \in RequestIds, status[r] # "absent",
                    level'[row[r].character] = row[r].target
             PROVE  r \in reached'
  BY DEF ReachedComplete
<1>1. row[r] \in Rows /\ row[r].character \in Characters
  BY RowFields DEF TypeInv, RowsKnown
<1>2. CASE row[r].character # c
  <2>1. level'[row[r].character] = level[row[r].character]
    BY <1>1, <1>2 DEF SetLevel, TypeInv, TypeOK
  <2> QED
    BY <2>1 DEF ReachedComplete, SetLevel
<1>3. CASE row[r].character = c
  <2>1. row[r].target = l
    BY <1>1, <1>3 DEF SetLevel, TypeInv, TypeOK
  <2>2. row[r] = [character |-> c, target |-> l]
    BY <1>1, <1>3, <2>1 DEF Rows
  <2> QED
    BY <2>2 DEF SetLevel
<1> QED
  BY <1>2, <1>3

LEMMA NextInv == Inv /\ TypeInv' /\ [Next]_vars => Inv'
<1> SUFFICES ASSUME Inv, TypeInv', [Next]_vars PROVE Inv'
  OBVIOUS
<1> USE DEF table, locks, calls, world, history
<1>1. ASSUME NEW h \in Handlers, NEW c \in Requests, RequestCharacterLevel(h, c) PROVE Inv'
  <2>1. UNCHANGED facts /\ \A g \in Handlers \ {h} : SlotUnchanged(g)
    BY <1>1 DEF RequestCharacterLevel, Goto, facts, SlotUnchanged, Inv, TypeInv, TypeOK
  <2>2. CallTrue(h)' /\ pc'[h] # "command"
    BY <1>1 DEF RequestCharacterLevel, Goto, Requests, CallTrue, HasRow, Undeliverable, Inv,
       TypeInv, TypeOK
  <2> QED
    BY <2>1, <2>2, CallStep
<1>2. ASSUME NEW h \in Handlers, GetMetadata(h) PROVE Inv'
  <2>1. UNCHANGED facts /\ \A g \in Handlers \ {h} : SlotUnchanged(g)
    BY <1>2 DEF GetMetadata, Goto, facts, SlotUnchanged, Inv, TypeInv, TypeOK
  <2>2. CallTrue(h)' /\ pc'[h] # "command"
    BY <1>2 DEF GetMetadata, Goto, CallTrue, HasRow, Undeliverable, Inv,
       TypeInv, TypeOK
  <2> QED
    BY <2>1, <2>2, CallStep
<1>3. ASSUME NEW h \in Handlers, Connect(h) PROVE Inv'
  <2>1. UNCHANGED facts /\ \A g \in Handlers \ {h} : SlotUnchanged(g)
    BY <1>3 DEF Connect, Goto, facts, SlotUnchanged, Inv, TypeInv, TypeOK
  <2>2. CallTrue(h)' /\ pc'[h] # "command"
    BY <1>3 DEF Connect, Goto, CallTrue, HasRow, Undeliverable, Inv,
       TypeInv, TypeOK
  <2> QED
    BY <2>1, <2>2, CallStep
<1>4. ASSUME NEW h \in Handlers, AcquireCharacterLock(h) PROVE Inv'
  <2>1. UNCHANGED facts /\ \A g \in Handlers \ {h} : SlotUnchanged(g)
    BY <1>4 DEF AcquireCharacterLock, Goto, facts, SlotUnchanged, Inv, TypeInv, TypeOK
  <2>2. CallTrue(h)' /\ pc'[h] # "command"
    BY <1>4 DEF AcquireCharacterLock, Goto, CallTrue, HasRow, Undeliverable, Inv,
       TypeInv, TypeOK
  <2> QED
    BY <2>1, <2>2, CallStep
<1>5. ASSUME NEW h \in Handlers, ReadCharacter(h) PROVE Inv'
  <2>1. UNCHANGED facts /\ \A g \in Handlers \ {h} : SlotUnchanged(g)
    BY <1>5 DEF ReadCharacter, Goto, facts, SlotUnchanged, Inv, TypeInv, TypeOK
  <2>2. CallTrue(h)' /\ pc'[h] # "command"
    BY <1>5 DEF ReadCharacter, Goto, CallTrue, HasRow, Undeliverable, Inv,
       TypeInv, TypeOK
  <2> QED
    BY <2>1, <2>2, CallStep
<1>6. ASSUME NEW h \in Handlers, Reserve(h) PROVE Inv'
  <2>1. UNCHANGED facts /\ \A g \in Handlers \ {h} : SlotUnchanged(g)
    BY <1>6 DEF Reserve, Goto, facts, SlotUnchanged, Inv, TypeInv, TypeOK
  <2>2. CallTrue(h)' /\ pc'[h] # "command"
    BY <1>6 DEF Reserve, Goto, CallTrue, HasRow, Undeliverable, Inv,
       TypeInv, TypeOK
  <2> QED
    BY <2>1, <2>2, CallStep
<1>7. ASSUME NEW h \in Handlers, AcquireRequestLock(h) PROVE Inv'
  <2>1. UNCHANGED facts /\ \A g \in Handlers \ {h} : SlotUnchanged(g)
    BY <1>7 DEF AcquireRequestLock, Goto, facts, SlotUnchanged, Inv, TypeInv, TypeOK
  <2>2. CallTrue(h)' /\ pc'[h] # "command"
    BY <1>7 DEF AcquireRequestLock, Goto, CallTrue, HasRow, Undeliverable, Inv,
       TypeInv, TypeOK
  <2> QED
    BY <2>1, <2>2, CallStep
<1>8. ASSUME NEW h \in Handlers, ReceiveReply(h) PROVE Inv'
  <2>1. UNCHANGED facts /\ \A g \in Handlers \ {h} : SlotUnchanged(g)
    BY <1>8 DEF ReceiveReply, Goto, facts, SlotUnchanged, Inv, TypeInv, TypeOK
  <2>2. CallTrue(h)' /\ pc'[h] # "command"
    BY <1>8 DEF ReceiveReply, Goto, CallTrue, HasRow, Undeliverable, Inv,
       TypeInv, TypeOK
  <2> QED
    BY <2>1, <2>2, CallStep
<1>9. ASSUME NEW h \in Handlers, ReplyUnusable(h) PROVE Inv'
  <2>1. UNCHANGED facts /\ \A g \in Handlers \ {h} : SlotUnchanged(g)
    BY <1>9 DEF ReplyUnusable, Goto, facts, SlotUnchanged, Inv, TypeInv, TypeOK
  <2>2. CallTrue(h)' /\ pc'[h] # "command"
    BY <1>9 DEF ReplyUnusable, Goto, CallTrue, HasRow, Undeliverable, Inv,
       TypeInv, TypeOK
  <2> QED
    BY <2>1, <2>2, CallStep
<1>10. ASSUME NEW h \in Handlers, LockTimeout(h) PROVE Inv'
  <2>1. UNCHANGED facts /\ pc[h] # "idle" /\ Throw(h)
    BY <1>10 DEF LockTimeout, facts
  <2>2. KnowledgeKept
    BY <2>1 DEF KnowledgeKept, Undeliverable, facts
  <2> QED
    BY <2>1, <2>2, ThrowTrue, CallStep DEF Inv
<1>11. ASSUME NEW h \in Handlers, StatementFails(h) PROVE Inv'
  <2>1. UNCHANGED facts /\ pc[h] # "idle"
    BY <1>11 DEF StatementFails, PoolRefuses, DatabaseError, AsksWithNone,
       AsksWithOne, HoldsTwo, facts
  <2>2. KnowledgeKept
    BY <2>1 DEF KnowledgeKept, Undeliverable, facts
  <2>3. CASE Throw(h)
    BY <2>1, <2>2, <2>3, ThrowTrue, CallStep DEF Inv
  <2>4. CASE /\ ReadIsCaught(h)
             /\ verdict' = [verdict EXCEPT ![h] = "unknown"]
             /\ Goto(h, "mark")
             /\ UNCHANGED <<call, batch, seen, reply>>
    <3>1. \A g \in Handlers \ {h} : SlotUnchanged(g)
      BY <2>4 DEF Goto, SlotUnchanged, Inv, TypeInv, TypeOK
    <3>2. CallTrue(h)' /\ pc'[h] # "command"
      BY <2>1, <2>4 DEF ReadIsCaught, Goto, CallTrue, HasRow, Undeliverable, facts,
         Inv, TypeInv, TypeOK
    <3> QED
      BY <2>1, <3>1, <3>2, CallStep
  <2> QED
    BY <1>11, <2>3, <2>4 DEF StatementFails
<1>12. ASSUME NEW h \in Handlers, Unlock(h) PROVE Inv'
  <2>1. UNCHANGED facts /\ Proceed(h, batch[h])
    BY <1>12 DEF Unlock, facts
  <2>2. batch[h] \in SUBSET RequestIds /\ \A r \in batch[h] : status[r] # "absent"
    BY DEF Inv, TypeInv, TypeOK, RowsKnown
  <2> QED
    BY <2>1, <2>2, ProceedTrue, CallStep DEF Inv
<1>13. ASSUME NEW h \in Handlers, UnlockFails(h) PROVE Inv'
  <2>1. UNCHANGED facts /\ Proceed(h, batch[h])
    BY <1>13 DEF UnlockFails, facts
  <2>2. batch[h] \in SUBSET RequestIds /\ \A r \in batch[h] : status[r] # "absent"
    BY DEF Inv, TypeInv, TypeOK, RowsKnown
  <2> QED
    BY <2>1, <2>2, ProceedTrue, CallStep DEF Inv
<1>14. ASSUME NEW h \in Handlers, FindStalePending(h) PROVE Inv'
  <2>1. UNCHANGED facts
    BY <1>14 DEF FindStalePending, facts
  <2>2. PICK rows \in SUBSET {r \in RequestIds : IsStalePending(r)} :
            Proceed(h, rows)
    BY <1>14 DEF FindStalePending
  <2>3. rows \in SUBSET RequestIds /\ \A r \in rows : status[r] # "absent"
    BY DEF IsStalePending
  <2> QED
    BY <2>1, <2>2, <2>3, ProceedTrue, CallStep DEF Inv
<1>15. ASSUME NEW h \in Handlers, Find(h) PROVE Inv'
  <2>1. /\ pc[h] \notin {"idle", "stale"}
        /\ \/ pc' = [pc EXCEPT ![h] = "unlock"]
           \/ pc' = [pc EXCEPT ![h] = "reserve"]
           \/ /\ pc' = [pc EXCEPT ![h] = "confirm"]
              /\ status[call[h].request] # "absent"
              /\ SameDetails(call[h], call[h].request)
        /\ UNCHANGED facts /\ UNCHANGED <<call, verdict, reply>>
    BY <1>15 DEF Find, HandleExisting, IsRefused, ResumesAt, Leave, Goto, facts
  <2>2. \A g \in Handlers \ {h} : SlotUnchanged(g)
    BY <2>1 DEF SlotUnchanged, Inv, TypeInv, TypeOK
  <2>3. CallTrue(h)' /\ pc'[h] # "command"
    BY <2>1 DEF CallTrue, HasRow, SameDetails, Undeliverable, facts, Inv,
       TypeInv, TypeOK
  <2> QED
    BY <2>1, <2>2, <2>3, CallStep
<1>16. ASSUME NEW h \in Handlers, FindsRow(h) PROVE Inv'
  <2>1. /\ pc[h] \notin {"idle", "stale"}
        /\ \/ pc' = [pc EXCEPT ![h] = "unlock"]
           \/ pc' = [pc EXCEPT ![h] = "reserve"]
           \/ /\ pc' = [pc EXCEPT ![h] = "confirm"]
              /\ status[call[h].request] # "absent"
              /\ SameDetails(call[h], call[h].request)
        /\ UNCHANGED facts /\ UNCHANGED <<call, verdict, reply>>
    BY <1>16 DEF FindsRow, HandleExisting, IsRefused, ResumesAt, Leave, Goto, facts
  <2>2. \A g \in Handlers \ {h} : SlotUnchanged(g)
    BY <2>1 DEF SlotUnchanged, Inv, TypeInv, TypeOK
  <2>3. CallTrue(h)' /\ pc'[h] # "command"
    BY <2>1 DEF CallTrue, HasRow, SameDetails, Undeliverable, facts, Inv,
       TypeInv, TypeOK
  <2> QED
    BY <2>1, <2>2, <2>3, CallStep
<1>17. ASSUME NEW h \in Handlers, ConfirmLevel(h) PROVE Inv'
  <2>1. UNCHANGED facts /\ \A g \in Handlers \ {h} : SlotUnchanged(g)
    BY <1>17 DEF ConfirmLevel, Goto, facts, SlotUnchanged, Inv, TypeInv, TypeOK
  <2>2. call[h] \in Calls /\ HasRow(call[h])
    BY <1>17 DEF ConfirmLevel, Inv, TypeInv, CallsKnown, CallTrue
  <2>3. VerdictOf(call[h]) \in {"applied", "unknown"}
    BY DEF VerdictOf
  <2>4. VerdictOf(call[h]) = "applied" => call[h].request \in reached
    BY <2>2, VerdictSound
  <2>5. /\ pc' = [pc EXCEPT ![h] = "mark"]
        /\ verdict' = [verdict EXCEPT ![h] = VerdictOf(call[h])]
        /\ UNCHANGED <<call, reply>> /\ pc[h] \notin {"idle", "stale"}
    BY <1>17 DEF ConfirmLevel, Goto
  <2>6. CallTrue(h)' /\ pc'[h] # "command"
    BY <2>1, <2>2, <2>3, <2>4, <2>5
    DEF CallTrue, HasRow, Undeliverable, facts, Inv, TypeInv, TypeOK
  <2> QED
    BY <2>1, <2>6, CallStep
<1>18. ASSUME NEW h \in Handlers, ReadStaleLevel(h) PROVE Inv'
  <2>1. UNCHANGED facts /\ \A g \in Handlers \ {h} : SlotUnchanged(g)
    BY <1>18 DEF ReadStaleLevel, Goto, facts, SlotUnchanged, Inv, TypeInv, TypeOK
  <2>2. call[h] \in Calls /\ HasRow(call[h])
    BY <1>18 DEF ReadStaleLevel, Inv, TypeInv, CallsKnown, CallTrue
  <2>3. VerdictOf(call[h]) \in {"applied", "unknown"}
    BY DEF VerdictOf
  <2>4. VerdictOf(call[h]) = "applied" => call[h].request \in reached
    BY <2>2, VerdictSound
  <2>5. /\ pc' = [pc EXCEPT ![h] = "mark"]
        /\ verdict' = [verdict EXCEPT ![h] = VerdictOf(call[h])]
        /\ UNCHANGED <<call, reply>> /\ pc[h] \notin {"idle", "stale"}
    BY <1>18 DEF ReadStaleLevel, Goto
  <2>6. CallTrue(h)' /\ pc'[h] # "command"
    BY <2>1, <2>2, <2>3, <2>4, <2>5
    DEF CallTrue, HasRow, Undeliverable, facts, Inv, TypeInv, TypeOK
  <2> QED
    BY <2>1, <2>6, CallStep
<1>19. ASSUME NEW h \in Handlers, Mark(h) PROVE Inv'
  <2>1. KnowledgeKept /\ Counts' /\ ReachedComplete' /\ StatusTrue'
    BY <1>19, MarkKeeps DEF Mark
  <2>2. /\ \A g \in Handlers \ {h} : SlotUnchanged(g)
        /\ pc[h] = "mark" /\ pc' = [pc EXCEPT ![h] = "unlock"]
        /\ UNCHANGED <<call, verdict, reply, issued>>
    BY <1>19 DEF Mark, Leave, Goto, SlotUnchanged, Inv, TypeInv, TypeOK
  <2>3. CallTrue(h)' /\ pc'[h] # "command"
    <3>1. call[h].request \in RequestIds
      BY <2>2, CallFields DEF Inv, TypeInv, CallsKnown
    <3> QED
      BY <2>1, <2>2, <3>1 DEF CallTrue, HasRow, KnowledgeKept, Inv, TypeInv, TypeOK
  <2>4. \A g \in Handlers : CallTrue(g)'
    BY <2>1, <2>2, <2>3, StaysTrue DEF Inv
  <2>5. Tickets'
    BY <2>2, <2>3 DEF Inv, Tickets, SlotUnchanged
  <2> QED
    BY <2>1, <2>4, <2>5 DEF Inv
<1>20. ASSUME NEW h \in Handlers, MarkUnacknowledged(h) PROVE Inv'
  <2>1. KnowledgeKept /\ Counts' /\ ReachedComplete' /\ StatusTrue'
    BY <1>20, MarkKeeps DEF MarkUnacknowledged
  <2>2. pc[h] = "mark" /\ Throw(h) /\ UNCHANGED issued
    BY <1>20 DEF MarkUnacknowledged
  <2>3. /\ \A g \in Handlers \ {h} : SlotUnchanged(g)
        /\ pc'[h] # "command" /\ CallTrue(h)'
    BY <2>1, <2>2, ThrowTrue DEF Inv
  <2>4. \A g \in Handlers : CallTrue(g)'
    BY <2>1, <2>2, <2>3, StaysTrue DEF Inv
  <2>5. Tickets'
    BY <2>2, <2>3 DEF Inv, Tickets, SlotUnchanged
  <2> QED
    BY <2>1, <2>4, <2>5 DEF Inv
<1>21. ASSUME NEW h \in Handlers, InsertPending(h) PROVE Inv'
  <2>1. /\ InsertRow(h) /\ UNCHANGED <<call, verdict, reply, issued>>
        /\ pc' = [pc EXCEPT ![h] = "command"]
        /\ pc[h] = "insert" /\ status[call[h].request] = "absent"
    BY <1>21 DEF InsertPending, InsertRow, Goto
  <2>2. /\ KnowledgeKept /\ Counts' /\ ReachedComplete' /\ StatusTrue'
        /\ status'[call[h].request] # "absent"
        /\ row'[call[h].request].character = call[h].character
        /\ row'[call[h].request].target = call[h].target
    BY <2>1, InsertKeeps
  <2>3. call[h].request \in RequestIds
    BY <2>1, CallFields DEF Inv, TypeInv, CallsKnown
  <2>4. \A g \in Handlers \ {h} : SlotUnchanged(g)
    BY <2>1 DEF SlotUnchanged, Inv, TypeInv, TypeOK
  <2>5. CallTrue(h)'
    BY <2>1, <2>2, <2>3 DEF CallTrue, HasRow, KnowledgeKept, Inv, TypeInv, TypeOK
  <2>6. \A g \in Handlers : CallTrue(g)'
    BY <2>2, <2>4, <2>5, StaysTrue DEF Inv
  <2>7. Tickets'
    <3>1. issued[call[h].request] = 0
      BY <2>1, <2>3 DEF Inv, Counts
    <3>2. \A g \in Handlers \ {h} :
              pc[g] = "command" => call[g].request # call[h].request
      BY <2>1 DEF Inv, CallTrue, HasRow
    <3> QED
      BY <2>1, <3>1, <3>2 DEF Inv, Tickets, TypeInv, TypeOK
  <2> QED
    BY <2>2, <2>6, <2>7 DEF Inv
<1>22. ASSUME NEW h \in Handlers, CommitUnacknowledged(h) PROVE Inv'
  <2>1. InsertRow(h) /\ pc[h] = "insert" /\ Throw(h) /\ UNCHANGED issued
    BY <1>22 DEF CommitUnacknowledged, InsertRow
  <2>2. KnowledgeKept /\ Counts' /\ ReachedComplete' /\ StatusTrue'
    BY <2>1, InsertKeeps
  <2>3. /\ \A g \in Handlers \ {h} : SlotUnchanged(g)
        /\ pc'[h] # "command" /\ CallTrue(h)'
    BY <2>1, <2>2, ThrowTrue DEF Inv
  <2>4. \A g \in Handlers : CallTrue(g)'
    BY <2>2, <2>3, StaysTrue DEF Inv
  <2>5. Tickets'
    BY <2>1, <2>3 DEF Inv, Tickets, SlotUnchanged
  <2> QED
    BY <2>2, <2>4, <2>5 DEF Inv
<1>23. ASSUME NEW h \in Handlers, ExecuteCommand(h) PROVE Inv'
  <2> DEFINE r == call[h].request
  <2>1. /\ pc[h] = "command" /\ pc' = [pc EXCEPT ![h] = "awaiting"]
        /\ posted' = [posted EXCEPT ![r] = @ + 1]
        /\ issued' = [issued EXCEPT ![r] = @ + 1]
        /\ UNCHANGED <<call, verdict, reply, status, row, level, unsaved, reached,
                       changed>>
    BY <1>23 DEF ExecuteCommand, Goto
  <2>2. r \in RequestIds
    BY <2>1, CallFields DEF Inv, TypeInv, CallsKnown
  <2>3. issued[r] = 0 /\ status[r] # "absent"
    BY <2>1 DEF Inv, Tickets, CallTrue, HasRow
  <2>4. posted[r] = 0 /\ unsaved[r] = 0 /\ r \notin changed
    BY <2>2, <2>3 DEF Inv, Counts, TypeInv, TypeOK
  <2>5. Counts'
    BY <2>1, <2>2, <2>3, <2>4 DEF Inv, Counts, TypeInv, TypeOK
  <2>6. KnowledgeKept
    BY <2>1, <2>2, <2>3 DEF KnowledgeKept, Undeliverable, Inv, TypeInv, TypeOK
  <2>7. \A g \in Handlers \ {h} : SlotUnchanged(g)
    BY <2>1 DEF SlotUnchanged, Inv, TypeInv, TypeOK
  <2>8. CallTrue(h)'
    BY <2>1, <2>2, <2>6 DEF CallTrue, HasRow, KnowledgeKept, Inv, TypeInv, TypeOK
  <2>9. \A g \in Handlers : CallTrue(g)'
    BY <2>6, <2>7, <2>8, StaysTrue DEF Inv
  <2>10. Tickets'
    BY <2>1, <2>2 DEF Inv, Tickets, TypeInv, TypeOK
  <2>11. ReachedComplete' /\ StatusTrue'
    BY <2>1, <2>6 DEF Inv, ReachedComplete, StatusTrue, KnowledgeKept
  <2> QED
    BY <2>5, <2>9, <2>10, <2>11 DEF Inv
<1>24. ASSUME NEW h \in Handlers, QueueForConnection(h) PROVE Inv'
  <2>1. UNCHANGED facts /\ UNCHANGED <<pc, call, verdict, reply>>
    BY <1>24 DEF QueueForConnection, facts
  <2> QED
    BY <2>1 DEF facts, Inv, Counts, Tickets, ReachedComplete, StatusTrue, CallTrue,
       HasRow, Undeliverable
<1>25. ASSUME NEW h \in Handlers, LockConnectionLost(h) PROVE Inv'
  <2>1. UNCHANGED facts /\ UNCHANGED <<pc, call, verdict, reply>>
    BY <1>25 DEF LockConnectionLost, facts
  <2> QED
    BY <2>1 DEF facts, Inv, Counts, Tickets, ReachedComplete, StatusTrue, CallTrue,
       HasRow, Undeliverable
<1>26. ASSUME NEW r \in RequestIds, RequestGoesStale(r) PROVE Inv'
  <2>1. UNCHANGED facts /\ UNCHANGED <<pc, call, verdict, reply>>
    BY <1>26 DEF RequestGoesStale, facts
  <2> QED
    BY <2>1 DEF facts, Inv, Counts, Tickets, ReachedComplete, StatusTrue, CallTrue,
       HasRow, Undeliverable
<1>27. ASSUME NEW r \in RequestIds, WorldAccepts(r) PROVE Inv'
  <2>1. /\ posted[r] > 0
        /\ posted' = [posted EXCEPT ![r] = @ - 1]
        /\ unsaved' = [unsaved EXCEPT ![r] = @ + 1]
        /\ UNCHANGED <<pc, call, verdict, status, row, level, reached, changed, issued>>
        /\ \A h \in Handlers : reply'[h] \in {reply[h], "accepted"}
    BY <1>27 DEF WorldAccepts, ReplyToWaiting
  <2>2. posted[r] = 1 /\ unsaved[r] = 0 /\ issued[r] = 1 /\ r \notin changed
    BY <2>1, PostedIsAlone
  <2>3. KnowledgeKept
    BY <2>1, <2>2 DEF KnowledgeKept, Undeliverable, Inv, TypeInv, TypeOK
  <2>4. Counts' /\ ReachedComplete' /\ StatusTrue'
    BY <2>1, <2>2, <2>3 DEF Inv, Counts, ReachedComplete, StatusTrue, KnowledgeKept,
       TypeInv, TypeOK
  <2>5. \A h \in Handlers : CallTrue(h)'
    <3> TAKE h \in Handlers
    <3>1. CASE reply'[h] = reply[h]
      BY <2>1, <2>3, <3>1, StaysTrue DEF SlotUnchanged, Inv
    <3>2. CASE reply'[h] # reply[h]
      <4>1. pc[h] = "awaiting" /\ reply'[h] = "accepted"
        BY <1>27, <3>2 DEF WorldAccepts, ReplyToWaiting
      <4>2. call[h].request \in RequestIds
        BY <4>1, CallFields DEF Inv, TypeInv, CallsKnown
      <4> QED
        BY <2>1, <2>3, <4>1, <4>2 DEF Inv, CallTrue, HasRow, KnowledgeKept
    <3> QED
      BY <3>1, <3>2
  <2> QED
    BY <2>1, <2>3, <2>4, <2>5, WorldStep
<1>28. ASSUME NEW r \in RequestIds, WorldRejects(r) PROVE Inv'
  <2>1. /\ posted[r] > 0
        /\ posted' = [posted EXCEPT ![r] = @ - 1]
        /\ UNCHANGED <<pc, call, verdict, status, row, level, unsaved, reached,
                       changed, issued>>
    BY <1>28 DEF WorldRejects, ReplyToWaiting
  <2>2. posted[r] = 1 /\ unsaved[r] = 0 /\ issued[r] = 1 /\ r \notin changed
    BY <2>1, PostedIsAlone
  <2>3. KnowledgeKept /\ Undeliverable(r)'
    BY <2>1, <2>2 DEF KnowledgeKept, Undeliverable, Inv, TypeInv, TypeOK
  <2>4. Counts' /\ ReachedComplete' /\ StatusTrue'
    BY <2>1, <2>2, <2>3 DEF Inv, Counts, ReachedComplete, StatusTrue, KnowledgeKept,
       TypeInv, TypeOK
  <2>5. \A h \in Handlers : CallTrue(h)'
    <3> TAKE h \in Handlers
    <3>1. CASE reply'[h] = reply[h]
      BY <2>1, <2>3, <3>1, StaysTrue DEF SlotUnchanged, Inv
    <3>2. CASE reply'[h] # reply[h]
      <4>1. pc[h] = "awaiting" /\ call[h].request = r
        BY <1>28, <3>2 DEF WorldRejects, ReplyToWaiting
      <4> QED
        BY <2>1, <2>3, <4>1 DEF Inv, CallTrue, HasRow, KnowledgeKept
    <3> QED
      BY <3>1, <3>2
  <2> QED
    BY <2>1, <2>3, <2>4, <2>5, WorldStep
<1>29. ASSUME NEW r \in RequestIds, WorldWrites(r) PROVE Inv'
  <2>1. /\ unsaved[r] > 0
        /\ unsaved' = [unsaved EXCEPT ![r] = @ - 1]
        /\ SetLevel(row[r].character, row[r].target)
        /\ changed' = changed \cup {r}
        /\ UNCHANGED <<pc, call, verdict, reply, status, row, posted, issued>>
    BY <1>29 DEF WorldWrites
  <2>2. posted[r] = 0 /\ unsaved[r] = 1 /\ issued[r] = 1 /\ status[r] # "absent"
    BY <2>1, UnsavedIsAlone
  <2>3. KnowledgeKept
    BY <2>1, <2>2 DEF KnowledgeKept, Undeliverable, SetLevel, Inv, TypeInv, TypeOK
  <2>4. Counts'
    BY <2>1, <2>2 DEF Inv, Counts, TypeInv, TypeOK
  <2>5. row[r].character \in Characters /\ row[r] \in Rows
    BY <2>2, RowFields DEF Inv, TypeInv, RowsKnown
  <2>6. ReachedComplete'
    BY <2>1, <2>5, SetLevelComplete DEF Inv
  <2>7. StatusTrue'
    BY <2>1, <2>3 DEF Inv, StatusTrue, KnowledgeKept
  <2>8. \A h \in Handlers : CallTrue(h)'
    BY <2>1, <2>3, StaysTrue DEF SlotUnchanged, Inv
  <2> QED
    BY <2>1, <2>3, <2>4, <2>6, <2>7, <2>8, WorldStep
<1>30. ASSUME NEW c \in Characters, PlayerGainsLevel(c) PROVE Inv'
  <2>1. /\ SetLevel(c, level[c] + 1)
        /\ UNCHANGED <<pc, call, verdict, reply, status, row, posted, unsaved,
                       changed, issued>>
    BY <1>30 DEF PlayerGainsLevel
  <2>3. KnowledgeKept
    BY <2>1 DEF KnowledgeKept, Undeliverable, SetLevel
  <2>4. Counts'
    BY <2>1 DEF Inv, Counts
  <2>6. ReachedComplete'
    BY <2>1, SetLevelComplete DEF Inv
  <2>7. StatusTrue'
    BY <2>1, <2>3 DEF Inv, StatusTrue, KnowledgeKept
  <2>8. \A h \in Handlers : CallTrue(h)'
    BY <2>1, <2>3, StaysTrue DEF SlotUnchanged, Inv
  <2> QED
    BY <2>1, <2>3, <2>4, <2>6, <2>7, <2>8, WorldStep
<1>31. CASE Crash
  <2>1. UNCHANGED facts
    BY <1>31 DEF Crash, facts
  <2>2. \A h \in Handlers : pc'[h] = "idle" /\ reply'[h] = "none" /\ verdict'[h] = "none"
    BY <1>31 DEF Crash
  <2> QED
    BY <2>1, <2>2 DEF facts, Inv, Counts, Tickets, ReachedComplete, StatusTrue,
       CallTrue, Undeliverable
<1>32. CASE UNCHANGED vars
  BY <1>32 DEF vars, Inv, Counts, Tickets, ReachedComplete, StatusTrue, CallTrue,
     HasRow, Undeliverable
<1> QED
  BY <1>1, <1>2, <1>3, <1>4, <1>5, <1>6, <1>7, <1>8, <1>9, <1>10, <1>11, <1>12, <1>13, <1>14, <1>15, <1>16,
     <1>17, <1>18, <1>19, <1>20, <1>21, <1>22, <1>23, <1>24, <1>25, <1>26, <1>27, <1>28, <1>29, <1>30, <1>31, <1>32
  DEF Next, HandlerStep

LEMMA SpecInv == Spec => []Inv
<1>1. Inv => TypeInv
  BY DEF Inv
<1> QED
  BY <1>1, InitInv, NextInv, NextTypeInv, PTL DEF Spec

\* At most one "character level" command is ever posted for a request ID, even
\* if the character lock is lost under the call that posted it.
THEOREM AtMostOneCommandCorrect == Spec => []AtMostOneCommand
<1>1. Inv => AtMostOneCommand
  BY DEF Inv, Counts, AtMostOneCommand
<1> QED
  BY <1>1, SpecInv, PTL

\* An "applied" row names a level the table showed; a "failed" row changed no
\* level and never will.
THEOREM LedgerTruthfulCorrect == Spec => []LedgerTruthful
<1>1. Inv => LedgerTruthful
  BY DEF Inv, StatusTrue, Undeliverable, LedgerTruthful
<1> QED
  BY <1>1, SpecInv, PTL

-----------------------------------------------------------------------------
(* What callers were told.                                                 *)

\* Where a call works under the lock of its character, and from where on its
\* own row must still be open.
UnderLock == {"character", "find", "reserve", "requestLock", "insert",
              "command", "awaiting", "confirm", "mark"}
Settling == {"command", "awaiting", "confirm", "mark"}

\* A call whose lock was not lost has it, and no other call has it too.
LockHeld ==
    \A h \in Handlers : pc[h] \in UnderLock /\ call[h].character \notin cut
                            => h \in characterLock[call[h].character]
OneHolder ==
    \A c \in Characters : \A g, h \in Handlers :
        g \in characterLock[c] /\ h \in characterLock[c] => g = h

\* Nobody settles the row of a request before the call that is about to.
RowOpen ==
    \A h \in Handlers :
        pc[h] \in Settling /\ call[h].kind = "request" /\ call[h].character \notin cut
            => status[call[h].request] \in {"pending", "unknown"}

AInv == LockHeld /\ OneHolder /\ RowOpen /\ AnswersMatchLedger

LEMMA InitAInv == Init => AInv
  BY DEF Init, AInv, LockHeld, OneHolder, RowOpen, AnswersMatchLedger, UnderLock, Settling

\* Everybody but h stays where it is.
OthersStay(h) == \A g \in Handlers \ {h} : pc'[g] = pc[g] /\ call'[g] = call[g]

ledger == <<status, row, answered, cut>>

\* A step of one call that touches neither its lock nor the table, and enters
\* neither the lock nor the part that settles.
LEMMA QuietStep ==
    ASSUME AInv, NEW h \in Handlers, OthersStay(h), UNCHANGED <<characterLock, ledger>>,
           pc'[h] \in UnderLock => pc[h] \in UnderLock /\ call'[h] = call[h],
           pc'[h] \in Settling /\ call'[h].kind = "request" => pc[h] \in Settling
    PROVE  AInv'
<1>1. AnswersMatchLedger' /\ OneHolder'
  BY DEF AInv, AnswersMatchLedger, OneHolder, ledger
<1>2. LockHeld'
  BY DEF AInv, LockHeld, OthersStay, ledger
<1>3. RowOpen'
  BY DEF AInv, RowOpen, OthersStay, ledger, UnderLock, Settling
<1> QED
  BY <1>1, <1>2, <1>3 DEF AInv

\* A step of the game server or the clock.
LEMMA OutsideStep ==
    ASSUME AInv, UNCHANGED <<pc, call, characterLock, ledger>>
    PROVE  AInv'
  BY DEF AInv, LockHeld, OneHolder, RowOpen, AnswersMatchLedger, ledger

\* Two calls that both have the lock of a row settle it one after the other.
LEMMA SettlesAlone ==
    ASSUME Inv, AInv, NEW g \in Handlers, NEW h \in Handlers,
           pc[g] \in Settling, pc[h] \in Settling, call[g].request = call[h].request,
           call[g].character \notin cut
    PROVE  g = h
<1>1. HasRow(call[g]) /\ HasRow(call[h])
  BY DEF Inv, CallTrue, Settling
<1>2. call[g].character = call[h].character
  BY <1>1 DEF HasRow
<1>3. call[g].character \in Characters
  BY CallFields DEF Inv, TypeInv, CallsKnown, Settling
<1>4. /\ g \in characterLock[call[g].character]
      /\ h \in characterLock[call[g].character]
  BY <1>2 DEF AInv, LockHeld, UnderLock, Settling
<1> QED
  BY <1>3, <1>4 DEF AInv, OneHolder

\* A settled row stays, and the answers already given stay right.
LEMMA OldAnswers ==
    ASSUME AnswersMatchLedger, UNCHANGED cut,
           NEW r \in RequestIds, NEW t \in answered[r], t.character \notin cut,
           status[r] # "absent" => status'[r] # "absent" /\ row'[r] = row[r],
           status[r] \in {"applied", "failed"} => status'[r] = status[r],
           status'[r] = "pending" => status[r] \in {"pending", "absent"}
    PROVE  /\ status'[r] # "absent"
           /\ t.character = row'[r].character /\ t.target = row'[r].target
           /\ t.outcome \in {"applied", "failed"} => status'[r] = t.outcome
           /\ t.outcome = "unknown" => status'[r] # "pending"
  BY DEF AnswersMatchLedger

\* The INSERT opens a row that nobody works on.
LEMMA InsertAnswers ==
    ASSUME Inv, AInv, NEW h \in Handlers, InsertRow(h), OthersStay(h),
           UNCHANGED <<characterLock, answered, cut>>,
           \/ pc'[h] = "unlock"
           \/ pc'[h] = "command" /\ call'[h] = call[h]
    PROVE  AInv'
<1> DEFINE r == call[h].request
<1>1. r \in RequestIds /\ pc[h] = "insert" /\ status[r] = "absent"
  BY CallFields DEF Inv, TypeInv, CallsKnown, InsertRow
<1>2. /\ \A x \in RequestIds \ {r} : status'[x] = status[x] /\ row'[x] = row[x]
      /\ status'[r] = "pending"
  BY <1>1 DEF Inv, TypeInv, TypeOK, InsertRow
<1>3. LockHeld' /\ OneHolder'
  BY <1>1 DEF AInv, LockHeld, OneHolder, OthersStay, UnderLock
<1>4. RowOpen'
  <2> SUFFICES ASSUME NEW g \in Handlers, pc'[g] \in Settling, call'[g].kind = "request",
                      call'[g].character \notin cut
               PROVE  status'[call'[g].request] \in {"pending", "unknown"}
    BY DEF RowOpen
  <2>1. CASE g = h
    BY <1>2, <2>1 DEF Settling
  <2>2. CASE g # h
    <3>1. pc[g] \in Settling /\ call'[g] = call[g]
      BY <2>2 DEF OthersStay
    <3>2. HasRow(call[g]) /\ call[g].request \in RequestIds
      BY <3>1, CallFields DEF Inv, CallTrue, TypeInv, CallsKnown, Settling
    <3>3. call[g].request # r
      BY <1>1, <3>2 DEF HasRow
    <3>4. status[call[g].request] \in {"pending", "unknown"}
      BY <3>1 DEF AInv, RowOpen
    <3> HIDE DEF r
    <3> QED
      BY <1>2, <3>1, <3>2, <3>3, <3>4
  <2> QED
    BY <2>1, <2>2
<1>5. AnswersMatchLedger'
  <2> SUFFICES ASSUME NEW x \in RequestIds, NEW t \in answered[x], t.character \notin cut
               PROVE  /\ status'[x] # "absent"
                      /\ t.character = row'[x].character /\ t.target = row'[x].target
                      /\ t.outcome \in {"applied", "failed"} => status'[x] = t.outcome
                      /\ t.outcome = "unknown" => status'[x] # "pending"
    BY DEF AnswersMatchLedger
  <2> HIDE DEF r
  <2> QED
    BY <1>1, <1>2, OldAnswers DEF AInv
<1> QED
  BY <1>3, <1>4, <1>5 DEF AInv

\* The UPDATE of mark, whether its acknowledgement arrives or not.
LEMMA MarkAnswers ==
    ASSUME Inv, AInv, NEW h \in Handlers, pc[h] = "mark", pc'[h] = "unlock",
           SetStatus(call[h].request, verdict[h]), OthersStay(h),
           UNCHANGED <<characterLock, row, cut>>,
           \/ UNCHANGED answered
           \/ call[h].kind = "request" /\ Answer(call[h], verdict[h])
    PROVE  AInv'
<1> DEFINE r == call[h].request
<1>1. /\ r \in RequestIds /\ verdict[h] \in {"applied", "failed", "unknown"}
      /\ HasRow(call[h]) /\ call[h] \in Calls
  BY CallFields DEF Inv, TypeInv, TypeOK, CallsKnown, Verdicts, CallTrue
<1>2. /\ \A x \in RequestIds \ {r} : status'[x] = status[x]
      /\ status'[r] = IF status[r] \in {"pending", "unknown"} THEN verdict[h] ELSE status[r]
  BY <1>1 DEF SetStatus, Markable, Inv, TypeInv, TypeOK
<1>3. LockHeld' /\ OneHolder'
  BY DEF AInv, LockHeld, OneHolder, OthersStay, UnderLock
<1>4. RowOpen'
  <2> SUFFICES ASSUME NEW g \in Handlers, pc'[g] \in Settling, call'[g].kind = "request",
                      call'[g].character \notin cut
               PROVE  status'[call'[g].request] \in {"pending", "unknown"}
    BY DEF RowOpen
  <2>1. g # h
    BY DEF Settling
  <2>2. pc[g] \in Settling /\ call'[g] = call[g]
    BY <2>1 DEF OthersStay
  <2>3. call[g].request # r
    BY <2>1, <2>2, SettlesAlone DEF Settling
  <2>4. call[g].request \in RequestIds
    BY <2>2, CallFields DEF Inv, TypeInv, CallsKnown, Settling
  <2>5. status[call[g].request] \in {"pending", "unknown"}
    BY <2>2 DEF AInv, RowOpen
  <2> HIDE DEF r
  <2> QED
    BY <1>2, <2>2, <2>3, <2>4, <2>5
<1>5. AnswersMatchLedger'
  <2> SUFFICES ASSUME NEW x \in RequestIds, NEW t \in answered'[x], t.character \notin cut
               PROVE  /\ status'[x] # "absent"
                      /\ t.character = row[x].character /\ t.target = row[x].target
                      /\ t.outcome \in {"applied", "failed"} => status'[x] = t.outcome
                      /\ t.outcome = "unknown" => status'[x] # "pending"
    BY DEF AnswersMatchLedger
  <2>1. CASE t \in answered[x]
    <3> HIDE DEF r
    <3> QED
      BY <1>1, <1>2, <2>1, OldAnswers DEF AInv
  <2>2. CASE t \notin answered[x]
    <3>1. /\ x = r /\ call[h].kind = "request"
          /\ t = [character |-> call[h].character, target |-> call[h].target,
                  outcome |-> verdict[h]]
      BY <1>1, <2>2 DEF Answer, Inv, TypeInv, TypeOK
    <3>2. status[r] \in {"pending", "unknown"}
      BY <3>1 DEF AInv, RowOpen, Settling
    <3>3. status'[x] = verdict[h]
      BY <1>2, <3>1, <3>2
    <3> QED
      BY <1>1, <3>1, <3>3 DEF HasRow
  <2> QED
    BY <2>1, <2>2
<1> QED
  BY <1>3, <1>4, <1>5 DEF AInv

\* What handleExisting does with a row it finds.
LEMMA ExistingAnswers ==
    ASSUME Inv, AInv, NEW h \in Handlers, pc[h] \in {"find", "insert"}, HandleExisting(h),
           status[call[h].request] # "absent",
           UNCHANGED <<characterLock, status, row, cut>>
    PROVE  AInv'
<1> DEFINE r == call[h].request
<1>1. r \in RequestIds
  BY CallFields DEF Inv, TypeInv, CallsKnown
<1>2. /\ OthersStay(h) /\ call' = call
      /\ pc'[h] = "unlock" \/ pc'[h] = "confirm"
  BY DEF HandleExisting, Leave, Goto, ResumesAt, OthersStay, Inv, TypeInv, TypeOK
<1>3. LockHeld' /\ OneHolder'
  BY <1>2 DEF AInv, LockHeld, OneHolder, OthersStay, UnderLock
<1>4. pc'[h] = "confirm" => status[r] \in {"pending", "unknown"}
  BY DEF HandleExisting, Leave, Goto, Inv, TypeInv, TypeOK
<1>5. RowOpen'
  BY <1>2, <1>4 DEF AInv, RowOpen, OthersStay, Settling
<1>6. \/ UNCHANGED answered
      \/ /\ SameDetails(call[h], r) /\ status[r] \in {"applied", "failed"}
         /\ Answer(call[h], status[r])
  BY DEF HandleExisting, IsRefused
<1>7. AnswersMatchLedger'
  <2> SUFFICES ASSUME NEW x \in RequestIds, NEW t \in answered'[x], t.character \notin cut
               PROVE  /\ status[x] # "absent"
                      /\ t.character = row[x].character /\ t.target = row[x].target
                      /\ t.outcome \in {"applied", "failed"} => status[x] = t.outcome
                      /\ t.outcome = "unknown" => status[x] # "pending"
    BY DEF AnswersMatchLedger
  <2>1. CASE t \in answered[x]
    BY <2>1 DEF AInv, AnswersMatchLedger
  <2>2. CASE t \notin answered[x]
    <3>1. /\ x = r /\ SameDetails(call[h], r) /\ status[r] \in {"applied", "failed"}
          /\ t = [character |-> call[h].character, target |-> call[h].target,
                  outcome |-> status[r]]
      BY <1>1, <1>6, <2>2 DEF Answer, Inv, TypeInv, TypeOK
    <3> QED
      BY <3>1 DEF SameDetails
  <2> QED
    BY <2>1, <2>2
<1> QED
  BY <1>3, <1>5, <1>7 DEF AInv

\* How a call that fails or goes on leaves the lock.
LEMMA ThrowLeaves ==
    ASSUME TypeInv, NEW h \in Handlers, Throw(h)
    PROVE  OthersStay(h) /\ pc'[h] \in {"idle", "unlock"}
  BY DEF Throw, Return, Goto, OthersStay, TypeInv, TypeOK

LEMMA ProceedLeaves ==
    ASSUME TypeInv, NEW h \in Handlers, NEW rows, Proceed(h, rows)
    PROVE  OthersStay(h) /\ pc'[h] \in {"idle", "connect"}
  BY DEF Proceed, Return, Goto, OthersStay, TypeInv, TypeOK

\* Giving the lock of a character back takes it from no other call.
LEMMA ReleasedFrom ==
    ASSUME TypeInv, NEW h \in Handlers, NEW c,
           characterLock' \in {Released(characterLock, c, h), Kept(characterLock, c, h)}
    PROVE  \A d \in Characters :
              /\ \A g \in Handlers : g \in characterLock'[d] => g \in characterLock[d]
              /\ \A g \in Handlers \ {h} : g \in characterLock[d] => g \in characterLock'[d]
              /\ d # c /\ h \in characterLock[d] => h \in characterLock'[d]
<1>1. IdleConnection \notin Handlers
  BY NullAssumption
<1>2. CASE characterLock' = Released(characterLock, c, h)
  BY <1>2 DEF Released, TypeInv, TypeOK
<1>3. CASE characterLock' = Kept(characterLock, c, h)
  BY <1>1, <1>3 DEF Kept, TypeInv, TypeOK
<1> QED
  BY <1>2, <1>3

LEMMA UnlockAnswers ==
    ASSUME Inv, AInv, NEW h \in Handlers, NEW c, OthersStay(h),
           characterLock' \in {Released(characterLock, c, h), Kept(characterLock, c, h)},
           pc'[h] \notin UnderLock, UNCHANGED ledger
    PROVE  AInv'
<1>1. \A d \in Characters :
          /\ \A g \in Handlers : g \in characterLock'[d] => g \in characterLock[d]
          /\ \A g \in Handlers \ {h} : g \in characterLock[d] => g \in characterLock'[d]
  BY ReleasedFrom DEF Inv
<1>2. OneHolder'
  BY <1>1 DEF AInv, OneHolder
<1>3. LockHeld'
  <2> SUFFICES ASSUME NEW g \in Handlers, pc'[g] \in UnderLock, call'[g].character \notin cut
               PROVE  g \in characterLock'[call'[g].character]
    BY DEF LockHeld, ledger
  <2>1. g # h /\ pc[g] \in UnderLock /\ call'[g] = call[g]
    BY DEF OthersStay
  <2>2. call[g].character \in Characters
    BY <2>1, CallFields DEF Inv, TypeInv, CallsKnown, UnderLock
  <2> QED
    BY <1>1, <2>1, <2>2 DEF AInv, LockHeld
<1>4. RowOpen' /\ AnswersMatchLedger'
  BY DEF AInv, RowOpen, AnswersMatchLedger, OthersStay, ledger, UnderLock, Settling
<1> QED
  BY <1>2, <1>3, <1>4 DEF AInv

LEMMA NextAInv == Inv /\ AInv /\ [Next]_vars => AInv'
<1> SUFFICES ASSUME Inv, AInv, [Next]_vars PROVE AInv'
  OBVIOUS
<1> USE DEF table, locks, calls, world, history
<1>1. ASSUME NEW h \in Handlers, NEW c \in Requests, RequestCharacterLevel(h, c) PROVE AInv'
  <2>1. UNCHANGED <<characterLock, ledger>> /\ OthersStay(h) /\ pc'[h] = "connect"
    BY <1>1 DEF RequestCharacterLevel, Goto, ledger, OthersStay, Inv, TypeInv, TypeOK
  <2> QED
    BY <2>1, QuietStep DEF UnderLock, Settling
<1>2. ASSUME NEW h \in Handlers, GetMetadata(h) PROVE AInv'
  <2>1. UNCHANGED <<characterLock, ledger>> /\ OthersStay(h) /\ pc'[h] = "stale"
    BY <1>2 DEF GetMetadata, Goto, ledger, OthersStay, Inv, TypeInv, TypeOK
  <2> QED
    BY <2>1, QuietStep DEF UnderLock, Settling
<1>3. ASSUME NEW h \in Handlers, Connect(h) PROVE AInv'
  <2>1. UNCHANGED <<characterLock, ledger>> /\ OthersStay(h) /\ pc'[h] = "characterLock"
    BY <1>3 DEF Connect, Goto, ledger, OthersStay, Inv, TypeInv, TypeOK
  <2> QED
    BY <2>1, QuietStep DEF UnderLock, Settling
<1>4. ASSUME NEW h \in Handlers, AcquireCharacterLock(h) PROVE AInv'
  <2> DEFINE c == call[h].character
  <2>1. c \in Characters
    BY <1>4, CallFields DEF AcquireCharacterLock, Inv, TypeInv, CallsKnown
  <2>2. /\ characterLock[c] \subseteq {IdleConnection}
        /\ characterLock' = [characterLock EXCEPT ![c] = @ \cup {h}]
        /\ UNCHANGED ledger /\ OthersStay(h) /\ pc'[h] = "character" /\ call' = call
    BY <1>4 DEF AcquireCharacterLock, Available, Goto, ledger, OthersStay, Inv, TypeInv, TypeOK
  <2> HIDE DEF c
  <2>3. /\ characterLock'[c] = characterLock[c] \cup {h}
        /\ \A d \in Characters \ {c} : characterLock'[d] = characterLock[d]
    BY <2>1, <2>2 DEF Inv, TypeInv, TypeOK
  <2>4. OneHolder'
    BY <2>2, <2>3, NullAssumption DEF AInv, OneHolder
  <2>5. LockHeld'
    <3> SUFFICES ASSUME NEW g \in Handlers, pc'[g] \in UnderLock, call'[g].character \notin cut
                 PROVE  g \in characterLock'[call'[g].character]
      BY <2>2 DEF LockHeld, ledger
    <3>1. CASE g = h
      BY <2>2, <2>3, <3>1 DEF c
    <3>2. CASE g # h
      <4>1. pc[g] \in UnderLock /\ call'[g] = call[g]
        BY <2>2, <3>2 DEF OthersStay
      <4>2. g \in characterLock[call[g].character] /\ call[g].character \in Characters
        BY <4>1, CallFields DEF AInv, LockHeld, Inv, TypeInv, CallsKnown, UnderLock
      <4> QED
        BY <2>3, <4>1, <4>2
    <3> QED
      BY <3>1, <3>2
  <2>6. RowOpen' /\ AnswersMatchLedger'
    BY <2>2 DEF AInv, RowOpen, AnswersMatchLedger, OthersStay, ledger, Settling
  <2> QED
    BY <2>4, <2>5, <2>6 DEF AInv
<1>5. ASSUME NEW h \in Handlers, ReadCharacter(h) PROVE AInv'
  <2>1. /\ UNCHANGED <<characterLock, ledger>> /\ OthersStay(h) /\ pc[h] = "character"
        /\ pc'[h] = "find" /\ call' = call
    BY <1>5 DEF ReadCharacter, Goto, ledger, OthersStay, Inv, TypeInv, TypeOK
  <2> QED
    BY <2>1, QuietStep DEF UnderLock, Settling
<1>6. ASSUME NEW h \in Handlers, Reserve(h) PROVE AInv'
  <2>1. /\ UNCHANGED <<characterLock, ledger>> /\ OthersStay(h) /\ pc[h] = "reserve"
        /\ pc'[h] = "requestLock" /\ call' = call
    BY <1>6 DEF Reserve, Goto, ledger, OthersStay, Inv, TypeInv, TypeOK
  <2> QED
    BY <2>1, QuietStep DEF UnderLock, Settling
<1>7. ASSUME NEW h \in Handlers, AcquireRequestLock(h) PROVE AInv'
  <2>1. /\ UNCHANGED <<characterLock, ledger>> /\ OthersStay(h) /\ pc[h] = "requestLock"
        /\ pc'[h] = "insert" /\ call' = call
    BY <1>7 DEF AcquireRequestLock, Goto, ledger, OthersStay, Inv, TypeInv, TypeOK
  <2> QED
    BY <2>1, QuietStep DEF UnderLock, Settling
<1>8. ASSUME NEW h \in Handlers, ReceiveReply(h) PROVE AInv'
  <2>1. /\ UNCHANGED <<characterLock, ledger>> /\ OthersStay(h) /\ pc[h] = "awaiting"
        /\ call' = call
    BY <1>8 DEF ReceiveReply, Goto, ledger, OthersStay, Inv, TypeInv, TypeOK
  <2> QED
    BY <2>1, QuietStep DEF UnderLock, Settling
<1>9. ASSUME NEW h \in Handlers, ReplyUnusable(h) PROVE AInv'
  <2>1. /\ UNCHANGED <<characterLock, ledger>> /\ OthersStay(h) /\ pc[h] = "awaiting"
        /\ call' = call
    BY <1>9 DEF ReplyUnusable, Goto, ledger, OthersStay, Inv, TypeInv, TypeOK
  <2> QED
    BY <2>1, QuietStep DEF UnderLock, Settling
<1>10. ASSUME NEW h \in Handlers, LockTimeout(h) PROVE AInv'
  <2>1. UNCHANGED <<characterLock, ledger>> /\ Throw(h)
    BY <1>10 DEF LockTimeout, ledger
  <2> QED
    BY <2>1, ThrowLeaves, QuietStep DEF Inv, UnderLock, Settling
<1>11. ASSUME NEW h \in Handlers, StatementFails(h) PROVE AInv'
  <2>1. UNCHANGED <<characterLock, ledger>>
    BY <1>11 DEF StatementFails, ledger
  <2>2. CASE Throw(h)
    BY <2>1, <2>2, ThrowLeaves, QuietStep DEF Inv, UnderLock, Settling
  <2>3. CASE ReadIsCaught(h) /\ Goto(h, "mark") /\ UNCHANGED call
    <3>1. /\ OthersStay(h) /\ pc[h] \in {"confirm", "character"}
          /\ pc[h] = "character" => call[h].kind = "settle"
      BY <2>3 DEF ReadIsCaught, Goto, OthersStay, Inv, TypeInv, TypeOK
    <3> QED
      BY <2>1, <2>3, <3>1, QuietStep DEF UnderLock, Settling
  <2> QED
    BY <1>11, <2>2, <2>3 DEF StatementFails
<1>12. ASSUME NEW h \in Handlers, Unlock(h) PROVE AInv'
  <2>1. /\ Proceed(h, batch[h]) /\ UNCHANGED ledger
        /\ characterLock' = Released(characterLock, call[h].character, h)
    BY <1>12 DEF Unlock, ledger
  <2> QED
    BY <2>1, ProceedLeaves, UnlockAnswers DEF Inv, UnderLock
<1>13. ASSUME NEW h \in Handlers, UnlockFails(h) PROVE AInv'
  <2>1. /\ Proceed(h, batch[h]) /\ UNCHANGED ledger
        /\ characterLock' = Kept(characterLock, call[h].character, h)
    BY <1>13 DEF UnlockFails, ledger
  <2> QED
    BY <2>1, ProceedLeaves, UnlockAnswers DEF Inv, UnderLock
<1>14. ASSUME NEW h \in Handlers, FindStalePending(h) PROVE AInv'
  <2>1. UNCHANGED <<characterLock, ledger>> /\ \E rows : Proceed(h, rows)
    BY <1>14 DEF FindStalePending, ledger
  <2> QED
    BY <2>1, ProceedLeaves, QuietStep DEF Inv, UnderLock, Settling
<1>15. ASSUME NEW h \in Handlers, Find(h) PROVE AInv'
  <2>1. UNCHANGED <<characterLock, status, row, cut>> /\ pc[h] = "find"
    BY <1>15 DEF Find
  <2>2. CASE status[call[h].request] # "absent" /\ HandleExisting(h)
    BY <2>1, <2>2, ExistingAnswers
  <2>3. CASE /\ Goto(h, IF MayRaise(h) THEN "reserve" ELSE "unlock")
             /\ UNCHANGED <<call, answered>>
    <3>1. OthersStay(h) /\ pc'[h] \in {"reserve", "unlock"}
      BY <2>3 DEF Goto, OthersStay, Inv, TypeInv, TypeOK
    <3> QED
      BY <2>1, <2>3, <3>1, QuietStep DEF ledger, UnderLock, Settling
  <2> QED
    BY <1>15, <2>2, <2>3 DEF Find
<1>16. ASSUME NEW h \in Handlers, FindsRow(h) PROVE AInv'
  BY <1>16, ExistingAnswers DEF FindsRow
<1>17. ASSUME NEW h \in Handlers, ConfirmLevel(h) PROVE AInv'
  <2>1. /\ UNCHANGED <<characterLock, ledger>> /\ OthersStay(h) /\ pc[h] = "confirm"
        /\ call' = call
    BY <1>17 DEF ConfirmLevel, Goto, ledger, OthersStay, Inv, TypeInv, TypeOK
  <2> QED
    BY <2>1, QuietStep DEF UnderLock, Settling
<1>18. ASSUME NEW h \in Handlers, ReadStaleLevel(h) PROVE AInv'
  <2>1. /\ UNCHANGED <<characterLock, ledger>> /\ OthersStay(h) /\ pc[h] = "character"
        /\ call[h].kind = "settle" /\ call' = call
    BY <1>18 DEF ReadStaleLevel, Goto, ledger, OthersStay, Inv, TypeInv, TypeOK
  <2> QED
    BY <2>1, QuietStep DEF UnderLock, Settling
<1>19. ASSUME NEW h \in Handlers, Mark(h) PROVE AInv'
  <2>1. /\ pc[h] = "mark" /\ pc'[h] = "unlock" /\ OthersStay(h)
        /\ SetStatus(call[h].request, verdict[h])
        /\ UNCHANGED <<characterLock, row, cut>>
        /\ \/ UNCHANGED answered
           \/ call[h].kind = "request" /\ Answer(call[h], verdict[h])
    BY <1>19 DEF Mark, Leave, Goto, OthersStay, Inv, TypeInv, TypeOK
  <2> QED
    BY <2>1, MarkAnswers
<1>20. ASSUME NEW h \in Handlers, MarkUnacknowledged(h) PROVE AInv'
  <2>1. /\ pc[h] = "mark" /\ SetStatus(call[h].request, verdict[h])
        /\ UNCHANGED <<characterLock, row, cut, answered>> /\ Throw(h)
    BY <1>20 DEF MarkUnacknowledged
  <2>2. pc'[h] = "unlock" /\ OthersStay(h)
    BY <2>1 DEF Throw, Goto, AsksWithNone, OthersStay, Inv, TypeInv, TypeOK
  <2> QED
    BY <2>1, <2>2, MarkAnswers
<1>21. ASSUME NEW h \in Handlers, InsertPending(h) PROVE AInv'
  <2>1. /\ InsertRow(h) /\ UNCHANGED <<characterLock, answered, cut>>
        /\ OthersStay(h) /\ pc'[h] = "command" /\ call' = call
    BY <1>21 DEF InsertPending, Goto, OthersStay, Inv, TypeInv, TypeOK
  <2> QED
    BY <2>1, InsertAnswers
<1>22. ASSUME NEW h \in Handlers, CommitUnacknowledged(h) PROVE AInv'
  <2>1. /\ InsertRow(h) /\ UNCHANGED <<characterLock, answered, cut>> /\ Throw(h)
    BY <1>22 DEF CommitUnacknowledged
  <2>2. pc'[h] = "unlock" /\ OthersStay(h)
    BY <2>1 DEF InsertRow, Throw, Goto, AsksWithNone, OthersStay, Inv, TypeInv, TypeOK
  <2> QED
    BY <2>1, <2>2, InsertAnswers
<1>23. ASSUME NEW h \in Handlers, ExecuteCommand(h) PROVE AInv'
  <2>1. /\ UNCHANGED <<characterLock, ledger>> /\ OthersStay(h) /\ pc[h] = "command"
        /\ call' = call
    BY <1>23 DEF ExecuteCommand, Goto, ledger, OthersStay, Inv, TypeInv, TypeOK
  <2> QED
    BY <2>1, QuietStep DEF UnderLock, Settling
<1>24. ASSUME NEW h \in Handlers, LockConnectionLost(h) PROVE AInv'
  <2> DEFINE c == call[h].character
  <2>1. /\ characterLock' = Released(characterLock, c, h) /\ cut' = cut \cup {c}
        /\ UNCHANGED <<pc, call, status, row, answered>>
    BY <1>24 DEF LockConnectionLost
  <2> HIDE DEF c
  <2>2. \A d \in Characters :
            /\ \A g \in Handlers : g \in characterLock'[d] => g \in characterLock[d]
            /\ \A g \in Handlers \ {h} : g \in characterLock[d] => g \in characterLock'[d]
            /\ d # c /\ h \in characterLock[d] => h \in characterLock'[d]
    BY <2>1, ReleasedFrom DEF Inv
  <2>3. OneHolder'
    BY <2>2 DEF AInv, OneHolder
  <2>4. LockHeld'
    <3> SUFFICES ASSUME NEW g \in Handlers, pc[g] \in UnderLock,
                        call[g].character \notin cut, call[g].character # c
                 PROVE  g \in characterLock'[call[g].character]
      BY <2>1 DEF LockHeld
    <3>1. call[g].character \in Characters /\ g \in characterLock[call[g].character]
      BY CallFields DEF AInv, LockHeld, Inv, TypeInv, CallsKnown, UnderLock
    <3> QED
      BY <2>2, <3>1
  <2>5. RowOpen' /\ AnswersMatchLedger'
    BY <2>1 DEF AInv, RowOpen, AnswersMatchLedger
  <2> QED
    BY <2>3, <2>4, <2>5 DEF AInv
<1>25. CASE Crash
  <2>1. /\ \A h \in Handlers : pc'[h] = "idle"
        /\ \A c \in Characters : characterLock'[c] = {}
        /\ UNCHANGED ledger
    BY <1>25 DEF Crash, ledger
  <2> QED
    BY <2>1 DEF AInv, LockHeld, OneHolder, RowOpen, AnswersMatchLedger, ledger, UnderLock, Settling
<1>26. CASE \/ \E h \in Handlers : QueueForConnection(h)
            \/ \E r \in RequestIds : \/ WorldAccepts(r) \/ WorldRejects(r)
                                     \/ WorldWrites(r) \/ RequestGoesStale(r)
            \/ \E c \in Characters : PlayerGainsLevel(c)
  <2>1. UNCHANGED <<pc, call, characterLock, ledger>>
    BY <1>26 DEF QueueForConnection, WorldAccepts, WorldRejects, WorldWrites,
       RequestGoesStale, PlayerGainsLevel, ledger
  <2> QED
    BY <2>1, OutsideStep
<1>27. CASE UNCHANGED vars
  BY <1>27, OutsideStep DEF vars, ledger
<1> QED
  BY <1>1, <1>2, <1>3, <1>4, <1>5, <1>6, <1>7, <1>8, <1>9, <1>10, <1>11, <1>12, <1>13, <1>14, <1>15,
     <1>16, <1>17, <1>18, <1>19, <1>20, <1>21, <1>22, <1>23, <1>24, <1>25, <1>26, <1>27
  DEF Next, HandlerStep

\* What a caller was told is about its own character and level, and the row
\* says the same for ever, unless the lock of that character was lost.
THEOREM AnswersCorrect == Spec => []AnswersMatchLedger
<1>1. AInv => AnswersMatchLedger
  BY DEF AInv
<1> QED
  BY <1>1, SpecInv, InitAInv, NextAInv, PTL DEF Spec

-----------------------------------------------------------------------------
(* When the pool stands still.                                             *)

\* The characters of the calls that hold one connection, with the lock of the
\* character, and ask the pool for another.
Borrowers == {h \in Handlers : pc[h] \in AsksWithOne}
CharactersInHand == {call[h].character : h \in Borrowers}

\* While no lock is lost, two of these calls work on two characters: a call
\* has the lock of its character before it asks for its second connection.
LEMMA OneBorrowerEach ==
    ASSUME AInv, cut = {}, NEW g \in Borrowers, NEW h \in Borrowers,
           call[g].character = call[h].character, call[h].character \in Characters
    PROVE  g = h
<1>1. g \in Handlers /\ h \in Handlers /\ pc[g] \in UnderLock /\ pc[h] \in UnderLock
  BY DEF Borrowers, AsksWithOne, UnderLock
<1>2. g \in characterLock[call[h].character] /\ h \in characterLock[call[h].character]
  BY <1>1 DEF AInv, LockHeld
<1> QED
  BY <1>1, <1>2 DEF AInv, OneHolder

LEMMA BorrowersCounted ==
    ASSUME Inv, AInv, cut = {}, IsFiniteSet(Handlers)
    PROVE  Cardinality(CharactersInHand) = Cardinality(Borrowers)
<1> DEFINE f == [h \in Borrowers |-> call[h].character]
<1>1. \A h \in Borrowers : call[h].character \in Characters
  BY CallFields DEF Borrowers, AsksWithOne, Inv, TypeInv, CallsKnown
<1>2. \A g, h \in Borrowers : call[g].character = call[h].character => g = h
  BY <1>1, OneBorrowerEach
<1>3. f \in Bijection(Borrowers, CharactersInHand)
  <2>1. f \in [Borrowers -> CharactersInHand]
    BY DEF CharactersInHand
  <2>2. \A g, h \in Borrowers : f[g] = f[h] => g = h
    BY <1>2
  <2>3. \A c \in CharactersInHand : \E h \in Borrowers : f[h] = c
    BY DEF CharactersInHand
  <2> HIDE DEF f
  <2>4. f \in Injection(Borrowers, CharactersInHand)
    BY <2>1, <2>2 DEF Injection, IsInjective
  <2>5. f \in Surjection(Borrowers, CharactersInHand)
    BY <2>1, <2>3 DEF Surjection
  <2> QED
    BY <2>4, <2>5 DEF Bijection
<1>4. ExistsBijection(Borrowers, CharactersInHand)
  BY <1>3 DEF ExistsBijection
<1>5. Borrowers \subseteq Handlers
  BY DEF Borrowers
<1>6. IsFiniteSet(Borrowers)
  BY <1>5, FS_Subset
<1> QED
  BY <1>4, <1>6, FS_Bijection

\* The pool stands still only for calls about different characters, as many as
\* it has connections: calls for the same one wait for its lock, which has a
\* timeout.  So a limit on the characters served at a time would prevent the
\* standstill of run level_pool.  It speaks of locks that were not lost, since
\* withCharacterLock does not notice when its connection is cut.
THEOREM StandstillTakesCharacters ==
    ASSUME IsFiniteSet(Handlers)
    PROVE  Spec => [](~PoolMovesOn /\ cut = {} =>
                          Cardinality(CharactersInHand) = ConnectionLimit)
<1>1. Inv /\ AInv => (~PoolMovesOn /\ cut = {} =>
                          Cardinality(CharactersInHand) = ConnectionLimit)
  <2> SUFFICES ASSUME Inv, AInv, ~PoolMovesOn, cut = {}
               PROVE  Cardinality(CharactersInHand) = ConnectionLimit
    OBVIOUS
  <2> DEFINE One == {h \in Handlers : pc[h] \in HoldsOne \cup HoldsTwo}
             Two == {h \in Handlers : pc[h] \in HoldsTwo}
  <2>1. /\ InUse = ConnectionLimit
        /\ \A h \in Handlers : pc[h] \notin (HoldsOne \ AsksWithOne) \cup HoldsTwo
    BY DEF PoolMovesOn
  <2>2. Two = {}
    BY <2>1
  <2>3. One = Borrowers
    BY <2>1 DEF Borrowers, HoldsOne
  <2>4. Cardinality(Two) = 0
    BY <2>2, FS_EmptySet
  <2>5. Cardinality(One) + Cardinality(Two) = ConnectionLimit
    BY <2>1 DEF InUse
  <2> HIDE DEF One, Two
  <2>6. Borrowers \subseteq Handlers
    BY DEF Borrowers
  <2>7. IsFiniteSet(Borrowers)
    BY <2>6, FS_Subset
  <2>8. Cardinality(Borrowers) \in Nat
    BY <2>7, FS_CardinalityType
  <2>9. Cardinality(Borrowers) = ConnectionLimit
    BY <2>3, <2>4, <2>5, <2>8
  <2> QED
    BY <2>9, BorrowersCounted
<1> QED
  BY <1>1, SpecInv, InitAInv, NextAInv, PTL DEF Spec

-----------------------------------------------------------------------------
(* Levels only rise.                                                       *)

\* The game server keeps up, nobody plays, nothing fails, and the pool's queue
\* has room for every call.
Calm ==
    /\ PromptServer
    /\ ~PlayersLevel
    /\ MaxFaults = 0
    /\ IsFiniteSet(Handlers) /\ Cardinality(Handlers) <= QueueLimit

\* No call waits twice for a connection.
NobodyTwice ==
    \A i, j \in 1 .. Len(queue) : queue[i] = queue[j] => i = j

\* The command of r may still change a level.
Outstanding(r) == posted[r] + unsaved[r] > 0

\* Where a call relies on the level it read, and where on its command.
Deciding == {"find", "reserve", "requestLock", "insert", "command"}
Confirming == {"awaiting", "confirm"}

\* A command is on its way only while a call, with the lock of the character,
\* waits for it; and it is on its way up.
Awaited ==
    \A r \in RequestIds : Outstanding(r) =>
        \E h \in Handlers : pc[h] \in Confirming /\ call[h].request = r
Below ==
    \A r \in RequestIds :
        Outstanding(r) => level[row[r].character] < row[r].target

\* The level a call read is still the level when it posts its command.
SeenTrue ==
    \A h \in Handlers : pc[h] \in Deciding =>
        /\ seen[h] = level[call[h].character]
        /\ pc[h] # "find" => MayRaise(h)

RInv == cut = {} /\ NobodyTwice /\ Awaited /\ Below /\ SeenTrue

LEMMA InitRInv == Init => RInv
  BY DEF Init, RInv, NobodyTwice, Awaited, Below, SeenTrue, Outstanding, Deciding

\* Without faults nothing fails ...
LEMMA NoFaults ==
    ASSUME Calm, TypeInv
    PROVE  ~Fault
  BY DEF Calm, TypeInv, TypeOK, Fault

\* ... and a queue in which everybody else waits once is not full.
LEMMA NoRefusal ==
    ASSUME Calm, TypeInv, NobodyTwice, NEW h \in Handlers
    PROVE  ~PoolRefuses(h)
<1> SUFFICES ASSUME ~IsQueued(h), Len(queue) >= QueueLimit PROVE FALSE
  BY DEF PoolRefuses
<1> DEFINE S == 1 .. Len(queue)
           T == Handlers \ {h}
<1>1. Len(queue) \in Nat /\ QueueLimit \in Nat \ {0} /\ queue \in Seq(Handlers)
  BY LimitAssumption DEF TypeInv, TypeOK
<1>2. IsFiniteSet(S) /\ Cardinality(S) = Len(queue)
  BY <1>1, FS_Interval
<1>3. Cardinality(Handlers) \in Nat /\ IsFiniteSet(Handlers)
      /\ Cardinality(Handlers) <= QueueLimit
  BY FS_CardinalityType DEF Calm
<1>4. IsFiniteSet(T) /\ Cardinality(T) = Cardinality(Handlers) - 1
  BY <1>3, FS_RemoveElement
<1>5. \A i \in S : queue[i] \in T
  BY <1>1 DEF IsQueued
<1>6. \A i, j \in S : queue[i] = queue[j] => i = j
  BY DEF NobodyTwice
<1> DEFINE place == [i \in S |-> queue[i]]
<1>7. place \in Injection(S, T)
  BY <1>5, <1>6 DEF Injection, IsInjective
<1>8. Cardinality(S) <= Cardinality(T)
  <2> HIDE DEF S, T, place
  <2> QED
    BY <1>4, <1>7, FS_Injection
<1> HIDE DEF S, T, place
<1>9. Len(queue) <= Cardinality(Handlers) - 1
  BY <1>2, <1>4, <1>8
<1> QED
  BY <1>1, <1>3, <1>9

\* The call at the head of the queue leaves it, another one joins it.
LEMMA ConnectsQueue ==
    ASSUME TypeInv, NobodyTwice, NEW h \in Handlers, Connects(h)
    PROVE  NobodyTwice'
<1>1. CASE queue = <<>>
  BY <1>1 DEF Connects, NobodyTwice
<1>2. CASE queue # <<>>
  <2>1. queue \in Seq(Handlers) /\ queue' = Tail(queue) /\ Len(queue) \in Nat
    BY <1>2 DEF Connects, TypeInv, TypeOK
  <2>2. /\ Len(queue') = Len(queue) - 1
        /\ \A i \in 1 .. Len(queue') : queue'[i] = queue[i + 1]
    BY <1>2, <2>1
  <2> QED
    BY <2>1, <2>2 DEF NobodyTwice
<1> QED
  BY <1>1, <1>2

LEMMA JoinsQueue ==
    ASSUME TypeInv, NobodyTwice, NEW h \in Handlers, ~IsQueued(h),
           queue' = Append(queue, h)
    PROVE  NobodyTwice'
<1>1. queue \in Seq(Handlers) /\ Len(queue) \in Nat
  BY DEF TypeInv, TypeOK
<1>2. /\ Len(queue') = Len(queue) + 1
      /\ queue'[Len(queue) + 1] = h
      /\ \A i \in 1 .. Len(queue) : queue'[i] = queue[i]
  BY <1>1
<1>3. \A i \in 1 .. Len(queue) : queue[i] # h
  BY DEF IsQueued
<1> QED
  BY <1>1, <1>2, <1>3 DEF NobodyTwice

\* The commands and the levels.
court == <<level, posted, unsaved, cut>>

\* A step of one call that neither posts nor awaits: it may begin to decide
\* only with what it has just read, and stop waiting only for nothing.
LEMMA CalmStep ==
    ASSUME RInv, NEW h \in Handlers, OthersStay(h), UNCHANGED <<court, row>>, NobodyTwice',
           \A g \in Handlers \ {h} : seen'[g] = seen[g],
           pc'[h] \in Deciding =>
               /\ seen'[h] = level[call'[h].character]
               /\ pc'[h] # "find" => MayRaise(h)',
           pc[h] \in Confirming =>
               \/ pc'[h] \in Confirming /\ call'[h].request = call[h].request
               \/ ~Outstanding(call[h].request)
    PROVE  RInv'
<1>1. SeenTrue'
  BY DEF RInv, SeenTrue, MayRaise, OthersStay, court
<1>2. \A r \in RequestIds : Outstanding(r)' = Outstanding(r)
  BY DEF Outstanding, court
<1>3. Awaited'
  <2> SUFFICES ASSUME NEW r \in RequestIds, Outstanding(r)
               PROVE  \E g \in Handlers : pc'[g] \in Confirming /\ call'[g].request = r
    BY <1>2 DEF Awaited
  <2>1. PICK g \in Handlers : pc[g] \in Confirming /\ call[g].request = r
    BY DEF RInv, Awaited
  <2> QED
    BY <2>1 DEF OthersStay
<1>4. Below'
  BY <1>2 DEF RInv, Below, court
<1> QED
  BY <1>1, <1>3, <1>4 DEF RInv, court

\* The usual case: the call neither decides nor awaits afterwards, and did not
\* await before.
LEMMA AsideStep ==
    ASSUME RInv, NEW h \in Handlers, OthersStay(h), UNCHANGED <<court, row>>, NobodyTwice',
           \A g \in Handlers \ {h} : seen'[g] = seen[g],
           pc'[h] \notin Deciding, pc[h] \notin Confirming
    PROVE  RInv'
  BY CalmStep

\* Going on within the lock with what was read.
LEMMA OnwardStep ==
    ASSUME RInv, NEW h \in Handlers, OthersStay(h), UNCHANGED <<court, row, call, seen>>,
           NobodyTwice', pc[h] \in Deciding, pc[h] # "find" \/ MayRaise(h)
    PROVE  RInv'
<1>1. pc[h] \notin Confirming
  BY DEF Deciding, Confirming
<1>2. seen'[h] = level[call'[h].character] /\ MayRaise(h)'
  BY DEF RInv, SeenTrue, MayRaise
<1> QED
  BY <1>1, <1>2, CalmStep

\* Steps of the game server that write no level.
LEMMA ServedStep ==
    ASSUME RInv, UNCHANGED <<pc, call, seen, queue, row, level, cut>>,
           \A r \in RequestIds : Outstanding(r)' => Outstanding(r)
    PROVE  RInv'
  BY DEF RInv, NobodyTwice, Awaited, Below, SeenTrue, MayRaise

\* Whoever awaits a command holds the lock of the row's character.
LEMMA AwaiterHolds ==
    ASSUME Inv, AInv, RInv, NEW h \in Handlers, pc[h] \in Confirming
    PROVE  /\ call[h] \in Calls /\ HasRow(call[h])
           /\ row[call[h].request].character \in Characters
           /\ h \in characterLock[row[call[h].request].character]
<1>1. call[h] \in Calls /\ HasRow(call[h])
  BY DEF Confirming, Inv, CallTrue, TypeInv, CallsKnown
<1>2. call[h].character \in Characters /\ row[call[h].request].character = call[h].character
  BY <1>1, CallFields DEF HasRow
<1>3. h \in characterLock[call[h].character]
  BY DEF RInv, AInv, LockHeld, UnderLock, Confirming
<1> QED
  BY <1>1, <1>2, <1>3

\* So two commands for one character are never on their way together, and no
\* other call is deciding about that character.
LEMMA OneCommandAtATime ==
    ASSUME Inv, AInv, RInv, NEW r \in RequestIds, Outstanding(r)
    PROVE  /\ row[r] \in Rows
           /\ \A x \in RequestIds :
                 Outstanding(x) /\ row[x].character = row[r].character => x = r
           /\ \A h \in Handlers :
                 pc[h] \in Deciding => call[h].character # row[r].character
<1>1. PICK g \in Handlers : pc[g] \in Confirming /\ call[g].request = r
  BY DEF RInv, Awaited
<1>2. /\ status[r] # "absent" /\ row[r].character \in Characters
      /\ g \in characterLock[row[r].character]
  BY <1>1, AwaiterHolds DEF HasRow
<1>3. row[r] \in Rows
  BY <1>2 DEF Inv, TypeInv, RowsKnown
<1>4. ASSUME NEW x \in RequestIds, Outstanding(x), row[x].character = row[r].character
      PROVE  x = r
  <2>1. PICK h \in Handlers : pc[h] \in Confirming /\ call[h].request = x
    BY <1>4 DEF RInv, Awaited
  <2>2. h \in characterLock[row[r].character]
    BY <1>4, <2>1, AwaiterHolds
  <2>3. g = h
    BY <1>2, <2>2 DEF AInv, OneHolder
  <2> QED
    BY <1>1, <2>1, <2>3
<1>5. ASSUME NEW h \in Handlers, pc[h] \in Deciding
      PROVE  call[h].character # row[r].character
  <2> SUFFICES ASSUME call[h].character = row[r].character PROVE FALSE
    OBVIOUS
  <2>1. h \in characterLock[row[r].character]
    BY <1>5 DEF RInv, AInv, LockHeld, UnderLock, Deciding
  <2>2. g = h
    BY <1>2, <2>1 DEF AInv, OneHolder
  <2> QED
    BY <1>1, <1>5, <2>2 DEF Deciding, Confirming
<1> QED
  BY <1>3, <1>4, <1>5

\* The absolute command raises the level, and ends its being on its way.
LEMMA WriteRises ==
    ASSUME Inv, AInv, RInv, NEW r \in RequestIds, WorldWrites(r)
    PROVE  /\ \A c \in Characters : level'[c] >= level[c]
           /\ RInv'
<1> USE DEF table, locks, calls, history
<1> DEFINE d == row[r].character
<1>1. unsaved[r] > 0 /\ unsaved[r] = 1 /\ posted[r] = 0
  BY UnsavedIsAlone DEF WorldWrites
<1>2. Outstanding(r)
  BY <1>1 DEF Outstanding
<1>3. /\ row[r] \in Rows
      /\ \A x \in RequestIds : Outstanding(x) /\ row[x].character = d => x = r
      /\ \A h \in Handlers : pc[h] \in Deciding => call[h].character # d
  BY <1>2, OneCommandAtATime
<1>4. d \in Characters /\ row[r].target \in Targets
  BY <1>3, RowFields
<1>5. level[d] < row[r].target
  BY <1>2 DEF RInv, Below
<1>6. /\ level'[d] = row[r].target
      /\ \A c \in Characters \ {d} : level'[c] = level[c]
      /\ \A c \in Characters : level[c] \in Nat
  BY <1>4, LimitAssumption DEF WorldWrites, SetLevel, Inv, TypeInv, TypeOK, Levels
<1>7. /\ UNCHANGED <<pc, call, seen, queue, row, posted, cut>>
      /\ unsaved'[r] = 0
      /\ \A x \in RequestIds \ {r} : unsaved'[x] = unsaved[x]
  BY <1>1 DEF WorldWrites, Inv, TypeInv, TypeOK
<1>8. /\ ~Outstanding(r)'
      /\ \A x \in RequestIds \ {r} : Outstanding(x)' = Outstanding(x)
  BY <1>1, <1>7 DEF Outstanding
<1> HIDE DEF d
<1>9. \A c \in Characters : level'[c] >= level[c]
  BY <1>4, <1>5, <1>6 DEF Targets
<1>10. NobodyTwice' /\ Awaited' /\ cut' = {}
  BY <1>7, <1>8 DEF RInv, NobodyTwice, Awaited
<1>11. Below'
  <2> SUFFICES ASSUME NEW x \in RequestIds, Outstanding(x)'
               PROVE  level'[row[x].character] < row[x].target
    BY <1>7 DEF Below
  <2>1. x # r /\ Outstanding(x)
    BY <1>8
  <2>2. row[x] \in Rows /\ row[x].character \in Characters /\ row[x].character # d
    BY <1>3, <2>1, OneCommandAtATime, RowFields
  <2> QED
    BY <1>6, <2>1, <2>2 DEF RInv, Below
<1>12. SeenTrue'
  <2> SUFFICES ASSUME NEW h \in Handlers, pc[h] \in Deciding
               PROVE  /\ seen[h] = level'[call[h].character]
                      /\ pc[h] # "find" => MayRaise(h)
    BY <1>7 DEF SeenTrue, MayRaise
  <2>1. call[h].character \in Characters /\ call[h].character # d
    BY <1>3, CallFields DEF Inv, TypeInv, CallsKnown, Deciding
  <2> QED
    BY <1>6, <2>1 DEF RInv, SeenTrue
<1> QED
  BY <1>9, <1>10, <1>11, <1>12 DEF RInv

\* The INSERT: the row it fills in had no command.
LEMMA InsertRises ==
    ASSUME Inv, RInv, NEW h \in Handlers, InsertPending(h)
    PROVE  RInv'
<1> USE DEF table, locks, calls, world, history
<1> DEFINE r == call[h].request
<1>1. r \in RequestIds /\ pc[h] = "insert" /\ status[r] = "absent"
  BY CallFields DEF Inv, TypeInv, CallsKnown, InsertPending, InsertRow
<1>2. /\ \A x \in RequestIds \ {r} : row'[x] = row[x]
      /\ UNCHANGED <<level, posted, unsaved, cut, queue, call, seen>>
      /\ pc'[h] = "command" /\ OthersStay(h)
  BY <1>1 DEF Inv, TypeInv, TypeOK, InsertPending, InsertRow, Goto, OthersStay
<1>3. issued[r] = 0 /\ posted[r] \in Nat /\ unsaved[r] \in Nat
      /\ posted[r] + unsaved[r] <= issued[r]
  BY <1>1 DEF Inv, Counts, TypeInv, TypeOK
<1>4. ~Outstanding(r)
  BY <1>3 DEF Outstanding
<1>5. \A x \in RequestIds : Outstanding(x)' = Outstanding(x)
  BY <1>2 DEF Outstanding
<1> HIDE DEF r
<1>6. Below'
  BY <1>2, <1>4, <1>5 DEF RInv, Below
<1>7. Awaited'
  <2> SUFFICES ASSUME NEW x \in RequestIds, Outstanding(x)
               PROVE  \E g \in Handlers : pc'[g] \in Confirming /\ call'[g].request = x
    BY <1>5 DEF Awaited
  <2>1. PICK g \in Handlers : pc[g] \in Confirming /\ call[g].request = x
    BY DEF RInv, Awaited
  <2> QED
    BY <1>1, <1>2, <2>1 DEF OthersStay, Confirming
<1>8. SeenTrue'
  BY <1>1, <1>2 DEF RInv, SeenTrue, MayRaise, OthersStay, Deciding
<1> QED
  BY <1>2, <1>6, <1>7, <1>8 DEF RInv, NobodyTwice

\* The command is posted by the call that read the level below its target.
LEMMA CommandRises ==
    ASSUME Inv, RInv, NEW h \in Handlers, ExecuteCommand(h)
    PROVE  RInv'
<1> USE DEF table, locks, calls, world, history
<1> DEFINE r == call[h].request
<1>1. r \in RequestIds /\ pc[h] = "command" /\ call[h] \in Calls
  BY CallFields DEF Inv, TypeInv, CallsKnown, ExecuteCommand
<1>2. /\ \A x \in RequestIds \ {r} : posted'[x] = posted[x]
      /\ UNCHANGED <<level, unsaved, row, cut, queue, call, seen>>
      /\ pc'[h] = "awaiting" /\ OthersStay(h)
  BY <1>1 DEF Inv, TypeInv, TypeOK, ExecuteCommand, Goto, OthersStay
<1>3. \A x \in RequestIds \ {r} : Outstanding(x)' = Outstanding(x)
  BY <1>2 DEF Outstanding
<1>4. seen[h] = level[call[h].character] /\ call[h].target > seen[h]
  BY <1>1 DEF RInv, SeenTrue, MayRaise, Deciding
<1>5. row[r].character = call[h].character /\ row[r].target = call[h].target
  BY <1>1 DEF Inv, CallTrue, HasRow
<1>6. call[h].character \in Characters /\ call[h].target \in Targets
  BY <1>1, CallFields
<1>7. level[call[h].character] < row[r].target
  BY <1>4, <1>5, <1>6, LimitAssumption DEF Inv, TypeInv, TypeOK, Levels, Targets
<1> HIDE DEF r
<1>8. Below'
  BY <1>2, <1>3, <1>5, <1>7 DEF RInv, Below
<1>9. Awaited'
  <2> SUFFICES ASSUME NEW x \in RequestIds, Outstanding(x)'
               PROVE  \E g \in Handlers : pc'[g] \in Confirming /\ call'[g].request = x
    BY DEF Awaited
  <2>1. CASE x = r
    BY <1>2, <2>1 DEF r, Confirming
  <2>2. CASE x # r
    <3>1. PICK g \in Handlers : pc[g] \in Confirming /\ call[g].request = x
      BY <1>3, <2>2 DEF RInv, Awaited
    <3> QED
      BY <1>1, <1>2, <3>1 DEF OthersStay, Confirming
  <2> QED
    BY <2>1, <2>2
<1>10. SeenTrue'
  BY <1>2 DEF RInv, SeenTrue, MayRaise, OthersStay, Deciding
<1> QED
  BY <1>2, <1>8, <1>9, <1>10 DEF RInv, NobodyTwice

\* A rejected command, and one whose level was read, is no longer on its way.
LEMMA SpentIsOver ==
    ASSUME NEW r, Undeliverable(r)
    PROVE  ~Outstanding(r)
  BY DEF Undeliverable, Outstanding

LEMMA ConfirmedIsOver ==
    ASSUME Calm, Inv, RInv, NEW h \in Handlers, ConfirmLevel(h)
    PROVE  ~Outstanding(call[h].request)
<1> DEFINE r == call[h].request
<1>1. /\ pc[h] = "confirm" /\ verdict'[h] = VerdictOf(call[h])
      /\ verdict'[h] = "unknown" => posted[r] = 0 /\ unsaved[r] = 0
  BY DEF Calm, ConfirmLevel, Inv, TypeInv, TypeOK
<1>2. /\ r \in RequestIds /\ call[h].character \in Characters
      /\ row[r].character = call[h].character /\ row[r].target = call[h].target
      /\ call[h].target \in Nat
  BY <1>1, CallFields DEF Inv, CallTrue, HasRow, TypeInv, CallsKnown, Targets
<1>3. CASE verdict'[h] = "unknown"
  BY <1>1, <1>3 DEF Outstanding
<1>4. CASE verdict'[h] # "unknown"
  <2>1. level[call[h].character] = call[h].target
    BY <1>1, <1>4 DEF VerdictOf
  <2> QED
    BY <1>2, <2>1 DEF RInv, Below
<1> QED
  BY <1>3, <1>4

\* How a call that finds a row goes on: it begins to decide nothing.
LEMMA ExistingAside ==
    ASSUME RInv, TypeInv, NEW h \in Handlers, pc[h] \in {"find", "insert"},
           HandleExisting(h), UNCHANGED <<court, row>>, NobodyTwice'
    PROVE  RInv'
<1>1. /\ OthersStay(h) /\ seen' = seen
      /\ pc'[h] = "unlock" \/ pc'[h] = "confirm"
  BY DEF HandleExisting, Leave, Goto, ResumesAt, OthersStay, TypeInv, TypeOK
<1> QED
  BY <1>1, AsideStep DEF Deciding, Confirming

LEMMA ProceedAside ==
    ASSUME RInv, TypeInv, NEW h \in Handlers, NEW rows, Proceed(h, rows),
           pc[h] \notin Confirming, UNCHANGED <<court, row>>, NobodyTwice'
    PROVE  RInv'
<1>1. OthersStay(h) /\ pc'[h] \in {"idle", "connect"}
  BY ProceedLeaves
<1>2. \A g \in Handlers \ {h} : seen'[g] = seen[g]
  BY DEF Proceed, Return, TypeInv, TypeOK
<1> QED
  BY <1>1, <1>2, AsideStep DEF Deciding

LEMMA NextRInv ==
    ASSUME Calm
    PROVE  Inv /\ AInv /\ RInv /\ [Next]_vars
               => RInv' /\ \A c \in Characters : level'[c] >= level[c]
<1> SUFFICES ASSUME Inv, AInv, RInv, [Next]_vars
             PROVE  RInv' /\ \A c \in Characters : level'[c] >= level[c]
  OBVIOUS
<1> USE DEF table, locks, calls, world, history
<1>0. TypeInv /\ NobodyTwice /\ \A c \in Characters : level[c] \in Nat
  BY DEF Inv, RInv, TypeInv, TypeOK, Levels
<1> DEFINE Rises == RInv' /\ \A c \in Characters : level'[c] >= level[c]
<1>s. UNCHANGED level => \A c \in Characters : level'[c] >= level[c]
  BY <1>0
<1>1. ASSUME NEW h \in Handlers, NEW c \in Requests, RequestCharacterLevel(h, c) PROVE Rises
  <2>1. /\ UNCHANGED <<court, row, queue, seen>> /\ OthersStay(h)
        /\ pc[h] = "idle" /\ pc'[h] = "connect"
    BY <1>0, <1>1 DEF RequestCharacterLevel, Goto, court, OthersStay, TypeInv, TypeOK
  <2> QED
    BY <1>0, <1>s, <2>1, AsideStep DEF court, NobodyTwice, Deciding, Confirming
<1>2. ASSUME NEW h \in Handlers, GetMetadata(h) PROVE Rises
  <2>1. /\ UNCHANGED <<court, row, queue, seen>> /\ OthersStay(h)
        /\ pc[h] = "idle" /\ pc'[h] = "stale"
    BY <1>0, <1>2 DEF GetMetadata, Goto, court, OthersStay, TypeInv, TypeOK
  <2> QED
    BY <1>0, <1>s, <2>1, AsideStep DEF court, NobodyTwice, Deciding, Confirming
<1>3. ASSUME NEW h \in Handlers, Connect(h) PROVE Rises
  <2>1. /\ UNCHANGED <<court, row, seen>> /\ OthersStay(h) /\ Connects(h)
        /\ pc[h] = "connect" /\ pc'[h] = "characterLock"
    BY <1>0, <1>3 DEF Connect, Goto, court, OthersStay, TypeInv, TypeOK
  <2>2. NobodyTwice'
    BY <1>0, <2>1, ConnectsQueue
  <2> QED
    BY <1>s, <2>1, <2>2, AsideStep DEF court, Deciding, Confirming
<1>4. ASSUME NEW h \in Handlers, AcquireCharacterLock(h) PROVE Rises
  <2>1. /\ UNCHANGED <<court, row, queue, seen>> /\ OthersStay(h)
        /\ pc[h] = "characterLock" /\ pc'[h] = "character"
    BY <1>0, <1>4 DEF AcquireCharacterLock, Goto, court, OthersStay, TypeInv, TypeOK
  <2> QED
    BY <1>0, <1>s, <2>1, AsideStep DEF court, NobodyTwice, Deciding, Confirming
<1>5. ASSUME NEW h \in Handlers, ReadCharacter(h) PROVE Rises
  <2>1. /\ UNCHANGED <<court, row, call>> /\ OthersStay(h) /\ Connects(h)
        /\ pc[h] = "character" /\ pc'[h] = "find"
        /\ seen'[h] = level[call[h].character]
        /\ \A g \in Handlers \ {h} : seen'[g] = seen[g]
    BY <1>0, <1>5 DEF ReadCharacter, Goto, court, OthersStay, TypeInv, TypeOK
  <2>2. NobodyTwice'
    BY <1>0, <2>1, ConnectsQueue
  <2> QED
    BY <1>s, <2>1, <2>2, CalmStep DEF court, Deciding, Confirming
<1>6. ASSUME NEW h \in Handlers, Find(h) PROVE Rises
  <2>1. /\ UNCHANGED <<court, row>> /\ Connects(h) /\ pc[h] = "find"
    BY <1>6 DEF Find, court
  <2>2. NobodyTwice'
    BY <1>0, <2>1, ConnectsQueue
  <2>3. CASE HandleExisting(h)
    BY <1>0, <1>s, <2>1, <2>2, <2>3, ExistingAside DEF court
  <2>4. CASE MayRaise(h) /\ Goto(h, "reserve") /\ UNCHANGED <<call, seen>>
    <3>1. OthersStay(h)
      BY <1>0, <2>4 DEF Goto, OthersStay, TypeInv, TypeOK
    <3> QED
      BY <1>s, <2>1, <2>2, <2>4, <3>1, OnwardStep DEF court, Deciding
  <2>5. CASE Goto(h, "unlock") /\ UNCHANGED <<call, seen>>
    <3>1. OthersStay(h) /\ pc'[h] = "unlock"
      BY <1>0, <2>5 DEF Goto, OthersStay, TypeInv, TypeOK
    <3> QED
      BY <1>s, <2>1, <2>2, <2>5, <3>1, AsideStep DEF court, Deciding, Confirming
  <2> QED
    BY <1>6, <2>3, <2>4, <2>5 DEF Find
<1>7. ASSUME NEW h \in Handlers, Reserve(h) PROVE Rises
  <2>1. /\ UNCHANGED <<court, row, call, seen>> /\ OthersStay(h) /\ Connects(h)
        /\ pc[h] = "reserve"
    BY <1>0, <1>7 DEF Reserve, Goto, court, OthersStay, TypeInv, TypeOK
  <2>2. NobodyTwice'
    BY <1>0, <2>1, ConnectsQueue
  <2> QED
    BY <1>s, <2>1, <2>2, OnwardStep DEF court, Deciding
<1>8. ASSUME NEW h \in Handlers, AcquireRequestLock(h) PROVE Rises
  <2>1. /\ UNCHANGED <<court, row, call, seen, queue>> /\ OthersStay(h)
        /\ pc[h] = "requestLock"
    BY <1>0, <1>8 DEF AcquireRequestLock, Goto, court, OthersStay, TypeInv, TypeOK
  <2> QED
    BY <1>0, <1>s, <2>1, OnwardStep DEF court, NobodyTwice, Deciding
<1>9. ASSUME NEW h \in Handlers, InsertPending(h) PROVE Rises
  <2>1. UNCHANGED level
    BY <1>9 DEF InsertPending, InsertRow
  <2> QED
    BY <1>s, <1>9, <2>1, InsertRises
<1>10. ASSUME NEW h \in Handlers, FindsRow(h) PROVE Rises
  <2>1. /\ UNCHANGED <<court, row, queue>> /\ HandleExisting(h) /\ pc[h] = "insert"
    BY <1>10 DEF FindsRow, court
  <2> QED
    BY <1>0, <1>s, <2>1, ExistingAside DEF court, NobodyTwice
<1>11. ASSUME NEW h \in Handlers, ExecuteCommand(h) PROVE Rises
  <2>1. UNCHANGED level
    BY <1>11 DEF ExecuteCommand
  <2> QED
    BY <1>s, <1>11, <2>1, CommandRises
<1>12. ASSUME NEW h \in Handlers, ReceiveReply(h) PROVE Rises
  <2>1. /\ UNCHANGED <<court, row, call, seen, queue>> /\ OthersStay(h)
        /\ \/ reply[h] = "failed" /\ pc'[h] = "mark"
           \/ pc'[h] = "confirm"
    BY <1>0, <1>12 DEF ReceiveReply, Goto, court, OthersStay, TypeInv, TypeOK
  <2>2. reply[h] = "failed" => ~Outstanding(call[h].request)
    BY SpentIsOver DEF Inv, CallTrue
  <2> QED
    BY <1>0, <1>s, <2>1, <2>2, CalmStep DEF court, NobodyTwice, Deciding, Confirming
<1>13. ASSUME NEW h \in Handlers, ReplyUnusable(h) PROVE Rises
  <2>1. /\ UNCHANGED <<court, row, call, seen, queue>> /\ OthersStay(h)
        /\ pc'[h] = "confirm"
    BY <1>0, <1>13 DEF ReplyUnusable, Goto, court, OthersStay, TypeInv, TypeOK
  <2> QED
    BY <1>0, <1>s, <2>1, CalmStep DEF court, NobodyTwice, Deciding, Confirming
<1>14. ASSUME NEW h \in Handlers, ConfirmLevel(h) PROVE Rises
  <2>1. /\ UNCHANGED <<court, row, call, seen>> /\ OthersStay(h) /\ Connects(h)
        /\ pc'[h] = "mark"
    BY <1>0, <1>14 DEF ConfirmLevel, Goto, court, OthersStay, TypeInv, TypeOK
  <2>2. NobodyTwice'
    BY <1>0, <2>1, ConnectsQueue
  <2>3. ~Outstanding(call[h].request)
    BY <1>14, ConfirmedIsOver
  <2> QED
    BY <1>s, <2>1, <2>2, <2>3, CalmStep DEF court, Deciding
<1>15. ASSUME NEW h \in Handlers, ReadStaleLevel(h) PROVE Rises
  <2>1. /\ UNCHANGED <<court, row, seen>> /\ OthersStay(h) /\ Connects(h)
        /\ pc[h] = "character" /\ pc'[h] = "mark"
    BY <1>0, <1>15 DEF ReadStaleLevel, Goto, court, OthersStay, TypeInv, TypeOK
  <2>2. NobodyTwice'
    BY <1>0, <2>1, ConnectsQueue
  <2> QED
    BY <1>s, <2>1, <2>2, AsideStep DEF court, Deciding, Confirming
<1>16. ASSUME NEW h \in Handlers, Mark(h) PROVE Rises
  <2>1. /\ UNCHANGED <<court, row, seen>> /\ OthersStay(h) /\ Connects(h)
        /\ pc[h] = "mark" /\ pc'[h] = "unlock"
    BY <1>0, <1>16 DEF Mark, Leave, Goto, court, OthersStay, TypeInv, TypeOK
  <2>2. NobodyTwice'
    BY <1>0, <2>1, ConnectsQueue
  <2> QED
    BY <1>s, <2>1, <2>2, AsideStep DEF court, Deciding, Confirming
<1>17. ASSUME NEW h \in Handlers, LockTimeout(h) PROVE Rises
  <2>1. /\ UNCHANGED <<court, row, queue>> /\ Throw(h)
        /\ pc[h] \in {"characterLock", "requestLock"}
    BY <1>17 DEF LockTimeout, court
  <2>2. OthersStay(h) /\ pc'[h] \in {"idle", "unlock"}
    BY <1>0, <2>1, ThrowLeaves
  <2>3. \A g \in Handlers \ {h} : seen'[g] = seen[g]
    BY <1>0, <2>1 DEF Throw, Return, TypeInv, TypeOK
  <2> QED
    BY <1>0, <1>s, <2>1, <2>2, <2>3, AsideStep DEF court, NobodyTwice, Deciding, Confirming
<1>18. ASSUME NEW h \in Handlers, Unlock(h) PROVE Rises
  <2>1. /\ UNCHANGED <<court, row, queue>> /\ Proceed(h, batch[h]) /\ pc[h] = "unlock"
    BY <1>18 DEF Unlock, court
  <2> QED
    BY <1>0, <1>s, <2>1, ProceedAside DEF court, NobodyTwice, Confirming
<1>19. ASSUME NEW h \in Handlers, FindStalePending(h) PROVE Rises
  <2>1. /\ UNCHANGED <<court, row>> /\ Connects(h) /\ pc[h] = "stale"
        /\ \E rows : Proceed(h, rows)
    BY <1>19 DEF FindStalePending, court
  <2>2. NobodyTwice'
    BY <1>0, <2>1, ConnectsQueue
  <2> QED
    BY <1>0, <1>s, <2>1, <2>2, ProceedAside DEF court, Confirming
<1>20. ASSUME NEW h \in Handlers, QueueForConnection(h) PROVE Rises
  <2>1. /\ UNCHANGED <<court, row, pc, call, seen>> /\ ~IsQueued(h)
        /\ queue' = Append(queue, h)
    BY <1>20 DEF QueueForConnection, court
  <2>2. NobodyTwice'
    BY <1>0, <2>1, JoinsQueue
  <2> QED
    BY <1>s, <2>1, <2>2 DEF RInv, Awaited, Below, SeenTrue, MayRaise, Outstanding, court
<1>21. ASSUME NEW r \in RequestIds, WorldAccepts(r) PROVE Rises
  <2>1. /\ UNCHANGED <<pc, call, seen, queue, row, level, cut>>
        /\ \A x \in RequestIds \ {r} : posted'[x] = posted[x] /\ unsaved'[x] = unsaved[x]
        /\ posted[r] > 0
    BY <1>0, <1>21 DEF WorldAccepts, TypeInv, TypeOK
  <2>2. posted[r] \in Nat /\ unsaved[r] \in Nat
    BY <1>0 DEF TypeInv, TypeOK
  <2>3. Outstanding(r)
    BY <2>1, <2>2 DEF Outstanding
  <2>4. \A x \in RequestIds : Outstanding(x)' => Outstanding(x)
    BY <2>1, <2>3 DEF Outstanding
  <2> QED
    BY <1>s, <2>1, <2>4, ServedStep
<1>22. ASSUME NEW r \in RequestIds, WorldRejects(r) PROVE Rises
  <2>1. /\ UNCHANGED <<pc, call, seen, queue, row, level, cut>>
        /\ \A x \in RequestIds \ {r} : posted'[x] = posted[x] /\ unsaved'[x] = unsaved[x]
        /\ posted[r] > 0
    BY <1>0, <1>22 DEF WorldRejects, TypeInv, TypeOK
  <2>2. posted[r] \in Nat /\ unsaved[r] \in Nat
    BY <1>0 DEF TypeInv, TypeOK
  <2>3. Outstanding(r)
    BY <2>1, <2>2 DEF Outstanding
  <2>4. \A x \in RequestIds : Outstanding(x)' => Outstanding(x)
    BY <2>1, <2>3 DEF Outstanding
  <2> QED
    BY <1>s, <2>1, <2>4, ServedStep
<1>23. ASSUME NEW r \in RequestIds, WorldWrites(r) PROVE Rises
  BY <1>23, WriteRises
<1>24. ASSUME NEW r \in RequestIds, RequestGoesStale(r) PROVE Rises
  <2>1. UNCHANGED <<pc, call, seen, queue, row, level, cut, posted, unsaved>>
    BY <1>24 DEF RequestGoesStale
  <2> QED
    BY <1>s, <2>1, ServedStep DEF Outstanding
<1>25. CASE \E h \in Handlers : StatementFails(h)
  BY <1>0, <1>25, NoFaults, NoRefusal DEF StatementFails, DatabaseError
<1>26. CASE \/ Crash
            \/ \E h \in Handlers : \/ CommitUnacknowledged(h) \/ MarkUnacknowledged(h)
                                   \/ UnlockFails(h) \/ LockConnectionLost(h)
  BY <1>0, <1>26, NoFaults DEF Crash, CommitUnacknowledged, MarkUnacknowledged, UnlockFails,
     LockConnectionLost
<1>27. CASE \E c \in Characters : PlayerGainsLevel(c)
  BY <1>27 DEF PlayerGainsLevel, Calm
<1>28. CASE UNCHANGED vars
  <2>1. UNCHANGED <<pc, call, seen, queue, row, level, cut, posted, unsaved>>
    BY <1>28 DEF vars
  <2> QED
    BY <1>s, <2>1, ServedStep DEF Outstanding
<1> QED
  BY <1>1, <1>2, <1>3, <1>4, <1>5, <1>6, <1>7, <1>8, <1>9, <1>10, <1>11, <1>12, <1>13, <1>14, <1>15,
     <1>16, <1>17, <1>18, <1>19, <1>20, <1>21, <1>22, <1>23, <1>24, <1>25, <1>26, <1>27, <1>28
  DEF Next, HandlerStep

\* The portal alone, with any number of overlapping calls, retries and
\* settlements, never lowers a level: each command is absolute, but it is
\* posted and awaited under the lock of its character.
THEOREM RaiseOnlyCorrect ==
    ASSUME Calm
    PROVE  Spec => RaiseOnly
<1>1. Inv /\ AInv /\ RInv /\ [Next]_vars => [\A c \in Characters : level'[c] >= level[c]]_vars
  BY NextRInv
<1>2. Inv /\ AInv /\ RInv /\ [Next]_vars => RInv'
  BY NextRInv
<1> QED
  BY <1>1, <1>2, SpecInv, InitAInv, NextAInv, InitRInv, PTL DEF Spec, RaiseOnly

=============================================================================
