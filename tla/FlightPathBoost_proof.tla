------------------------- MODULE FlightPathBoost_proof -------------------------
(***************************************************************************)
(* Proofs about FlightPathBoost, for every number of calls, requests,      *)
(* characters and faults and every grant: a committed request has taught   *)
(* its character the flight paths, every success reported is committed,    *)
(* and the boost takes no flight path away.                                *)
(*                                                                         *)
(* The argument is InnoDB's: from the SELECT ... FOR UPDATE of a character *)
(* to the end of the transaction, answered or in doubt, no other           *)
(* transaction has the character, it stays offline and its mask is the one *)
(* that was read (CharacterHeld); from the INSERT on, no other has the     *)
(* request ID and no row with it is committed (RequestHeld).               *)
(***************************************************************************)
EXTENDS FlightPathBoost, TLAPS

\* What is assumed of the constants: the sets are what their names say.
ConstantsFit ==
    /\ MaxFaults \in Nat
    /\ Grant \in [Characters -> Masks]
    /\ NoRow \notin Records /\ NotLoaded \notin Masks

\* A call under way has its input, and a character online is loaded.
CallsKnown == \A h \in Handlers : pc[h] # "idle" => call[h] \in Inputs
OnlineIsLoaded == \A c \in Characters : online[c] => memory[c] # NotLoaded

\* From the lock on a character is offline and has the mask that was read, and
\* no two transactions have it.
AsRead(c, read) == ~online[c] /\ mask[c] = read

CharacterHeld ==
    /\ \A h \in Handlers : HoldsCharacter(h) => AsRead(call[h].character, seen[h])
    /\ \A t \in doubtful : AsRead(t.character, t.seen)
    /\ \A g, h \in Handlers :
          HoldsCharacter(g) /\ HoldsCharacter(h) /\ call[g].character = call[h].character => g = h
    /\ \A h \in Handlers, t \in doubtful : HoldsCharacter(h) => call[h].character # t.character
    /\ \A t, u \in doubtful : t.character = u.character => t = u

RequestHeld ==
    /\ \A h \in Handlers : HasInserted(h) => row[call[h].request] = NoRow
    /\ \A t \in doubtful : row[t.request] = NoRow
    /\ \A g, h \in Handlers :
          HasInserted(g) /\ HasInserted(h) /\ call[g].request = call[h].request => g = h
    /\ \A h \in Handlers, t \in doubtful : HasInserted(h) => call[h].request # t.request
    /\ \A t, u \in doubtful : t.request = u.request => t = u

IInv == /\ TypeOK
        /\ CallsKnown
        /\ OnlineIsLoaded
        /\ CharacterHeld
        /\ RequestHeld
        /\ AppliedIsLearned
        /\ AnswersAreCommitted
-----------------------------------------------------------------------------
(* What a step does to one call                                            *)

CallTypes == /\ pc' \in [Handlers -> PCs]
             /\ call' \in [Handlers -> Inputs \cup {NoCall}]
             /\ seen' \in [Handlers -> Masks]

OthersStay(h) == \A g \in Handlers : g # h => pc'[g] = pc[g] /\ call'[g] = call[g] /\ seen'[g] = seen[g]

\* Only call h moves, and if it is under way then it has an input.
Moves(h) == /\ CallTypes /\ OthersStay(h)
            /\ pc'[h] # "idle" => call'[h] \in Inputs

\* Call h has the lock of its character after the step: it had it before, or
\* nobody did.
LocksCharacter(h) ==
    HoldsCharacter(h)' =>
        \/ HoldsCharacter(h) /\ call'[h] = call[h] /\ seen'[h] = seen[h]
        \/ ~RowLocked(call'[h].character) /\ AsRead(call'[h].character, seen'[h])

LocksRequest(h) ==
    HasInserted(h)' =>
        \/ HasInserted(h) /\ call'[h] = call[h]
        \/ /\ row[call'[h].request] = NoRow
           /\ \A g \in Handlers : HasInserted(g) => call[g].request # call'[h].request
           /\ \A t \in doubtful : t.request # call'[h].request

LEMMA OthersKeepTheirLocks ==
    ASSUME NEW h \in Handlers, OthersStay(h), NEW g \in Handlers, g # h
    PROVE  /\ HoldsCharacter(g)' = HoldsCharacter(g)
           /\ HasInserted(g)' = HasInserted(g)
BY DEF OthersStay, HoldsCharacter, HasInserted

\* The steps of one call that touch neither the database nor the game server.
LEMMA CallStep ==
    ASSUME IInv, NEW h \in Handlers, Moves(h), LocksCharacter(h), LocksRequest(h),
           UNCHANGED <<row, mask, world, doubtful, raced>>, faults' \in 0 .. MaxFaults,
           answered' \in [RequestIds -> SUBSET Records],
           \A r \in RequestIds : answered'[r] \subseteq {row[r]} \ {NoRow}
    PROVE  IInv'
<1>1. UNCHANGED <<row, mask, online, memory, doubtful, raced>>
  BY DEF world
<1>2. TypeOK'
  BY <1>1 DEF IInv, TypeOK, Moves, CallTypes
<1>3. CallsKnown'
  BY DEF IInv, CallsKnown, Moves, OthersStay
<1>4. OnlineIsLoaded' /\ AppliedIsLearned' /\ AnswersAreCommitted'
  BY <1>1 DEF IInv, OnlineIsLoaded, AppliedIsLearned, AnswersAreCommitted
<1>5. CharacterHeld'
  <2>1. ASSUME NEW g \in Handlers, HoldsCharacter(g)'
        PROVE  AsRead(call[g].character, seen[g])'
    <3>1. AsRead(call'[g].character, seen'[g])
      BY <2>1, OthersKeepTheirLocks DEF IInv, CharacterHeld, Moves, OthersStay, LocksCharacter
    <3> QED BY <1>1, <3>1 DEF AsRead
  <2>2. \A t \in doubtful' : AsRead(t.character, t.seen)'
    BY <1>1 DEF IInv, CharacterHeld, AsRead
  <2>3. ASSUME NEW g \in Handlers, g # h, HoldsCharacter(g)', HoldsCharacter(h)'
        PROVE  call'[g].character # call'[h].character
    <3>1. HoldsCharacter(g) /\ call'[g] = call[g]
      BY <2>3, OthersKeepTheirLocks DEF Moves, OthersStay
    <3> QED BY <2>3, <3>1 DEF IInv, CharacterHeld, LocksCharacter, RowLocked
  <2>4. ASSUME NEW f \in Handlers, NEW g \in Handlers, f # h, g # h,
               HoldsCharacter(f)', HoldsCharacter(g)', call'[f].character = call'[g].character
        PROVE  f = g
    <3>1. HoldsCharacter(f) /\ HoldsCharacter(g) /\ call'[f] = call[f] /\ call'[g] = call[g]
      BY <2>4, OthersKeepTheirLocks DEF Moves, OthersStay
    <3> QED BY <2>4, <3>1 DEF IInv, CharacterHeld
  <2>5. ASSUME NEW g \in Handlers, NEW t \in doubtful, HoldsCharacter(g)'
        PROVE  call'[g].character # t.character
    BY <2>5, OthersKeepTheirLocks
       DEF IInv, CharacterHeld, Moves, OthersStay, LocksCharacter, RowLocked
  <2>6. \A t, u \in doubtful' : t.character = u.character => t = u
    BY <1>1 DEF IInv, CharacterHeld
  <2>7. \A f, g \in Handlers :
          HoldsCharacter(f)' /\ HoldsCharacter(g)' /\ call'[f].character = call'[g].character => f = g
    BY <2>3, <2>4
  <2> QED BY <1>1, <2>1, <2>2, <2>5, <2>6, <2>7 DEF CharacterHeld
<1>6. RequestHeld'
  <2>1. ASSUME NEW g \in Handlers, HasInserted(g)'
        PROVE  row'[call'[g].request] = NoRow
    BY <1>1, <2>1, OthersKeepTheirLocks DEF IInv, RequestHeld, Moves, OthersStay, LocksRequest
  <2>2. ASSUME NEW g \in Handlers, g # h, HasInserted(g)', HasInserted(h)'
        PROVE  call'[g].request # call'[h].request
    <3>1. HasInserted(g) /\ call'[g] = call[g]
      BY <2>2, OthersKeepTheirLocks DEF Moves, OthersStay
    <3> QED BY <2>2, <3>1 DEF IInv, RequestHeld, LocksRequest
  <2>3. ASSUME NEW f \in Handlers, NEW g \in Handlers, f # h, g # h,
               HasInserted(f)', HasInserted(g)', call'[f].request = call'[g].request
        PROVE  f = g
    <3>1. HasInserted(f) /\ HasInserted(g) /\ call'[f] = call[f] /\ call'[g] = call[g]
      BY <2>3, OthersKeepTheirLocks DEF Moves, OthersStay
    <3> QED BY <2>3, <3>1 DEF IInv, RequestHeld
  <2>4. ASSUME NEW g \in Handlers, NEW t \in doubtful, HasInserted(g)'
        PROVE  call'[g].request # t.request
    BY <2>4, OthersKeepTheirLocks DEF IInv, RequestHeld, Moves, OthersStay, LocksRequest
  <2>5. \A f, g \in Handlers :
          HasInserted(f)' /\ HasInserted(g)' /\ call'[f].request = call'[g].request => f = g
    BY <2>2, <2>3
  <2>6. /\ \A t \in doubtful' : row'[t.request] = NoRow
        /\ \A t, u \in doubtful' : t.request = u.request => t = u
    BY <1>1 DEF IInv, RequestHeld
  <2> QED BY <1>1, <2>1, <2>4, <2>5, <2>6 DEF RequestHeld
<1> QED BY <1>2, <1>3, <1>4, <1>5, <1>6 DEF IInv

-----------------------------------------------------------------------------
(* The steps that CallStep covers                                          *)

\* A call that ends, with a report or without.
LEMMA ReturnMoves ==
    ASSUME IInv, NEW h \in Handlers, Return(h)
    PROVE  Moves(h) /\ LocksCharacter(h) /\ LocksRequest(h)
<1>1. pc'[h] = "idle" /\ CallTypes /\ OthersStay(h)
  BY DEF Return, Goto, IInv, TypeOK, CallTypes, OthersStay, PCs, Masks
<1> QED BY <1>1 DEF Moves, LocksCharacter, LocksRequest, HoldsCharacter, HasInserted

LEMMA AbortStep ==
    ASSUME IInv, NEW h \in Handlers, Abort(h), faults' \in 0 .. MaxFaults
    PROVE  IInv'
<1>1. Moves(h) /\ LocksCharacter(h) /\ LocksRequest(h)
  BY ReturnMoves DEF Abort
<1>2. UNCHANGED <<row, mask, world, doubtful, answered, raced>>
  BY DEF Abort
<1>3. /\ answered' \in [RequestIds -> SUBSET Records]
      /\ \A r \in RequestIds : answered'[r] \subseteq {row[r]} \ {NoRow}
  BY <1>2 DEF IInv, TypeOK, AnswersAreCommitted
<1> QED BY <1>1, <1>2, <1>3, CallStep

\* What does not report, abort or end: it goes on with what it has.
LEMMA GoesOnStep ==
    ASSUME IInv, NEW h \in Handlers, NEW label \in PCs, Goto(h, label), label # "idle",
           call' \in [Handlers -> Inputs \cup {NoCall}], call'[h] \in Inputs,
           seen' \in [Handlers -> Masks],
           \A g \in Handlers : g # h => call'[g] = call[g] /\ seen'[g] = seen[g],
           LocksCharacter(h), LocksRequest(h),
           UNCHANGED <<row, mask, world, doubtful, answered, raced, faults>>
    PROVE  IInv'
<1>1. Moves(h)
  BY DEF Moves, CallTypes, OthersStay, Goto, IInv, TypeOK
<1>2. /\ answered' \in [RequestIds -> SUBSET Records] /\ faults' \in 0 .. MaxFaults
      /\ \A r \in RequestIds : answered'[r] \subseteq {row[r]} \ {NoRow}
  BY DEF IInv, TypeOK, AnswersAreCommitted
<1> QED BY <1>1, <1>2, CallStep

\* The same with its input and what it read.
LEMMA KeepsGoingStep ==
    ASSUME IInv, NEW h \in Handlers, pc[h] # "idle",
           NEW label \in PCs, Goto(h, label), label # "idle",
           HoldsCharacter(h)' => HoldsCharacter(h), LocksRequest(h),
           UNCHANGED <<row, mask, world, call, seen, doubtful, answered, raced, faults>>
    PROVE  IInv'
<1>1. LocksCharacter(h)
  BY DEF LocksCharacter
<1>2. call'[h] \in Inputs
  BY DEF IInv, CallsKnown
<1>3. call' \in [Handlers -> Inputs \cup {NoCall}] /\ seen' \in [Handlers -> Masks]
  BY DEF IInv, TypeOK
<1> QED BY <1>1, <1>2, <1>3, GoesOnStep

\* A success is reported of the row that is there.
LEMMA ReportStep ==
    ASSUME IInv, NEW h \in Handlers, NEW r \in RequestIds, Return(h),
           \/ row[r] # NoRow /\ Report(r, row[r])
           \/ UNCHANGED answered,
           UNCHANGED <<row, mask, world, doubtful, raced, faults>>
    PROVE  IInv'
<1>1. Moves(h) /\ LocksCharacter(h) /\ LocksRequest(h)
  BY ReturnMoves
<1>2. /\ answered' \in [RequestIds -> SUBSET Records]
      /\ \A q \in RequestIds : answered'[q] \subseteq {row[q]} \ {NoRow}
  BY DEF Report, IInv, TypeOK, AnswersAreCommitted
<1>3. faults' \in 0 .. MaxFaults
  BY DEF IInv, TypeOK
<1> QED BY <1>1, <1>2, <1>3, CallStep

LEMMA RequestStep ==
    ASSUME IInv, NEW h \in Handlers, NEW input \in Inputs, RequestFlightPaths(h, input)
    PROVE  IInv'
<1>1. "find" \in PCs /\ Goto(h, "find") /\ pc'[h] = "find"
  BY DEF RequestFlightPaths, Goto, PCs, IInv, TypeOK
<1>2. LocksCharacter(h) /\ LocksRequest(h)
  BY <1>1 DEF LocksCharacter, LocksRequest, HoldsCharacter, HasInserted
<1>3. /\ call' \in [Handlers -> Inputs \cup {NoCall}] /\ call'[h] \in Inputs
      /\ seen' \in [Handlers -> Masks]
      /\ \A g \in Handlers : g # h => call'[g] = call[g] /\ seen'[g] = seen[g]
  BY DEF RequestFlightPaths, IInv, TypeOK
<1> QED BY <1>1, <1>2, <1>3, GoesOnStep DEF RequestFlightPaths

LEMMA FindStep ==
    ASSUME IInv, NEW h \in Handlers, FindRequest(h)
    PROVE  IInv'
<1>1. pc[h] = "find" /\ call[h].request \in RequestIds
  BY DEF FindRequest, IInv, CallsKnown, Inputs
<1>2. CASE row[call[h].request] = NoRow /\ Goto(h, "character") /\ UNCHANGED <<call, seen, answered>>
  <2>1. "character" \in PCs /\ pc'[h] = "character"
    BY <1>2 DEF Goto, PCs, IInv, TypeOK
  <2>2. ~HoldsCharacter(h)' /\ LocksRequest(h)
    BY <2>1 DEF LocksRequest, HoldsCharacter, HasInserted
  <2> QED BY <1>1, <1>2, <2>1, <2>2, KeepsGoingStep DEF FindRequest
<1>3. CASE /\ row[call[h].request] # NoRow /\ Return(h)
           /\ Report(call[h].request, row[call[h].request]) \/ UNCHANGED answered
  BY <1>1, <1>3, ReportStep DEF FindRequest
<1> QED BY <1>2, <1>3 DEF FindRequest

LEMMA ReconcileStep ==
    ASSUME IInv, NEW h \in Handlers, Reconcile(h)
    PROVE  IInv'
<1>1. call[h].request \in RequestIds
  BY DEF Reconcile, IInv, CallsKnown, Inputs
<1>2. \/ row[call[h].request] # NoRow /\ Report(call[h].request, row[call[h].request])
      \/ UNCHANGED answered
  BY DEF Reconcile
<1> QED BY <1>1, <1>2, ReportStep DEF Reconcile

LEMMA LockCharacterStep ==
    ASSUME IInv, NEW h \in Handlers, LockCharacter(h)
    PROVE  IInv'
<1>1. /\ pc[h] = "character" /\ call[h] \in Inputs /\ call[h].character \in Characters
      /\ ~RowLocked(call[h].character) /\ faults' \in 0 .. MaxFaults
  BY DEF LockCharacter, Blocked, IInv, CallsKnown, Inputs, TypeOK
<1>2. CASE Abort(h)
  BY <1>1, <1>2, AbortStep
<1>3. CASE /\ LoggedOut(call[h].character) /\ Goto(h, "insert")
           /\ seen' = [seen EXCEPT ![h] = mask[call[h].character]]
           /\ UNCHANGED <<row, mask, world, call, doubtful, answered, raced>>
  <2>1. "insert" \in PCs /\ pc'[h] = "insert"
    BY <1>3 DEF Goto, PCs, IInv, TypeOK
  <2>2. /\ seen' \in [Handlers -> Masks] /\ seen'[h] = mask[call[h].character]
        /\ \A g \in Handlers : g # h => seen'[g] = seen[g]
    BY <1>1, <1>3 DEF IInv, TypeOK
  <2>3. LocksCharacter(h)
    BY <1>1, <1>3, <2>2 DEF LocksCharacter, AsRead, LoggedOut
  <2>4. LocksRequest(h)
    BY <2>1 DEF LocksRequest, HasInserted
  <2>5. call' \in [Handlers -> Inputs \cup {NoCall}]
    BY <1>3 DEF IInv, TypeOK
  <2> QED BY <1>1, <1>3, <2>1, <2>2, <2>3, <2>4, <2>5, GoesOnStep DEF LockCharacter
<1> QED BY <1>2, <1>3 DEF LockCharacter

LEMMA InsertStep ==
    ASSUME IInv, NEW h \in Handlers, InsertRequest(h)
    PROVE  IInv'
<1>1. pc[h] = "insert" /\ faults' \in 0 .. MaxFaults
  BY DEF InsertRequest, IInv, TypeOK
<1>2. CASE Abort(h)
  BY <1>1, <1>2, AbortStep
<1>3. CASE row[call[h].request] = NoRow
  <2>1. PICK label \in {"update", "complete"} : Goto(h, label)
    BY <1>3 DEF InsertRequest
  <2>2. UNCHANGED <<row, mask, world, call, seen, doubtful, answered, raced, faults>>
    BY <1>3 DEF InsertRequest
  <2>3. label \in PCs /\ label # "idle"
    BY <2>1 DEF PCs
  <2>4. HoldsCharacter(h)
    BY <1>1 DEF HoldsCharacter
  <2>5. ASSUME NEW g \in Handlers, HasInserted(g)
        PROVE  call[g].request # call[h].request
    BY <1>1, <2>5 DEF InsertRequest, Blocked, HasInserted, HoldsGap
  <2>6. \A t \in doubtful : t.request # call[h].request
    BY <1>1 DEF InsertRequest, Blocked
  <2>7. LocksRequest(h)
    BY <1>3, <2>2, <2>5, <2>6 DEF LocksRequest
  <2> QED BY <1>1, <2>1, <2>2, <2>3, <2>4, <2>7, KeepsGoingStep
<1> QED BY <1>2, <1>3 DEF InsertRequest

\* The row is in the transaction: neither lock is given up.
LEMMA InsideStep ==
    ASSUME IInv, NEW h \in Handlers, HasInserted(h), NEW label \in {"complete", "commit"},
           Goto(h, label),
           UNCHANGED <<row, mask, world, call, seen, doubtful, answered, raced, faults>>
    PROVE  IInv'
<1>1. label \in PCs /\ label # "idle"
  BY DEF PCs
<1>2. pc[h] # "idle" /\ HoldsCharacter(h)
  BY DEF HasInserted, HoldsCharacter
<1>3. LocksRequest(h)
  BY DEF LocksRequest
<1> QED BY <1>1, <1>2, <1>3, KeepsGoingStep

LEMMA UpdateStep ==
    ASSUME IInv, NEW h \in Handlers, UpdateMask(h)
    PROVE  IInv'
<1>1. HasInserted(h) /\ faults' \in 0 .. MaxFaults
  BY DEF UpdateMask, HasInserted, IInv, TypeOK
<1>2. CASE Abort(h)
  BY <1>1, <1>2, AbortStep
<1>3. CASE ~Abort(h)
  BY <1>1, <1>3, InsideStep DEF UpdateMask
<1> QED BY <1>2, <1>3

LEMMA CompleteStep ==
    ASSUME IInv, NEW h \in Handlers, CompleteRequest(h)
    PROVE  IInv'
BY InsideStep DEF CompleteRequest, HasInserted

LEMMA FaultCounted ==
    ASSUME IInv, ConstantsFit, Fault
    PROVE  faults' \in 0 .. MaxFaults
BY DEF Fault, IInv, TypeOK, ConstantsFit

LEMMA FailStep ==
    ASSUME IInv, ConstantsFit, NEW h \in Handlers,
           OwnershipFails(h) \/ WaitEnds(h) \/ DatabaseError(h)
    PROVE  IInv'
<1>1. Abort(h)
  BY DEF OwnershipFails, WaitEnds, DatabaseError
<1>2. faults' \in 0 .. MaxFaults
  <2>1. faults' = faults => faults' \in 0 .. MaxFaults
    BY DEF IInv, TypeOK
  <2> QED BY <2>1, FaultCounted DEF OwnershipFails, WaitEnds, DatabaseError
<1> QED BY <1>1, <1>2, AbortStep

-----------------------------------------------------------------------------
(* A commit                                                                *)

LEMMA InsertedHolds ==
    ASSUME NEW h \in Handlers, HasInserted(h)
    PROVE  HoldsCharacter(h)
BY DEF HasInserted, HoldsCharacter

LEMMA TransactionType ==
    ASSUME IInv, NEW h \in Handlers, pc[h] # "idle"
    PROVE  /\ TransactionOf(h) \in Transactions
           /\ TransactionOf(h).request = call[h].request
           /\ TransactionOf(h).character = call[h].character
           /\ TransactionOf(h).seen = seen[h]
BY DEF IInv, TypeOK, CallsKnown, TransactionOf, Transactions, Inputs

LEMMA CommittedEffect ==
    ASSUME IInv, ConstantsFit, NEW t \in Transactions, AsRead(t.character, t.seen),
           row[t.request] = NoRow, Committed(t), UNCHANGED world
    PROVE  /\ row' \in [RequestIds -> Records \cup {NoRow}]
           /\ mask' \in [Characters -> Masks] /\ raced' \in SUBSET Characters
           /\ row'[t.request] = RecordOf(t) /\ RecordOf(t) \in Records
           /\ \A r \in RequestIds : r # t.request => row'[r] = row[r]
           /\ \A c \in Characters : c # t.character => mask'[c] = mask[c]
           /\ \A c \in Characters : mask[c] \subseteq mask'[c]
           /\ AppliedIsLearned'
<1> DEFINE c == t.character
<1>1. /\ t.request \in RequestIds /\ c \in Characters /\ t.seen \in Masks /\ Grant[c] \in Masks
      /\ mask[c] = t.seen /\ ~online[c]
  BY DEF Transactions, ConstantsFit, AsRead
<1>2. /\ RecordOf(t) \in Records /\ RecordOf(t).character = c
      /\ RecordOf(t).result = ResultOf(c, t.seen)
  BY <1>1 DEF RecordOf, Records, Results, ResultOf
<1>3. /\ row' = [row EXCEPT ![t.request] = RecordOf(t)]
      /\ mask' = [mask EXCEPT ![c] = IF RecordOf(t).result = "learned" THEN NewMask(c, t.seen) ELSE @]
      /\ raced' = IF memory[c] # NotLoaded /\ ~online[c] THEN raced \cup {c} ELSE raced
  BY DEF Committed
<1>4. mask'[c] = t.seen \cup Grant[c]
  <2>1. CASE ResultOf(c, t.seen) = "learned"
    BY <1>1, <1>2, <1>3, <2>1 DEF NewMask, IInv, TypeOK
  <2>2. CASE ResultOf(c, t.seen) # "learned"
    <3>1. Grant[c] \subseteq t.seen
      BY <2>2 DEF ResultOf
    <3>2. mask'[c] = mask[c]
      BY <1>1, <1>2, <1>3, <2>2 DEF IInv, TypeOK
    <3> QED BY <1>1, <3>1, <3>2
  <2> QED BY <2>1, <2>2
<1>5. /\ \A r \in RequestIds : r # t.request => row'[r] = row[r]
      /\ row'[t.request] = RecordOf(t)
      /\ \A d \in Characters : d # c => mask'[d] = mask[d]
  BY <1>1, <1>3 DEF IInv, TypeOK
<1>6. \A d \in Characters : mask[d] \subseteq mask'[d]
  BY <1>1, <1>4, <1>5
<1>7. row' \in [RequestIds -> Records \cup {NoRow}]
  BY <1>2, <1>3 DEF IInv, TypeOK
<1>8. mask' \in [Characters -> Masks] /\ raced' \in SUBSET Characters
  <2>1. t.seen \cup Grant[c] \in Masks
    BY <1>1 DEF Masks
  <2>2. \A d \in Characters : mask'[d] \in Masks
    BY <1>4, <1>5, <2>1 DEF IInv, TypeOK
  <2> QED BY <1>1, <1>3, <2>2 DEF IInv, TypeOK
<1>9. AppliedIsLearned'
  <2> SUFFICES ASSUME NEW r \in RequestIds, row'[r] # NoRow, row'[r].character \notin raced'
               PROVE  /\ Grant[row'[r].character] \subseteq mask'[row'[r].character]
                      /\ memory'[row'[r].character] # NotLoaded
                            => Grant[row'[r].character] \subseteq memory'[row'[r].character]
    BY DEF AppliedIsLearned
  <2>1. memory' = memory
    BY DEF world
  <2>2. CASE r = t.request
    <3>1. row'[r].character = c
      BY <1>2, <1>5, <2>2
    <3>2. memory[c] = NotLoaded
      BY <1>1, <1>3, <3>1
    <3> QED BY <1>4, <2>1, <3>1, <3>2
  <2>3. CASE r # t.request
    <3>1. row'[r] = row[r] /\ row[r].character \notin raced /\ row[r].character \in Characters
      BY <1>3, <1>5, <2>3 DEF IInv, TypeOK, Records
    <3>2. /\ Grant[row[r].character] \subseteq mask[row[r].character]
          /\ memory[row[r].character] # NotLoaded => Grant[row[r].character] \subseteq memory[row[r].character]
      BY <3>1 DEF IInv, AppliedIsLearned
    <3> QED BY <1>6, <2>1, <3>1, <3>2
  <2> QED BY <2>2, <2>3
<1> QED BY <1>2, <1>5, <1>6, <1>7, <1>8, <1>9

\* The transactions that are still open or in doubt are others, and keep
\* what they hold.
LEMMA OthersKeepHolding ==
    ASSUME IInv, NEW t \in Transactions, UNCHANGED online, doubtful' \subseteq doubtful,
           \A g \in Handlers : HoldsCharacter(g)' =>
               /\ HoldsCharacter(g) /\ call'[g] = call[g] /\ seen'[g] = seen[g]
               /\ call[g].character # t.character,
           \A g \in Handlers : HasInserted(g)' =>
               HasInserted(g) /\ call'[g] = call[g] /\ call[g].request # t.request,
           \A u \in doubtful' : u.character # t.character /\ u.request # t.request,
           \A r \in RequestIds : r # t.request => row'[r] = row[r],
           \A c \in Characters : c # t.character => mask'[c] = mask[c]
    PROVE  CharacterHeld' /\ RequestHeld'
<1>1. \A g \in Handlers : HoldsCharacter(g) => call[g].character \in Characters /\ call[g].request \in RequestIds
  BY DEF IInv, CallsKnown, Inputs, HoldsCharacter
<1>2. \A u \in doubtful : u.character \in Characters /\ u.request \in RequestIds
  BY DEF IInv, TypeOK, Transactions
<1>3. CharacterHeld'
  BY <1>1, <1>2 DEF IInv, CharacterHeld, AsRead
<1>4. \A g \in Handlers : HasInserted(g) => call[g].request \in RequestIds
  BY <1>1, InsertedHolds
<1>5. RequestHeld'
  BY <1>2, <1>4 DEF IInv, RequestHeld
<1> QED BY <1>3, <1>5

LEMMA CommitStep ==
    ASSUME IInv, ConstantsFit, NEW h \in Handlers, Commit(h)
    PROVE  IInv'
<1> DEFINE t == TransactionOf(h)
<1>1. /\ pc[h] = "commit" /\ HoldsCharacter(h) /\ HasInserted(h)
      /\ Committed(t) /\ Report(t.request, RecordOf(t)) /\ Return(h)
      /\ UNCHANGED <<world, doubtful, faults>>
  BY DEF Commit, HoldsCharacter, HasInserted
<1>2. /\ t \in Transactions /\ t.request = call[h].request
      /\ t.character = call[h].character /\ t.seen = seen[h]
  BY <1>1, TransactionType
<1> HIDE DEF t
<1>3. AsRead(t.character, t.seen) /\ row[t.request] = NoRow /\ t.request \in RequestIds
  BY <1>1, <1>2 DEF IInv, CharacterHeld, RequestHeld, Transactions
<1>4. /\ row' \in [RequestIds -> Records \cup {NoRow}]
      /\ mask' \in [Characters -> Masks] /\ raced' \in SUBSET Characters
      /\ row'[t.request] = RecordOf(t) /\ RecordOf(t) \in Records
      /\ \A r \in RequestIds : r # t.request => row'[r] = row[r]
      /\ \A c \in Characters : c # t.character => mask'[c] = mask[c]
      /\ AppliedIsLearned'
  BY <1>1, <1>2, <1>3, CommittedEffect
<1>5. Moves(h) /\ pc'[h] = "idle"
  BY <1>1, ReturnMoves DEF Return, Goto, IInv, TypeOK
<1>6. ~HoldsCharacter(h)' /\ ~HasInserted(h)'
  BY <1>5 DEF HoldsCharacter, HasInserted
<1>7. answered' \in [RequestIds -> SUBSET Records] /\ AnswersAreCommitted'
  BY <1>1, <1>3, <1>4 DEF Report, IInv, TypeOK, AnswersAreCommitted, ConstantsFit
<1>8. TypeOK'
  BY <1>1, <1>4, <1>5, <1>7 DEF IInv, TypeOK, Moves, CallTypes, world
<1>9. CallsKnown' /\ OnlineIsLoaded'
  BY <1>1, <1>5 DEF IInv, CallsKnown, OnlineIsLoaded, Moves, OthersStay, world
<1>10. ASSUME NEW g \in Handlers, HoldsCharacter(g)'
       PROVE  /\ HoldsCharacter(g) /\ call'[g] = call[g] /\ seen'[g] = seen[g]
              /\ call[g].character # t.character
  <2>1. g # h
    BY <1>6, <1>10
  <2>2. HoldsCharacter(g) /\ call'[g] = call[g] /\ seen'[g] = seen[g]
    BY <1>5, <1>10, <2>1, OthersKeepTheirLocks DEF Moves, OthersStay
  <2> QED BY <1>1, <1>2, <2>1, <2>2 DEF IInv, CharacterHeld
<1>11. ASSUME NEW g \in Handlers, HasInserted(g)'
       PROVE  HasInserted(g) /\ call'[g] = call[g] /\ call[g].request # t.request
  <2>1. g # h
    BY <1>6, <1>11
  <2>2. HasInserted(g) /\ call'[g] = call[g]
    BY <1>5, <1>11, <2>1, OthersKeepTheirLocks DEF Moves, OthersStay
  <2> QED BY <1>1, <1>2, <2>1, <2>2 DEF IInv, RequestHeld
<1>12. \A u \in doubtful' : u.character # t.character /\ u.request # t.request
  BY <1>1, <1>2 DEF IInv, CharacterHeld, RequestHeld
<1>13. CharacterHeld' /\ RequestHeld'
  BY <1>1, <1>2, <1>4, <1>10, <1>11, <1>12, OthersKeepHolding DEF world
<1> QED BY <1>4, <1>7, <1>8, <1>9, <1>13 DEF IInv

LEMMA DoubtfulCommitsStep ==
    ASSUME IInv, ConstantsFit, NEW t \in doubtful, DoubtfulCommits(t)
    PROVE  IInv'
<1>1. /\ Committed(t) /\ doubtful' = doubtful \ {t}
      /\ UNCHANGED <<world, calls, answered, faults>>
  BY DEF DoubtfulCommits
<1>2. UNCHANGED <<online, memory, pc, call, seen>>
  BY <1>1 DEF world, calls
<1>3. t \in Transactions /\ t.request \in RequestIds
  BY DEF IInv, TypeOK, Transactions
<1>4. AsRead(t.character, t.seen) /\ row[t.request] = NoRow
  BY DEF IInv, CharacterHeld, RequestHeld
<1>5. /\ row' \in [RequestIds -> Records \cup {NoRow}]
      /\ mask' \in [Characters -> Masks] /\ raced' \in SUBSET Characters
      /\ row'[t.request] = RecordOf(t) /\ RecordOf(t) \in Records
      /\ \A r \in RequestIds : r # t.request => row'[r] = row[r]
      /\ \A c \in Characters : c # t.character => mask'[c] = mask[c]
      /\ AppliedIsLearned'
  BY <1>1, <1>3, <1>4, CommittedEffect
<1>6. TypeOK' /\ CallsKnown' /\ OnlineIsLoaded'
  BY <1>1, <1>2, <1>5 DEF IInv, TypeOK, CallsKnown, OnlineIsLoaded
<1>7. AnswersAreCommitted'
  BY <1>1, <1>4, <1>5 DEF IInv, TypeOK, AnswersAreCommitted, ConstantsFit
<1>8. \A g \in Handlers : HoldsCharacter(g)' =>
          /\ HoldsCharacter(g) /\ call'[g] = call[g] /\ seen'[g] = seen[g]
          /\ call[g].character # t.character
  BY <1>2 DEF HoldsCharacter, IInv, CharacterHeld
<1>9. \A g \in Handlers : HasInserted(g)' =>
          HasInserted(g) /\ call'[g] = call[g] /\ call[g].request # t.request
  BY <1>2 DEF HasInserted, IInv, RequestHeld
<1>10. \A u \in doubtful' : u.character # t.character /\ u.request # t.request
  BY <1>1 DEF IInv, CharacterHeld, RequestHeld
<1>11. CharacterHeld' /\ RequestHeld'
  BY <1>1, <1>2, <1>3, <1>5, <1>8, <1>9, <1>10, OthersKeepHolding
<1> QED BY <1>5, <1>6, <1>7, <1>11 DEF IInv

-----------------------------------------------------------------------------
(* Commits left in doubt                                                   *)

\* Calls that were committing may become transactions in doubt, which keep
\* their locks; what is decided no longer has any.
LEMMA InDoubtStep ==
    ASSUME IInv, NEW left \in SUBSET {g \in Handlers : pc[g] = "commit"},
           doubtful' \subseteq doubtful \cup {TransactionOf(g) : g \in left}, CallTypes,
           \A g \in Handlers : pc'[g] # "idle" => call'[g] \in Inputs,
           \A g \in Handlers : HoldsCharacter(g)' =>
               HoldsCharacter(g) /\ g \notin left /\ call'[g] = call[g] /\ seen'[g] = seen[g],
           \A g \in Handlers : HasInserted(g)' => HasInserted(g) /\ g \notin left /\ call'[g] = call[g],
           UNCHANGED <<row, mask, world, answered, raced>>, faults' \in 0 .. MaxFaults
    PROVE  IInv'
<1>1. UNCHANGED <<row, mask, online, memory, answered, raced>>
  BY DEF world
<1>2. ASSUME NEW g \in left
      PROVE  /\ HoldsCharacter(g) /\ HasInserted(g)
             /\ TransactionOf(g) \in Transactions
             /\ TransactionOf(g).request = call[g].request
             /\ TransactionOf(g).character = call[g].character
             /\ TransactionOf(g).seen = seen[g]
  BY TransactionType DEF HoldsCharacter, HasInserted
<1>3. ASSUME NEW u \in doubtful'
      PROVE  /\ u \in Transactions /\ AsRead(u.character, u.seen) /\ row[u.request] = NoRow
             /\ \A g \in Handlers : HoldsCharacter(g)' => call[g].character # u.character
             /\ \A g \in Handlers : HasInserted(g)' => call[g].request # u.request
  <2>1. CASE u \in doubtful
    BY <2>1 DEF IInv, TypeOK, CharacterHeld, RequestHeld
  <2>2. CASE \E g \in left : u = TransactionOf(g)
    <3>1. PICK g \in left : u = TransactionOf(g)
      BY <2>2
    <3> QED BY <1>2, <3>1 DEF IInv, CharacterHeld, RequestHeld
  <2> QED BY <2>1, <2>2
<1>4. ASSUME NEW t \in doubtful', NEW u \in doubtful',
             t.character = u.character \/ t.request = u.request
      PROVE  t = u
  <2>1. CASE t \in doubtful /\ u \in doubtful
    BY <1>4, <2>1 DEF IInv, CharacterHeld, RequestHeld
  <2>2. ASSUME NEW v \in doubtful, NEW g \in left
        PROVE  v.character # TransactionOf(g).character /\ v.request # TransactionOf(g).request
    BY <1>2 DEF IInv, CharacterHeld, RequestHeld
  <2>3. ASSUME NEW f \in left, NEW g \in left,
               \/ TransactionOf(f).character = TransactionOf(g).character
               \/ TransactionOf(f).request = TransactionOf(g).request
        PROVE  TransactionOf(f) = TransactionOf(g)
    BY <1>2, <2>3 DEF IInv, CharacterHeld, RequestHeld
  <2> QED BY <1>4, <2>1, <2>2, <2>3
<1>5. TypeOK'
  BY <1>1, <1>3 DEF IInv, TypeOK, CallTypes
<1>6. CallsKnown' /\ OnlineIsLoaded' /\ AppliedIsLearned' /\ AnswersAreCommitted'
  BY <1>1 DEF IInv, CallsKnown, OnlineIsLoaded, AppliedIsLearned, AnswersAreCommitted
<1>7. CharacterHeld'
  BY <1>1, <1>3, <1>4 DEF IInv, CharacterHeld, AsRead
<1>8. RequestHeld'
  BY <1>1, <1>3, <1>4 DEF IInv, RequestHeld
<1> QED BY <1>5, <1>6, <1>7, <1>8 DEF IInv

LEMMA CommitFailsStep ==
    ASSUME IInv, ConstantsFit, NEW h \in Handlers, CommitFails(h)
    PROVE  IInv'
<1>1. /\ pc[h] = "commit" /\ doubtful' = doubtful \cup {TransactionOf(h)}
      /\ Goto(h, "reconcile")
      /\ UNCHANGED <<row, mask, world, call, seen, answered, raced>>
  BY DEF CommitFails
<1>2. faults' \in 0 .. MaxFaults
  BY FaultCounted DEF CommitFails
<1>3. CallTypes /\ \A g \in Handlers : pc'[g] # "idle" => call'[g] \in Inputs
  BY <1>1 DEF IInv, TypeOK, CallsKnown, CallTypes, Goto, PCs
<1>4. \A g \in Handlers : (HoldsCharacter(g)' => HoldsCharacter(g)) /\ (HasInserted(g)' => HasInserted(g))
  BY <1>1 DEF Goto, HoldsCharacter, HasInserted, IInv, TypeOK
<1>5. ~HoldsCharacter(h)' /\ ~HasInserted(h)'
  BY <1>1 DEF Goto, HoldsCharacter, HasInserted, IInv, TypeOK
<1>6. {h} \in SUBSET {g \in Handlers : pc[g] = "commit"}
  BY <1>1
<1> QED BY <1>1, <1>2, <1>3, <1>4, <1>5, <1>6, InDoubtStep

LEMMA CrashStep ==
    ASSUME IInv, ConstantsFit, Crash
    PROVE  IInv'
<1> DEFINE left == {g \in Handlers : pc[g] = "commit"}
<1>1. /\ doubtful' = doubtful \cup {TransactionOf(h) : h \in left}
      /\ pc' = [h \in Handlers |-> "idle"] /\ call' = [h \in Handlers |-> NoCall]
      /\ seen' = [h \in Handlers |-> {}]
      /\ UNCHANGED <<row, mask, world, answered, raced>>
  BY DEF Crash
<1>2. faults' \in 0 .. MaxFaults
  BY FaultCounted DEF Crash
<1>3. CallTypes
  BY <1>1 DEF CallTypes, PCs, Masks
<1>4. \A g \in Handlers : pc'[g] = "idle" /\ ~HoldsCharacter(g)' /\ ~HasInserted(g)'
  BY <1>1 DEF HoldsCharacter, HasInserted
<1> QED BY <1>1, <1>2, <1>3, <1>4, InDoubtStep

LEMMA RollBackStep ==
    ASSUME IInv, NEW t \in doubtful, DoubtfulRollsBack(t)
    PROVE  IInv'
<1>1. /\ doubtful' = doubtful \ {t}
      /\ UNCHANGED <<row, mask, world, pc, call, seen, answered, raced, faults>>
  BY DEF DoubtfulRollsBack, calls
<1>2. CallTypes /\ faults' \in 0 .. MaxFaults /\ \A g \in Handlers : pc'[g] # "idle" => call'[g] \in Inputs
  BY <1>1 DEF IInv, TypeOK, CallsKnown, CallTypes
<1>3. \A g \in Handlers : (HoldsCharacter(g)' => HoldsCharacter(g)) /\ (HasInserted(g)' => HasInserted(g))
  BY <1>1 DEF HoldsCharacter, HasInserted
<1>4. {} \in SUBSET {g \in Handlers : pc[g] = "commit"}
  OBVIOUS
<1> QED BY <1>1, <1>2, <1>3, <1>4, InDoubtStep

-----------------------------------------------------------------------------
(* The game server                                                         *)

\* A character has its flight paths, where it has a copy too.
HasPaths(c) == /\ Grant[c] \subseteq mask[c]
               /\ memory[c] # NotLoaded => Grant[c] \subseteq memory[c]

LEMMA ServerStep ==
    ASSUME IInv, UNCHANGED <<row, calls, doubtful, answered, raced, faults>>,
           mask' \in [Characters -> Masks], online' \in [Characters -> BOOLEAN],
           memory' \in [Characters -> Masks \cup {NotLoaded}], OnlineIsLoaded',
           \A c \in Characters : RowLocked(c) => AsRead(c, mask[c])',
           \A c \in Characters : RowLocked(c) => mask'[c] = mask[c],
           \A c \in Characters : HasPaths(c) => HasPaths(c)'
    PROVE  IInv'
<1>1. UNCHANGED <<row, pc, call, seen, doubtful, answered, raced, faults>>
  BY DEF calls
<1>2. TypeOK' /\ CallsKnown' /\ AnswersAreCommitted'
  BY <1>1 DEF IInv, TypeOK, CallsKnown, AnswersAreCommitted
<1>3. RequestHeld'
  BY <1>1 DEF IInv, RequestHeld, HasInserted
<1>4. \A h \in Handlers : HoldsCharacter(h) => call[h].character \in Characters /\ RowLocked(call[h].character)
  BY DEF IInv, CallsKnown, Inputs, HoldsCharacter, RowLocked
<1>5. \A t \in doubtful : t.character \in Characters /\ RowLocked(t.character)
  BY DEF IInv, TypeOK, Transactions, RowLocked
<1>6. \A h \in Handlers : HoldsCharacter(h)' = HoldsCharacter(h)
  BY <1>1 DEF HoldsCharacter
<1>7. CharacterHeld'
  BY <1>1, <1>4, <1>5, <1>6 DEF IInv, CharacterHeld, AsRead
<1>8. AppliedIsLearned'
  <2> SUFFICES ASSUME NEW r \in RequestIds, row[r] # NoRow, row[r].character \notin raced
               PROVE  HasPaths(row[r].character)'
    BY <1>1 DEF AppliedIsLearned, HasPaths
  <2>1. row[r].character \in Characters
    BY DEF IInv, TypeOK, Records
  <2>2. PICK c \in Characters : c = row[r].character
    BY <2>1
  <2>3. HasPaths(c)'
    BY <2>2 DEF IInv, AppliedIsLearned, HasPaths
  <2> QED BY <1>1, <2>2, <2>3 DEF HasPaths
<1> QED BY <1>2, <1>3, <1>7, <1>8 DEF IInv

\* A character whose row is locked is offline.
LEMMA LockedIsOffline ==
    ASSUME IInv, NEW c \in Characters, RowLocked(c)
    PROVE  ~online[c]
BY DEF IInv, CharacterHeld, AsRead, RowLocked

LEMMA LoadStep ==
    ASSUME IInv, NEW c \in Characters, Load(c)
    PROVE  IInv'
<1>1. /\ memory[c] = NotLoaded /\ memory' = [memory EXCEPT ![c] = mask[c]]
      /\ UNCHANGED <<row, mask, online, calls, doubtful, answered, raced, faults>>
  BY DEF Load
<1>2. memory' \in [Characters -> Masks \cup {NotLoaded}] /\ memory'[c] = mask[c] /\ mask[c] \in Masks
  BY <1>1 DEF IInv, TypeOK
<1>3. \A d \in Characters : d # c => memory'[d] = memory[d]
  BY <1>1 DEF IInv, TypeOK
<1>4. OnlineIsLoaded'
  BY <1>1, <1>2, <1>3 DEF IInv, OnlineIsLoaded
<1>5. \A d \in Characters : HasPaths(d) => HasPaths(d)'
  BY <1>1, <1>2, <1>3 DEF HasPaths
<1>6. mask' \in [Characters -> Masks] /\ online' \in [Characters -> BOOLEAN]
  BY <1>1 DEF IInv, TypeOK
<1>7. \A d \in Characters : RowLocked(d) => AsRead(d, mask[d])'
  BY <1>1, LockedIsOffline DEF AsRead
<1> QED BY <1>1, <1>2, <1>4, <1>5, <1>6, <1>7, ServerStep

LEMMA SetOnlineStep ==
    ASSUME IInv, NEW c \in Characters, SetOnline(c)
    PROVE  IInv'
<1>1. /\ memory[c] # NotLoaded /\ ~RowLocked(c) /\ online' = [online EXCEPT ![c] = TRUE]
      /\ UNCHANGED <<row, mask, memory, calls, doubtful, answered, raced, faults>>
  BY DEF SetOnline
<1>2. /\ online' \in [Characters -> BOOLEAN] /\ \A d \in Characters : d # c => online'[d] = online[d]
  BY <1>1 DEF IInv, TypeOK
<1>3. OnlineIsLoaded'
  BY <1>1, <1>2 DEF IInv, TypeOK, OnlineIsLoaded
<1>4. \A d \in Characters : HasPaths(d) => HasPaths(d)'
  BY <1>1 DEF HasPaths
<1>5. mask' \in [Characters -> Masks] /\ memory' \in [Characters -> Masks \cup {NotLoaded}]
  BY <1>1 DEF IInv, TypeOK
<1>6. \A d \in Characters : RowLocked(d) => ~online'[d]
  BY <1>1, <1>2, LockedIsOffline
<1>7. \A d \in Characters : RowLocked(d) => AsRead(d, mask[d])'
  BY <1>6 DEF AsRead
<1> QED BY <1>1, <1>2, <1>3, <1>4, <1>5, <1>7, ServerStep

LEMMA DiscoverStep ==
    ASSUME IInv, ConstantsFit, NEW c \in Characters, NEW n \in Nodes, Discover(c, n)
    PROVE  IInv'
<1>1. /\ online[c] /\ memory' = [memory EXCEPT ![c] = memory[c] \cup {n}]
      /\ UNCHANGED <<row, mask, online, calls, doubtful, answered, raced, faults>>
  BY DEF Discover
<1>2. memory[c] \in Masks /\ memory[c] \cup {n} \in Masks
  BY <1>1 DEF IInv, TypeOK, OnlineIsLoaded, Masks
<1>3. /\ memory' \in [Characters -> Masks \cup {NotLoaded}] /\ memory'[c] = memory[c] \cup {n}
      /\ \A d \in Characters : d # c => memory'[d] = memory[d]
  BY <1>1, <1>2 DEF IInv, TypeOK
<1>4. OnlineIsLoaded'
  BY <1>1, <1>2, <1>3 DEF IInv, OnlineIsLoaded, ConstantsFit
<1>5. memory[c] # NotLoaded
  BY <1>1 DEF IInv, OnlineIsLoaded
<1>6. \A d \in Characters : HasPaths(d) => HasPaths(d)'
  BY <1>1, <1>2, <1>3, <1>5 DEF HasPaths
<1>7. mask' \in [Characters -> Masks] /\ online' \in [Characters -> BOOLEAN]
  BY <1>1 DEF IInv, TypeOK
<1>8. \A d \in Characters : RowLocked(d) => AsRead(d, mask[d])'
  BY <1>1, LockedIsOffline DEF AsRead
<1> QED BY <1>1, <1>3, <1>4, <1>6, <1>7, <1>8, ServerStep

LEMMA SaveStep ==
    ASSUME IInv, NEW c \in Characters, Save(c) \/ Logout(c)
    PROVE  IInv'
<1>1. /\ online[c] /\ ~RowLocked(c) /\ mask' = [mask EXCEPT ![c] = memory[c]]
      /\ UNCHANGED <<row, calls, doubtful, answered, raced, faults>>
      /\ \/ UNCHANGED <<online, memory>>
         \/ /\ memory' = [memory EXCEPT ![c] = NotLoaded]
            /\ online' = [online EXCEPT ![c] = FALSE]
  BY DEF Save, Logout, world
<1>2. memory[c] \in Masks /\ memory[c] # NotLoaded
  BY <1>1 DEF IInv, TypeOK, OnlineIsLoaded
<1>3. /\ mask' \in [Characters -> Masks] /\ mask'[c] = memory[c]
      /\ \A d \in Characters : d # c => mask'[d] = mask[d] /\ memory'[d] = memory[d] /\ online'[d] = online[d]
  BY <1>1, <1>2 DEF IInv, TypeOK
<1>4. /\ online' \in [Characters -> BOOLEAN] /\ memory' \in [Characters -> Masks \cup {NotLoaded}]
      /\ memory'[c] \in {memory[c], NotLoaded}
      /\ online'[c] => memory'[c] = memory[c]
  BY <1>1 DEF IInv, TypeOK
<1>5. OnlineIsLoaded'
  BY <1>2, <1>3, <1>4 DEF IInv, OnlineIsLoaded
<1>6. \A d \in Characters : HasPaths(d) => HasPaths(d)'
  <2>1. ASSUME HasPaths(c) PROVE HasPaths(c)'
    BY <1>2, <1>3, <1>4, <2>1 DEF HasPaths
  <2>2. ASSUME NEW d \in Characters, d # c, HasPaths(d) PROVE HasPaths(d)'
    BY <1>3, <2>2 DEF HasPaths
  <2> QED BY <2>1, <2>2
<1>7. \A d \in Characters : RowLocked(d) => AsRead(d, mask[d])' /\ mask'[d] = mask[d]
  <2> SUFFICES ASSUME NEW d \in Characters, RowLocked(d)
               PROVE  AsRead(d, mask[d])' /\ mask'[d] = mask[d]
    OBVIOUS
  <2>1. d # c /\ ~online[d]
    BY <1>1, LockedIsOffline
  <2> QED BY <1>3, <2>1 DEF AsRead
<1> QED BY <1>1, <1>3, <1>4, <1>5, <1>6, <1>7, ServerStep

LEMMA WorldRestartsStep ==
    ASSUME IInv, WorldRestarts
    PROVE  IInv'
<1>1. /\ memory' = [c \in Characters |-> NotLoaded] /\ online' = [c \in Characters |-> FALSE]
      /\ UNCHANGED <<row, mask, calls, doubtful, answered, raced, faults>>
  BY DEF WorldRestarts
<1>2. /\ mask' \in [Characters -> Masks] /\ online' \in [Characters -> BOOLEAN]
      /\ memory' \in [Characters -> Masks \cup {NotLoaded}]
  BY <1>1 DEF IInv, TypeOK
<1>3. \A d \in Characters : HasPaths(d) => HasPaths(d)'
  BY <1>1 DEF HasPaths
<1>4. OnlineIsLoaded' /\ \A d \in Characters : RowLocked(d) => AsRead(d, mask[d])'
  BY <1>1 DEF OnlineIsLoaded, AsRead
<1> QED BY <1>1, <1>2, <1>3, <1>4, ServerStep

-----------------------------------------------------------------------------
(* The invariant holds in every reachable state.                           *)

LEMMA StutterStep ==
    ASSUME IInv, UNCHANGED vars
    PROVE  IInv'
<1>1. UNCHANGED <<row, mask, world, pc, call, seen, doubtful, answered, raced, faults>>
  BY DEF vars, calls
<1>2. CallTypes /\ faults' \in 0 .. MaxFaults /\ \A g \in Handlers : pc'[g] # "idle" => call'[g] \in Inputs
  BY <1>1 DEF IInv, TypeOK, CallsKnown, CallTypes
<1>3. \A g \in Handlers : (HoldsCharacter(g)' => HoldsCharacter(g)) /\ (HasInserted(g)' => HasInserted(g))
  BY <1>1 DEF HoldsCharacter, HasInserted
<1>4. {} \in SUBSET {g \in Handlers : pc[g] = "commit"}
  OBVIOUS
<1> QED BY <1>1, <1>2, <1>3, <1>4, InDoubtStep

LEMMA InitIInv == ConstantsFit /\ Init => IInv
<1> SUFFICES ASSUME ConstantsFit, Init PROVE IInv
  OBVIOUS
<1>1. TypeOK
  BY DEF Init, TypeOK, ConstantsFit, PCs, Masks
<1>2. CallsKnown /\ OnlineIsLoaded
  BY DEF Init, CallsKnown, OnlineIsLoaded
<1>3. CharacterHeld /\ RequestHeld
  BY DEF Init, CharacterHeld, RequestHeld, HoldsCharacter, HasInserted
<1>4. AppliedIsLearned /\ AnswersAreCommitted
  BY DEF Init, AppliedIsLearned, AnswersAreCommitted
<1> QED BY <1>1, <1>2, <1>3, <1>4 DEF IInv

LEMMA NextIInv == ConstantsFit /\ IInv /\ [Next]_vars => IInv'
<1> SUFFICES ASSUME ConstantsFit, IInv, [Next]_vars PROVE IInv'
  OBVIOUS
<1>1. ASSUME NEW h \in Handlers, \/ \E c \in Inputs : RequestFlightPaths(h, c)
                                 \/ FindRequest(h) \/ LockCharacter(h)
                                 \/ InsertRequest(h) \/ UpdateMask(h) \/ CompleteRequest(h)
      PROVE  IInv'
  BY <1>1, RequestStep, FindStep, LockCharacterStep, InsertStep, UpdateStep, CompleteStep
<1>2. ASSUME NEW h \in Handlers, Commit(h) \/ Reconcile(h) \/ CommitFails(h)
      PROVE  IInv'
  BY <1>2, CommitStep, ReconcileStep, CommitFailsStep
<1>3. ASSUME NEW h \in Handlers, OwnershipFails(h) \/ WaitEnds(h) \/ DatabaseError(h)
      PROVE  IInv'
  BY <1>3, FailStep
<1>4. CASE \E t \in doubtful : DoubtfulCommits(t) \/ DoubtfulRollsBack(t)
  BY <1>4, DoubtfulCommitsStep, RollBackStep
<1>5. ASSUME NEW c \in Characters,
             \/ Load(c) \/ SetOnline(c) \/ Save(c) \/ Logout(c)
             \/ \E n \in Nodes : Discover(c, n)
      PROVE  IInv'
  BY <1>5, LoadStep, SetOnlineStep, SaveStep, DiscoverStep
<1>6. CASE WorldRestarts
  BY <1>6, WorldRestartsStep
<1>7. CASE Crash
  BY <1>7, CrashStep
<1>8. CASE UNCHANGED vars
  BY <1>8, StutterStep
<1> QED BY <1>1, <1>2, <1>3, <1>4, <1>5, <1>6, <1>7, <1>8 DEF Next

\* The invariant of all the theorems below.
THEOREM Invariance == ASSUME ConstantsFit PROVE Spec => []IInv
<1>1. Init => IInv
  BY InitIInv
<1>2. IInv /\ [Next]_vars => IInv'
  BY NextIInv
<1> QED BY <1>1, <1>2, PTL DEF Spec

-----------------------------------------------------------------------------
(* The theorems                                                            *)

\* The tables, the game server's copies and the calls keep their types.
THEOREM TypeCorrect == ASSUME ConstantsFit PROVE Spec => []TypeOK
<1>1. IInv => TypeOK
  BY DEF IInv
<1> QED BY <1>1, Invariance, PTL

\* A committed request has taught its character the flight paths, in the
\* table and in the game, but for the login that had already begun.
THEOREM CommittedIsLearned == ASSUME ConstantsFit PROVE Spec => []AppliedIsLearned
<1>1. IInv => AppliedIsLearned
  BY DEF IInv
<1> QED BY <1>1, Invariance, PTL

\* Whoever hears of a success hears what the committed row says.
THEOREM SuccessIsCommitted == ASSUME ConstantsFit PROVE Spec => []AnswersAreCommitted
<1>1. IInv => AnswersAreCommitted
  BY DEF IInv
<1> QED BY <1>1, Invariance, PTL

\* What was read under the row lock is still true when the UPDATE and the
\* COMMIT rely on it, of a transaction in doubt as well.
THEOREM ReadsHold == ASSUME ConstantsFit PROVE Spec => [](CharacterHeld /\ RequestHeld)
<1>1. IInv => CharacterHeld /\ RequestHeld
  BY DEF IInv
<1> QED BY <1>1, Invariance, PTL

-----------------------------------------------------------------------------
(* No flight path is taken away by the boost.                              *)

LEMMA MaskStep ==
    ASSUME ConstantsFit, IInv, [Next]_vars, NEW c \in Characters, ~(mask[c] \subseteq mask'[c])
    PROVE  online[c] /\ mask'[c] = memory[c]
<1>1. mask' # mask
  OBVIOUS
<1>2. ASSUME NEW h \in Handlers, Commit(h) PROVE FALSE
  <2>1. /\ pc[h] = "commit" /\ HoldsCharacter(h) /\ HasInserted(h)
        /\ Committed(TransactionOf(h)) /\ UNCHANGED world
    BY <1>2 DEF Commit, HoldsCharacter, HasInserted
  <2>2. /\ TransactionOf(h) \in Transactions
        /\ AsRead(TransactionOf(h).character, TransactionOf(h).seen)
        /\ row[TransactionOf(h).request] = NoRow
    BY <2>1, TransactionType DEF IInv, CharacterHeld, RequestHeld
  <2> QED BY <2>1, <2>2, CommittedEffect
<1>3. ASSUME NEW t \in doubtful, DoubtfulCommits(t) PROVE FALSE
  <2>1. /\ t \in Transactions /\ AsRead(t.character, t.seen) /\ row[t.request] = NoRow
        /\ Committed(t) /\ UNCHANGED world
    BY <1>3 DEF DoubtfulCommits, IInv, TypeOK, CharacterHeld, RequestHeld
  <2> QED BY <2>1, CommittedEffect
<1>4. ASSUME NEW d \in Characters, Save(d) \/ Logout(d)
      PROVE  online[c] /\ mask'[c] = memory[c]
  <2>1. online[d] /\ mask' = [mask EXCEPT ![d] = memory[d]]
    BY <1>4 DEF Save, Logout
  <2>2. d = c
    BY <2>1 DEF IInv, TypeOK
  <2> QED BY <2>1, <2>2 DEF IInv, TypeOK
<1>5. ASSUME NEW h \in Handlers, \/ \E i \in Inputs : RequestFlightPaths(h, i)
                                 \/ FindRequest(h) \/ LockCharacter(h)
                                 \/ InsertRequest(h) \/ UpdateMask(h) \/ CompleteRequest(h)
      PROVE  FALSE
  BY <1>1, <1>5 DEF RequestFlightPaths, FindRequest, LockCharacter, InsertRequest,
                    UpdateMask, CompleteRequest, Abort
<1>6. ASSUME NEW h \in Handlers, \/ Reconcile(h) \/ CommitFails(h)
                                 \/ OwnershipFails(h) \/ WaitEnds(h) \/ DatabaseError(h)
      PROVE  FALSE
  BY <1>1, <1>6 DEF Reconcile, CommitFails, OwnershipFails, WaitEnds, DatabaseError, Abort
<1>7. ASSUME NEW d \in Characters,
             Load(d) \/ SetOnline(d) \/ \E n \in Nodes : Discover(d, n)
      PROVE  FALSE
  BY <1>1, <1>7 DEF Load, SetOnline, Discover
<1>8. ASSUME WorldRestarts \/ Crash \/ UNCHANGED vars \/ \E t \in doubtful : DoubtfulRollsBack(t)
      PROVE  FALSE
  BY <1>1, <1>8 DEF WorldRestarts, Crash, vars, DoubtfulRollsBack
<1> QED BY <1>2, <1>3, <1>4, <1>5, <1>6, <1>7, <1>8 DEF Next

\* Whatever was discovered or granted since the page was opened stays; only
\* the game server writes over a mask, with what it holds of a player online.
THEOREM BoostNeverForgets == ASSUME ConstantsFit PROVE Spec => NeverForgets
<1>1. IInv /\ [Next]_vars =>
        [\A c \in Characters :
            ~(mask[c] \subseteq mask'[c]) => online[c] /\ mask'[c] = memory[c]]_vars
  BY MaskStep
<1> QED BY <1>1, Invariance, PTL DEF Spec, NeverForgets

=============================================================================
