------------------------- MODULE PortalAccess_proof -------------------------
(***************************************************************************)
(* Proofs about PortalAccess, for every number of accounts, browsers, tabs *)
(* and requests and every limit: nothing is done for another account than  *)
(* the one a tab shows, the sessions stay within their limit, a change of  *)
(* the password ends the sessions opened before it, and an expired session *)
(* is served no more.                                                      *)
(*                                                                         *)
(* What each needs beside the types:                                       *)
(*   - a CSRF token names one account, wherever it is remembered: in a     *)
(*     session, a tab, a request or a reply on its way (TokensAgree);      *)
(*   - older orders the live sessions, so that those with few newer ones   *)
(*     are few (AgesAreOrdered);                                           *)
(*   - the time without use and the idle time of a session agree           *)
(*     (QuietIsIdle);                                                      *)
(*   - a request that was not served has neither been accepted nor         *)
(*     answered (CallFits).                                                *)
(***************************************************************************)
EXTENDS PortalAccess, TLAPS, FiniteSetTheorems

SessionNames(k, a) == \E s \in Live : sessions[s].csrf = k /\ sessions[s].account = a
TabNames(k, a) == \E t \in Tabs : tab[t].csrf = k /\ tab[t].account = a
CallNames(k, a) == \E c \in Calls : Busy(c) /\ call[c].csrf = k /\ call[c].believed = a
ReplyNames(k, a) == \E c \in Calls :
    /\ Busy(c) /\ call[c].reply.view # Keep
    /\ call[c].reply.view.csrf = k /\ call[c].reply.view.account = a

\* Somebody remembers token k as one of account a.
Names(k, a) == SessionNames(k, a) \/ TabNames(k, a) \/ CallNames(k, a) \/ ReplyNames(k, a)

TokensAgree == \A k \in CsrfTokens : \A a, b \in Accounts \cup {None} : Names(k, a) /\ Names(k, b) => a = b

\* What the requests that read or replace a verifier know by then.
Knows(r) ==
    /\ r.kind = "login" /\ r.stage # "replied" => r.account \in Accounts
    /\ r.kind = "login" /\ r.stage = "checked" => r.read \in Verifiers
    /\ r.kind = "password" =>
          /\ r.stage \in {"reading", "read", "updating", "updated"} => r.account \in Accounts
          /\ r.stage \in {"read", "updating", "updated"} => r.read \in Verifiers
          /\ r.stage \in {"updating", "updated"} => r.new \in Verifiers

CallFits(c) ==
    Busy(c) => /\ call[c].stage = "sent" => ~call[c].accepted /\ call[c].reply.view = Keep
               /\ call[c].kind \in Guarded /\ call[c].accepted => call[c].account = call[c].believed
               /\ Knows(call[c])

CallsFit == \A c \in Calls : CallFits(c)

AgesAreOrdered ==
    /\ \A s \in Live : s \notin sessions[s].older
    /\ \A s, t \in Live : s = t \/ s \in sessions[t].older \/ t \in sessions[s].older
    /\ \A s, t, u \in Live : s \in sessions[t].older /\ t \in sessions[u].older => s \in sessions[u].older

FewSessions == IsFiniteSet(Live) /\ Cardinality(Live) <= MaxSessions

QuietIsIdle == \A s \in Live : sessions[s].quiet = sessions[s].idle

IInv == /\ TypeOK
        /\ TokensAgree
        /\ CallsFit
        /\ AgesAreOrdered
        /\ FewSessions
        /\ QuietIsIdle
        /\ PasswordEndsSessions

-----------------------------------------------------------------------------
(* Finite orders: few newer ones mean few.                                 *)

\* A finite set that is totally ordered has a first element.
LEMMA FirstElement ==
    ASSUME NEW S, IsFiniteSet(S), S # {}, NEW before,
           \A s \in S : s \notin before[s],
           \A s, t \in S : s = t \/ s \in before[t] \/ t \in before[s],
           \A s, t, u \in S : s \in before[t] /\ t \in before[u] => s \in before[u]
    PROVE  \E s \in S : \A t \in S : t = s \/ s \in before[t]
<1> DEFINE Below(s) == {t \in S : t \in before[s]}
           T == {Below(s) : s \in S}
<1>1. T \subseteq FiniteSubsetsOf(S) /\ T # {}
  <2>1. \A s \in S : Below(s) \subseteq S /\ IsFiniteSet(Below(s))
    BY FS_Subset
  <2>2. \A s \in S : Below(s) \in FiniteSubsetsOf(S)
    BY <2>1 DEF FiniteSubsetsOf
  <2>3. T # {}
    <3>1. PICK s \in S : TRUE
      OBVIOUS
    <3>2. Below(s) \in T
      BY <3>1
    <3> QED BY <3>2
  <2> HIDE DEF Below
  <2> QED BY <2>2, <2>3
<1>2. PICK x \in T : \A y \in T : ~(<<y, x>> \in StrictSubsetOrdering(S))
  BY <1>1, FS_StrictSubsetOrderingWellFounded, WFMin
<1>3. PICK s \in S : x = Below(s)
  BY <1>2
<1>4. ASSUME NEW t \in S, t # s
      PROVE  s \in before[t]
  <2>1. SUFFICES ASSUME t \in before[s] PROVE FALSE
    BY <1>4
  <2>2. Below(t) \subseteq Below(s) /\ t \in Below(s) /\ t \notin Below(t)
    BY <1>4, <2>1
  <2>3. <<Below(t), Below(s)>> \in StrictSubsetOrdering(S)
    BY <2>2 DEF StrictSubsetOrdering
  <2> QED BY <1>2, <1>3, <2>3
<1> QED BY <1>4

\* The elements of S that come before fewer than n others.
After(s, S, before) == {t \in S : s \in before[t]}
Last(n, S, before) == {s \in S : Cardinality(After(s, S, before)) < n}

LEMMA FewNewerFew ==
    ASSUME NEW S, IsFiniteSet(S), NEW before, NEW n \in Nat,
           \A s \in S : s \notin before[s],
           \A s, t \in S : s = t \/ s \in before[t] \/ t \in before[s],
           \A s, t, u \in S : s \in before[t] /\ t \in before[u] => s \in before[u]
    PROVE  IsFiniteSet(Last(n, S, before)) /\ Cardinality(Last(n, S, before)) <= n
<1> DEFINE last == Last(n, S, before)
           after(s) == After(s, S, before)
<1>1. last \subseteq S /\ \A s \in last : Cardinality(after(s)) < n
  BY DEF Last
<1>2. IsFiniteSet(last) /\ Cardinality(last) \in Nat
  BY <1>1, FS_Subset, FS_CardinalityType
<1> HIDE DEF last
<1>3. CASE last # {}
  <2>1. PICK s \in last : \A t \in last : t = s \/ s \in before[t]
    BY <1>1, <1>2, <1>3, FirstElement
  <2>2. IsFiniteSet(after(s)) /\ Cardinality(after(s)) \in Nat /\ Cardinality(after(s)) < n
    BY <1>1, FS_Subset, FS_CardinalityType DEF After
  <2>3. last \ {s} \subseteq after(s)
    BY <1>1, <2>1 DEF After
  <2>4. Cardinality(last \ {s}) <= Cardinality(after(s))
    BY <2>2, <2>3, FS_Subset
  <2>5. Cardinality(last \ {s}) = Cardinality(last) - 1
    BY <1>2, FS_RemoveElement
  <2>6. Cardinality(last) <= n
    BY <1>2, <2>2, <2>4, <2>5
  <2> QED BY <1>2, <2>6 DEF last
<1>4. CASE last = {}
  <2>1. Cardinality(last) = 0
    BY <1>4, FS_EmptySet, Zenon
  <2>2. Cardinality(last) <= n
    BY <2>1
  <2> QED BY <1>2, <2>2 DEF last
<1> QED BY <1>3, <1>4

-----------------------------------------------------------------------------
(* What a step does to the sessions                                        *)

SessionTypes == [SessionIds -> Records \cup {None}]

\* Session s ended or is the one it was, but for its times.
Remains(s) == sessions'[s] # None =>
    /\ sessions[s] # None
    /\ sessions'[s].account = sessions[s].account
    /\ sessions'[s].older = sessions[s].older
    /\ sessions'[s].opened = sessions[s].opened
    /\ sessions[s].overtaken => sessions'[s].overtaken
    /\ sessions'[s].quiet = sessions'[s].idle

KeepsToken(s) == sessions'[s] # None => sessions'[s].csrf = sessions[s].csrf

StoreStays == sessions' \in SessionTypes /\ \A s \in SessionIds : Remains(s)
TokensStay == \A s \in SessionIds : KeepsToken(s)

LEMMA RecordType ==
    ASSUME TypeOK, NEW s \in SessionIds, sessions[s] # None
    PROVE  sessions[s] \in Records
BY DEF TypeOK

LEMMA RecordExcept ==
    ASSUME NEW r \in Records, NEW idle \in 0..IdleTimeout, NEW quiet \in 0..IdleTimeout,
           NEW age \in 0..AbsoluteTimeout
    PROVE  /\ [r EXCEPT !.idle = idle] \in Records
           /\ [r EXCEPT !.quiet = quiet] \in Records
           /\ [[r EXCEPT !.idle = idle] EXCEPT !.quiet = quiet] \in Records
           /\ [r EXCEPT !.age = age, !.idle = idle, !.quiet = quiet] \in Records
           /\ [r EXCEPT !.overtaken = TRUE] \in Records
BY DEF Records

\* A served request of session s, active or not, or a stranger's.
LEMMA GuardStays ==
    ASSUME TypeOK, QuietIsIdle, NEW c \in Calls, Guard(c)
    PROVE  StoreStays /\ TokensStay
<1> DEFINE s == call[c].cookie
<1>1. 0 \in 0..IdleTimeout
  BY LimitsType
<1>2. ASSUME NEW x \in SessionIds
      PROVE  sessions'[x] \in Records \cup {None} /\ Remains(x) /\ KeepsToken(x)
  <2>1. CASE sessions[x] = None
    BY <2>1 DEF Guard, Resolve, Active, Remains, KeepsToken
  <2>2. CASE sessions[x] # None
    <3>1. sessions[x] \in Records /\ sessions[x].quiet = sessions[x].idle
      BY <2>2, RecordType DEF QuietIsIdle, Live
    <3>2. sessions[x] # None
      BY <2>2
    <3> DEFINE r == sessions[x]
               touched == [[r EXCEPT !.idle = 0] EXCEPT !.quiet = 0]
    <3>3. touched \in Records
      BY <1>1, <3>1 DEF Records
    <3>4. /\ touched.account = r.account /\ touched.older = r.older /\ touched.opened = r.opened
          /\ touched.overtaken = r.overtaken /\ touched.csrf = r.csrf
          /\ touched.quiet = 0 /\ touched.idle = 0
      BY <3>1 DEF Records
    <3>5. sessions'[x] \in {None, r, touched}
      BY <2>2 DEF Guard, Resolve, Active, Found, Live
    <3> HIDE DEF touched
    <3> QED BY <3>1, <3>2, <3>3, <3>4, <3>5 DEF Remains, KeepsToken
  <2> QED BY <2>1, <2>2
<1>3. sessions' = [x \in SessionIds |-> sessions'[x]]
  BY DEF Guard, Resolve, Active
<1> QED BY <1>2, <1>3 DEF StoreStays, TokensStay, SessionTypes

LEMMA ResolveStays ==
    ASSUME TypeOK, QuietIsIdle, NEW s, sessions' = Resolve(s, FALSE)
    PROVE  StoreStays /\ TokensStay
<1>1. ASSUME NEW x \in SessionIds
      PROVE  sessions'[x] \in Records \cup {None} /\ Remains(x) /\ KeepsToken(x)
  <2>1. sessions'[x] \in {None, sessions[x]}
    BY DEF Resolve
  <2> QED BY <2>1 DEF TypeOK, QuietIsIdle, Live, Remains, KeepsToken
<1>2. sessions' = [x \in SessionIds |-> sessions'[x]]
  BY DEF Resolve
<1> QED BY <1>1, <1>2 DEF StoreStays, TokensStay, SessionTypes

\* Sessions that are left as they are, if they are left.
LEMMA LeftStays ==
    ASSUME TypeOK, QuietIsIdle, sessions' = [s \in SessionIds |-> sessions'[s]],
           \A s \in SessionIds : sessions'[s] \in {None, sessions[s]}
    PROVE  StoreStays /\ TokensStay
<1>1. \A s \in SessionIds : sessions'[s] \in Records \cup {None} /\ Remains(s) /\ KeepsToken(s)
  BY DEF TypeOK, QuietIsIdle, Live, Remains, KeepsToken
<1> QED BY <1>1 DEF StoreStays, TokensStay, SessionTypes

LEMMA UnchangedStays ==
    ASSUME TypeOK, QuietIsIdle, UNCHANGED sessions
    PROVE  StoreStays /\ TokensStay
<1>1. sessions = [s \in SessionIds |-> sessions[s]]
  BY DEF TypeOK
<1> QED BY <1>1, LeftStays

LEMMA InvalidateStays ==
    ASSUME TypeOK, QuietIsIdle, NEW s, sessions' = Invalidate(s)
    PROVE  StoreStays /\ TokensStay
BY LeftStays DEF Invalidate

LEMMA InvalidateAccountStays ==
    ASSUME TypeOK, QuietIsIdle, NEW a, sessions' = InvalidateAccount(a)
    PROVE  StoreStays /\ TokensStay
BY LeftStays DEF InvalidateAccount

LEMMA TickStays ==
    ASSUME TypeOK, QuietIsIdle, Tick
    PROVE  StoreStays /\ TokensStay
<1>1. ASSUME NEW x \in SessionIds
      PROVE  sessions'[x] \in Records \cup {None} /\ Remains(x) /\ KeepsToken(x)
  <2>1. CASE sessions[x] = None
    BY <2>1 DEF Tick, Remains, KeepsToken
  <2>2. CASE sessions[x] # None
    <3> DEFINE r == sessions[x]
               older == [r EXCEPT !.age = Later(r.age, AbsoluteTimeout),
                                  !.idle = Later(r.idle, IdleTimeout),
                                  !.quiet = Later(r.quiet, IdleTimeout)]
    <3>1. r \in Records /\ r.quiet = r.idle
      BY <2>2, RecordType DEF QuietIsIdle, Live
    <3>2. /\ Later(r.age, AbsoluteTimeout) \in 0..AbsoluteTimeout
          /\ Later(r.idle, IdleTimeout) \in 0..IdleTimeout
          /\ Later(r.quiet, IdleTimeout) = Later(r.idle, IdleTimeout)
      BY <3>1, LimitsType DEF Records, Later
    <3>3. older \in Records
      BY <3>1, <3>2 DEF Records
    <3>4. /\ older.account = r.account /\ older.older = r.older /\ older.opened = r.opened
          /\ older.overtaken = r.overtaken /\ older.csrf = r.csrf
          /\ older.quiet = older.idle
      BY <3>1, <3>2 DEF Records
    <3>5. sessions'[x] = older
      BY <2>2 DEF Tick
    <3> HIDE DEF older
    <3> QED BY <2>2, <3>3, <3>4, <3>5 DEF Remains, KeepsToken
  <2> QED BY <2>1, <2>2
<1>2. sessions' = [x \in SessionIds |-> sessions'[x]]
  BY DEF Tick
<1> QED BY <1>1, <1>2 DEF StoreStays, TokensStay, SessionTypes

\* What stays of the sessions stays ordered and few.
LEMMA StoreStaysOrdered ==
    ASSUME AgesAreOrdered, FewSessions, StoreStays
    PROVE  AgesAreOrdered' /\ FewSessions' /\ QuietIsIdle'
<1>1. \A s \in Live' : s \in Live /\ sessions'[s].older = sessions[s].older
  BY DEF Live, StoreStays, Remains
<1>2. AgesAreOrdered'
  BY <1>1 DEF AgesAreOrdered
<1>3. Live' \in SUBSET Live
  BY <1>1
<1>4. IsFiniteSet(Live') /\ Cardinality(Live') <= Cardinality(Live)
  BY <1>3, FS_Subset DEF FewSessions
<1>5. Cardinality(Live) \in Nat /\ Cardinality(Live') \in Nat
  BY <1>4, FS_CardinalityType DEF FewSessions
<1>6. FewSessions'
  BY <1>4, <1>5, LimitsType DEF FewSessions
<1>7. QuietIsIdle'
  BY DEF QuietIsIdle, StoreStays, Remains, Live
<1> QED BY <1>2, <1>6, <1>7

LEMMA StoreStaysNames ==
    ASSUME StoreStays, TokensStay, NEW k, NEW a, SessionNames(k, a)'
    PROVE  SessionNames(k, a)
BY DEF SessionNames, StoreStays, TokensStay, Remains, KeepsToken, Live

-----------------------------------------------------------------------------
(* A new session                                                           *)

LEMMA KeptFew ==
    ASSUME TypeOK, AgesAreOrdered, FewSessions, NEW prior
    PROVE  /\ Kept(prior) \subseteq Live /\ IsFiniteSet(Kept(prior))
           /\ Cardinality(Kept(prior)) <= MaxSessions - 1
<1> DEFINE left == Pruned(prior)
           before == [s \in SessionIds |-> sessions[s].older]
<1>1. left \subseteq Live /\ left \subseteq SessionIds
  BY DEF Pruned, Live
<1>2. IsFiniteSet(left)
  BY <1>1, FS_Subset DEF FewSessions
<1>3. /\ \A s \in left : s \notin before[s]
      /\ \A s, t \in left : s = t \/ s \in before[t] \/ t \in before[s]
      /\ \A s, t, u \in left : s \in before[t] /\ t \in before[u] => s \in before[u]
  BY <1>1 DEF AgesAreOrdered
<1>4. MaxSessions - 1 \in Nat
  BY LimitsType
<1>5. \A s \in left : After(s, left, before) = Newer(s, left)
  BY <1>1 DEF Newer, After
<1>6. Last(MaxSessions - 1, left, before) = Kept(prior)
  BY <1>5 DEF Kept, Last
<1> HIDE DEF left, before
<1>7. /\ IsFiniteSet(Last(MaxSessions - 1, left, before))
      /\ Cardinality(Last(MaxSessions - 1, left, before)) <= MaxSessions - 1
  BY <1>2, <1>3, <1>4, FewNewerFew
<1>8. Kept(prior) \subseteq left
  BY DEF Kept, left
<1> QED BY <1>1, <1>6, <1>7, <1>8

LEMMA CreateEffect ==
    ASSUME TypeOK, AgesAreOrdered, FewSessions, QuietIsIdle,
           NEW s \in SessionIds, s \notin Live, NEW prior,
           NEW record \in Records, record.quiet = record.idle,
           sessions' = Create(s, record, prior)
    PROVE  /\ sessions' \in SessionTypes
           /\ AgesAreOrdered' /\ FewSessions' /\ QuietIsIdle'
           /\ sessions'[s].csrf = record.csrf /\ sessions'[s].account = record.account
           /\ sessions'[s].opened = record.opened /\ sessions'[s].overtaken = record.overtaken
           /\ \A x \in Live' : x # s =>
                 /\ x \in Live
                 /\ sessions'[x].csrf = sessions[x].csrf /\ sessions'[x].account = sessions[x].account
                 /\ sessions'[x].opened = sessions[x].opened
                 /\ sessions'[x].overtaken = sessions[x].overtaken
<1> DEFINE kept == Kept(prior)
           new == [record EXCEPT !.older = kept]
           left(x) == [sessions[x] EXCEPT !.older = sessions[x].older \cap kept]
<1>1. /\ kept \subseteq Live /\ IsFiniteSet(kept) /\ Cardinality(kept) <= MaxSessions - 1
      /\ kept \subseteq SessionIds
  BY KeptFew DEF Live
<1>2. /\ new \in Records /\ new.older = kept /\ new.quiet = new.idle
      /\ new.csrf = record.csrf /\ new.account = record.account
      /\ new.opened = record.opened /\ new.overtaken = record.overtaken
  BY <1>1 DEF Records
<1>3. ASSUME NEW x \in kept
      PROVE  /\ left(x) \in Records
             /\ left(x).older = sessions[x].older \cap kept
             /\ left(x).quiet = left(x).idle
             /\ left(x).csrf = sessions[x].csrf /\ left(x).account = sessions[x].account
             /\ left(x).opened = sessions[x].opened /\ left(x).overtaken = sessions[x].overtaken
  <2>1. sessions[x] \in Records /\ sessions[x].quiet = sessions[x].idle /\ x \in SessionIds
    BY <1>1, RecordType DEF Live, QuietIsIdle
  <2> QED BY <1>1, <2>1 DEF Records
<1>4. s \notin kept
  BY <1>1
<1>5. /\ sessions' = [x \in SessionIds |-> sessions'[x]]
      /\ sessions'[s] = new
      /\ \A x \in kept : sessions'[x] = left(x)
      /\ \A x \in SessionIds : x \notin kept /\ x # s => sessions'[x] = None
  BY <1>1, <1>4 DEF Create
<1> HIDE DEF kept, new, left
<1>6. sessions' \in SessionTypes
  <2>1. \A x \in SessionIds : sessions'[x] \in Records \cup {None}
    BY <1>2, <1>3, <1>5
  <2> QED BY <1>5, <2>1 DEF SessionTypes
<1>7. Live' \subseteq kept \cup {s}
  BY <1>5 DEF Live
<1>8. /\ sessions'[s].older = kept
      /\ \A x \in kept : sessions'[x].older = sessions[x].older \cap kept
  BY <1>2, <1>3, <1>5
<1>9. AgesAreOrdered'
  <2>1. \A x \in Live' : x \notin sessions'[x].older
    BY <1>1, <1>4, <1>7, <1>8 DEF AgesAreOrdered
  <2>2. \A x, y \in Live' : x = y \/ x \in sessions'[y].older \/ y \in sessions'[x].older
    BY <1>1, <1>4, <1>7, <1>8 DEF AgesAreOrdered
  <2>3. \A x, y, z \in Live' : x \in sessions'[y].older /\ y \in sessions'[z].older
                                 => x \in sessions'[z].older
    BY <1>1, <1>4, <1>7, <1>8 DEF AgesAreOrdered
  <2> QED BY <2>1, <2>2, <2>3 DEF AgesAreOrdered
<1>10. FewSessions'
  <2>1. IsFiniteSet(kept \cup {s}) /\ Cardinality(kept \cup {s}) = Cardinality(kept) + 1
    BY <1>1, <1>4, FS_AddElement
  <2>2. IsFiniteSet(Live') /\ Cardinality(Live') <= Cardinality(kept \cup {s})
    BY <1>7, <2>1, FS_Subset
  <2>3. Cardinality(kept) \in Nat /\ Cardinality(Live') \in Nat
    BY <1>1, <2>2, FS_CardinalityType
  <2> QED BY <1>1, <2>1, <2>2, <2>3, LimitsType DEF FewSessions
<1>11. QuietIsIdle'
  BY <1>2, <1>3, <1>5, <1>7 DEF QuietIsIdle
<1>12. \A x \in Live' : x # s => x \in Live /\ x \in kept
  BY <1>1, <1>7
<1> QED BY <1>2, <1>3, <1>5, <1>6, <1>9, <1>10, <1>11, <1>12

-----------------------------------------------------------------------------
(* What a step does to the requests                                        *)

CallTypes == [Calls -> CallRecords \cup {NoCall}]

\* Request c is moved on, the others wait.  If it becomes accepted, its token
\* is the one of the session of its cookie, for whose account it is done.
Advances(c) ==
    /\ Busy(c) /\ call' \in CallTypes
    /\ \A d \in Calls : d # c => call'[d] = call[d]
    /\ call'[c].kind = call[c].kind /\ call'[c].believed = call[c].believed
    /\ call'[c].stage # "sent" /\ Knows(call'[c])
    /\ call'[c].csrf \in {None, call[c].csrf}
    /\ call'[c].reply.view \in {Keep, SignedOut, call[c].reply.view}
    /\ call'[c].kind \in Guarded /\ call'[c].accepted =>
          \/ call[c].accepted /\ call'[c].account = call[c].account
          \/ Passes(c) /\ call'[c].account = sessions[call[c].cookie].account

LEMMA CallType ==
    ASSUME TypeOK, NEW c \in Calls, Busy(c)
    PROVE  call[c] \in CallRecords
BY DEF TypeOK, Busy

LEMMA OneCall ==
    ASSUME TypeOK, NEW c \in Calls, NEW r \in CallRecords \cup {NoCall}, call' = [call EXCEPT ![c] = r]
    PROVE  /\ call' \in CallTypes /\ call'[c] = r
           /\ \A d \in Calls : d # c => call'[d] = call[d]
BY DEF TypeOK, CallTypes

LEMMA AnsweredType ==
    ASSUME TypeOK, NEW c \in Calls, Busy(c),
           NEW cookie \in {Keep, Clear} \cup SessionIds, NEW view \in {Keep} \cup Views
    PROVE  /\ Answered(c, cookie, view) \in CallRecords
           /\ Answered(c, cookie, view).kind = call[c].kind
           /\ Answered(c, cookie, view).tab = call[c].tab
           /\ Answered(c, cookie, view).stage = "replied"
           /\ Answered(c, cookie, view).cookie = None
           /\ Answered(c, cookie, view).csrf = None
           /\ Answered(c, cookie, view).believed = call[c].believed
           /\ Answered(c, cookie, view).account = call[c].account
           /\ Answered(c, cookie, view).accepted = call[c].accepted
           /\ Answered(c, cookie, view).reply = [cookie |-> cookie, view |-> view]
           /\ Answered(c, cookie, view).reply.view = view
<1>1. call[c] \in CallRecords
  BY CallType
<1>2. [cookie |-> cookie, view |-> view] \in Replies
  BY DEF Replies
<1> QED BY <1>1, <1>2 DEF Answered, CallRecords, Stages

LEMMA AnsweredAccepted ==
    ASSUME TypeOK, NEW c \in Calls, Busy(c), NEW cookie, NEW view
    PROVE  Answered(c, cookie, view).accepted = call[c].accepted
<1>1. call[c] \in CallRecords
  BY CallType
<1> QED BY <1>1 DEF Answered, CallRecords

LEMMA PlainAnswer ==
    ASSUME TypeOK, NEW c \in Calls, Busy(c),
           NEW cookie \in {Keep, Clear}, NEW view \in {Keep, SignedOut}
    PROVE  /\ Answered(c, cookie, view) \in CallRecords
           /\ Answered(c, cookie, view).kind = call[c].kind
           /\ Answered(c, cookie, view).stage = "replied"
           /\ Answered(c, cookie, view).csrf = None
           /\ Answered(c, cookie, view).believed = call[c].believed
           /\ Answered(c, cookie, view).reply.view = view
<1>1. cookie \in {Keep, Clear} \cup SessionIds /\ view \in {Keep} \cup Views
  BY DEF Views
<1> QED BY <1>1, AnsweredType

LEMMA AnswerAdvances ==
    ASSUME TypeOK, NEW c \in Calls, Busy(c), NEW cookie \in {Keep, Clear} \cup SessionIds,
           NEW view \in {Keep, SignedOut}, Answer(c, cookie, view)
    PROVE  Advances(c)
<1> DEFINE r == Answered(c, cookie, view)
<1>1. view \in {Keep} \cup Views
  BY DEF Views
<1>2. call' = [call EXCEPT ![c] = r]
  BY DEF Answer
<1>3. /\ r \in CallRecords /\ r.kind = call[c].kind /\ r.stage = "replied" /\ r.csrf = None
      /\ r.believed = call[c].believed /\ r.account = call[c].account
      /\ r.accepted = call[c].accepted /\ r.reply.view = view
  <2>1. r \in CallRecords /\ r.kind = call[c].kind /\ r.stage = "replied" /\ r.csrf = None
    BY <1>1, AnsweredType
  <2>2. r.believed = call[c].believed /\ r.account = call[c].account /\ r.reply.view = view
    BY <1>1, AnsweredType
  <2>3. r.accepted = call[c].accepted
    BY AnsweredAccepted
  <2> QED BY <2>1, <2>2, <2>3
<1> HIDE DEF r
<1>4. /\ call' \in CallTypes /\ call'[c] = r
      /\ \A d \in Calls : d # c => call'[d] = call[d]
  BY <1>2, <1>3, OneCall
<1> QED BY <1>3, <1>4 DEF Advances, Knows

\* The guard let request c through, whatever is answered or done next.
LEMMA AcceptedAdvances ==
    ASSUME TypeOK, NEW c \in Calls, Busy(c), Passes(c), NEW r \in CallRecords,
           r.kind = call[c].kind, r.believed = call[c].believed, r.stage # "sent",
           r.csrf \in {None, call[c].csrf}, r.reply.view \in {Keep, SignedOut, call[c].reply.view},
           r.account = sessions[call[c].cookie].account, Knows(r),
           call' = [call EXCEPT ![c] = r]
    PROVE  Advances(c)
BY OneCall DEF Advances

\* Any other step of request c before its reply.
LEMMA MiddleAdvances ==
    ASSUME TypeOK, NEW c \in Calls, Busy(c), NEW r \in CallRecords,
           r.kind = call[c].kind, r.believed = call[c].believed, r.stage # "sent",
           r.csrf = call[c].csrf, r.reply = call[c].reply,
           r.account = call[c].account, r.accepted = call[c].accepted, Knows(r),
           call' = [call EXCEPT ![c] = r]
    PROVE  Advances(c)
BY OneCall DEF Advances

LEMMA AdvanceNames ==
    ASSUME NEW c \in Calls, Advances(c), NEW k \in CsrfTokens, NEW a,
           CallNames(k, a)' \/ ReplyNames(k, a)'
    PROVE  CallNames(k, a) \/ ReplyNames(k, a)
<1>1. k # None
  BY NewValues
<1>2. CASE CallNames(k, a)'
  BY <1>1, <1>2 DEF CallNames, Advances, Busy
<1>3. CASE ReplyNames(k, a)'
  <2>1. PICK d \in Calls : /\ Busy(d)' /\ call'[d].reply.view # Keep
                           /\ call'[d].reply.view.csrf = k /\ call'[d].reply.view.account = a
    BY <1>3 DEF ReplyNames
  <2>2. call'[d].reply.view # SignedOut
    BY <1>1, <2>1 DEF SignedOut
  <2> QED BY <2>1, <2>2 DEF ReplyNames, Advances, Busy
<1> QED BY <1>2, <1>3

LEMMA AdvanceFits ==
    ASSUME TypeOK, TokensAgree, CallsFit, NEW c \in Calls, Advances(c)
    PROVE  CallsFit'
<1>1. ASSUME NEW d \in Calls, d # c
      PROVE  CallFits(d)'
  BY <1>1 DEF CallsFit, CallFits, Advances, Busy
<1>2. CallFits(c)'
  <2>1. ASSUME call'[c].kind \in Guarded, call'[c].accepted
        PROVE  call'[c].account = call'[c].believed
    <3>1. CASE call[c].accepted /\ call'[c].account = call[c].account
      BY <2>1, <3>1 DEF CallsFit, CallFits, Advances
    <3>2. CASE Passes(c) /\ call'[c].account = sessions[call[c].cookie].account
      <4> DEFINE s == call[c].cookie
                 k == call[c].csrf
      <4>1. call[c].kind # "read"
        BY <2>1 DEF Advances, Guarded
      <4>2. s \in Live /\ sessions[s].csrf = k
        BY <3>2, <4>1 DEF Passes, Found, VerifyCsrf
      <4>3. sessions[s] \in Records /\ call[c] \in CallRecords
        BY <4>2, RecordType, CallType DEF Live, Advances
      <4>4. k \in CsrfTokens /\ sessions[s].account \in Accounts /\ call[c].believed \in Accounts \cup {None}
        BY <4>2, <4>3 DEF Records, CallRecords
      <4>5. Names(k, sessions[s].account) /\ Names(k, call[c].believed)
        BY <4>2 DEF Names, SessionNames, CallNames, Advances
      <4>6. sessions[s].account = call[c].believed
        BY <4>4, <4>5 DEF TokensAgree
      <4> QED BY <3>2, <4>6 DEF Advances
    <3> QED BY <2>1, <3>1, <3>2 DEF Advances
  <2> QED BY <2>1 DEF CallFits, Advances
<1> QED BY <1>1, <1>2 DEF CallsFit

LEMMA NamesStay ==
    ASSUME TokensAgree,
           \A k \in CsrfTokens : \A a \in Accounts \cup {None} : Names(k, a)' => Names(k, a)
    PROVE  TokensAgree'
BY DEF TokensAgree

\* A fresh token may name anybody.
LEMMA FreshNames ==
    ASSUME NEW k, FreshCsrf(k), NEW a
    PROVE  ~Names(k, a)
BY DEF FreshCsrf, Names, SessionNames, TabNames, CallNames, ReplyNames

LEMMA NewNames ==
    ASSUME TokensAgree, NEW n, FreshCsrf(n), NEW b,
           \A k \in CsrfTokens : \A a \in Accounts \cup {None} :
               Names(k, a)' => Names(k, a) \/ (k = n /\ a = b)
    PROVE  TokensAgree'
BY FreshNames DEF TokensAgree

\* A step that moves no request at "updated", if any, leaves a change under way.
LEMMA PasswordStays ==
    ASSUME TypeOK, PasswordEndsSessions, StoreStays, UNCHANGED verifier,
           \A a \in Accounts : Changing(a) => \/ Changing(a)'
                                              \/ \A s \in Live' : sessions'[s].account # a
    PROVE  PasswordEndsSessions'
<1> SUFFICES ASSUME NEW s \in SessionIds, Outdated(s)'
             PROVE  sessions'[s].overtaken \/ Changing(sessions[s].account)'
  BY DEF PasswordEndsSessions
<1>1. /\ s \in Live /\ s \in Live' /\ sessions'[s].account = sessions[s].account
      /\ sessions'[s].opened = sessions[s].opened
      /\ sessions[s].overtaken => sessions'[s].overtaken
  BY DEF Outdated, StoreStays, Remains, Live
<1>2. Outdated(s)
  BY <1>1 DEF Outdated
<1>3. PICK a \in Accounts : a = sessions[s].account
  BY <1>1, RecordType DEF Live, Records
<1>4. sessions[s].overtaken \/ Changing(a)
  BY <1>2, <1>3 DEF PasswordEndsSessions
<1>5. Changing(a)' => Changing(sessions[s].account)'
  BY <1>1, <1>3 DEF Changing
<1> QED BY <1>1, <1>3, <1>4, <1>5

\* The steps that only move one request and leave what they keep of the sessions.
LEMMA QuietStep ==
    ASSUME IInv, StoreStays, TokensStay, NEW c \in Calls, Advances(c),
           ~At(c, "password", "updated"), UNCHANGED <<verifier, orphans, jar, tab, use>>
    PROVE  IInv'
<1>1. TypeOK'
  BY DEF IInv, TypeOK, StoreStays, SessionTypes, Advances, CallTypes
<1>2. AgesAreOrdered' /\ FewSessions' /\ QuietIsIdle'
  BY StoreStaysOrdered DEF IInv
<1>3. CallsFit'
  BY AdvanceFits DEF IInv
<1>4. ASSUME NEW k \in CsrfTokens, NEW a \in Accounts \cup {None}, Names(k, a)'
      PROVE  Names(k, a)
  <2>1. TabNames(k, a)' => TabNames(k, a)
    BY DEF TabNames
  <2> QED BY <1>4, <2>1, StoreStaysNames, AdvanceNames DEF Names
<1>5. TokensAgree'
  BY <1>4, NamesStay DEF IInv
<1>6. ASSUME NEW a, Changing(a)
      PROVE  Changing(a)'
  BY <1>6 DEF Changing, At, Advances, Busy
<1>7. PasswordEndsSessions'
  BY <1>6, PasswordStays DEF IInv
<1> QED BY <1>1, <1>2, <1>3, <1>5, <1>7 DEF IInv

-----------------------------------------------------------------------------
(* The steps that QuietStep covers                                         *)

LEMMA CookieAnswer ==
    ASSUME NEW c \in Calls
    PROVE  CookieOfUnknown(c) \in {Keep, Clear} \cup SessionIds
BY DEF CookieOfUnknown

LEMMA RefusedSessionStep ==
    ASSUME IInv, NEW c \in Calls, ServeSession(c), ~Found(call[c].cookie)
    PROVE  IInv'
<1>1. /\ Busy(c) /\ call[c].kind = "session"
      /\ sessions' = Resolve(call[c].cookie, FALSE)
      /\ Answer(c, CookieOfUnknown(c), SignedOut)
      /\ UNCHANGED <<verifier, orphans, jar, tab, use>>
  BY DEF ServeSession, At
<1>2. Advances(c)
  BY <1>1, CookieAnswer, AnswerAdvances DEF IInv
<1>3. StoreStays /\ TokensStay
  BY <1>1, ResolveStays DEF IInv
<1> QED BY <1>1, <1>2, <1>3, QuietStep DEF At

LEMMA RefuseStep ==
    ASSUME IInv, NEW c \in Calls, RefuseStranger(c) \/ RefuseToken(c)
    PROVE  IInv'
<1>1. /\ Busy(c) /\ call[c].stage = "sent" /\ Guard(c)
      /\ UNCHANGED <<verifier, orphans, jar, tab, use>>
  BY DEF RefuseStranger, RefuseToken, Guard
<1>2. \E cookie \in {Keep, Clear} \cup SessionIds, view \in {Keep, SignedOut} : Answer(c, cookie, view)
  <2>1. CookieOfUnknown(c) \in {Keep, Clear} \cup SessionIds
    BY CookieAnswer
  <2>2. \/ Answer(c, CookieOfUnknown(c), Keep) \/ Answer(c, CookieOfUnknown(c), SignedOut)
        \/ Answer(c, Keep, Keep)
    BY DEF RefuseStranger, RefuseToken
  <2> QED BY <2>1, <2>2
<1>3. Advances(c)
  BY <1>1, <1>2, AnswerAdvances DEF IInv
<1>4. StoreStays /\ TokensStay
  BY <1>1, GuardStays DEF IInv
<1> QED BY <1>1, <1>3, <1>4, QuietStep DEF At

\* The account that a passed guard finds is one of a session.
LEMMA PassedAccount ==
    ASSUME TypeOK, NEW c \in Calls, Passes(c)
    PROVE  sessions[call[c].cookie].account \in Accounts
BY RecordType DEF Passes, Found, Live, Records

Accepted(r, a) == [r EXCEPT !.account = a, !.accepted = TRUE]

LEMMA AcceptedType ==
    ASSUME NEW r \in CallRecords, NEW a \in Accounts
    PROVE  /\ Accepted(r, a) \in CallRecords
           /\ Accepted(r, a).kind = r.kind /\ Accepted(r, a).believed = r.believed
           /\ Accepted(r, a).stage = r.stage /\ Accepted(r, a).csrf = r.csrf
           /\ Accepted(r, a).reply = r.reply /\ Accepted(r, a).account = a
BY DEF Accepted, CallRecords

LEMMA ServeStep ==
    ASSUME IInv, NEW c \in Calls, Serve(c)
    PROVE  IInv'
<1> DEFINE a == sessions[call[c].cookie].account
           answer == Answered(c, Keep, Keep)
           r == Accepted(answer, a)
<1>1. /\ Busy(c) /\ call[c].stage = "sent" /\ Guard(c) /\ Passes(c)
      /\ UNCHANGED <<verifier, orphans, jar, tab, use>>
      /\ call' = [call EXCEPT ![c] = r]
  BY DEF Serve, Guard, Accepted
<1>2. a \in Accounts
  BY <1>1, PassedAccount DEF IInv
<1>3. /\ answer \in CallRecords /\ answer.kind = call[c].kind /\ answer.stage = "replied"
      /\ answer.csrf = None /\ answer.believed = call[c].believed /\ answer.reply.view = Keep
  BY <1>1, PlainAnswer DEF IInv
<1> HIDE DEF a, answer
<1>4. /\ r \in CallRecords /\ r.kind = call[c].kind /\ r.believed = call[c].believed
      /\ r.stage # "sent" /\ r.csrf = None /\ r.reply.view = Keep /\ r.account = a
      /\ Knows(r)
  BY <1>2, <1>3, AcceptedType DEF Knows
<1>5. Advances(c)
  BY <1>1, <1>4, AcceptedAdvances DEF IInv, a
<1>6. StoreStays /\ TokensStay
  BY <1>1, GuardStays DEF IInv
<1> QED BY <1>1, <1>5, <1>6, QuietStep DEF At

LEMMA ServeLogoutStep ==
    ASSUME IInv, NEW c \in Calls, ServeLogout(c)
    PROVE  IInv'
<1>1. /\ Busy(c) /\ call[c].stage = "sent"
      /\ UNCHANGED <<verifier, orphans, jar, tab, use>>
  BY DEF ServeLogout, At
<1>2. CASE /\ sessions' = Resolve(call[c].cookie, TRUE) /\ ~Found(call[c].cookie)
           /\ Answer(c, CookieOfUnknown(c), SignedOut)
  <2>1. Advances(c)
    BY <1>1, <1>2, CookieAnswer, AnswerAdvances DEF IInv
  <2>2. Guard(c)
    BY <1>1, <1>2 DEF Guard
  <2>3. StoreStays /\ TokensStay
    BY <2>2, GuardStays DEF IInv
  <2> QED BY <1>1, <2>1, <2>3, QuietStep DEF At
<1>3. CASE /\ Passes(c) /\ sessions' = Invalidate(call[c].cookie)
           /\ call' = [call EXCEPT ![c] = Accepted(Answered(c, Clear, SignedOut),
                                                   sessions[call[c].cookie].account)]
  <2> DEFINE a == sessions[call[c].cookie].account
             answer == Answered(c, Clear, SignedOut)
             r == Accepted(answer, a)
  <2>1. a \in Accounts
    BY <1>3, PassedAccount DEF IInv
  <2>2. /\ answer \in CallRecords /\ answer.kind = call[c].kind /\ answer.stage = "replied"
        /\ answer.csrf = None /\ answer.believed = call[c].believed /\ answer.reply.view = SignedOut
    BY <1>1, PlainAnswer DEF IInv
  <2>3. call' = [call EXCEPT ![c] = r]
    BY <1>3
  <2> HIDE DEF a, answer
  <2>4. /\ r \in CallRecords /\ r.kind = call[c].kind /\ r.believed = call[c].believed
        /\ r.stage # "sent" /\ r.csrf = None /\ r.reply.view = SignedOut /\ r.account = a
        /\ Knows(r)
    BY <2>1, <2>2, AcceptedType DEF Knows
  <2>5. Advances(c)
    BY <1>1, <1>3, <2>3, <2>4, AcceptedAdvances DEF IInv, a
  <2>6. StoreStays /\ TokensStay
    BY <1>3, InvalidateStays DEF IInv
  <2> QED BY <1>1, <2>5, <2>6, QuietStep DEF At
<1> QED BY <1>2, <1>3 DEF ServeLogout, Accepted

LEMMA ReadFields ==
    ASSUME TypeOK, NEW c \in Calls, NEW stage, NEW v
    PROVE  [call EXCEPT ![c].stage = stage, ![c].read = v]
               = [call EXCEPT ![c] = [call[c] EXCEPT !.stage = stage, !.read = v]]
BY DEF TypeOK

LEMMA ReadVerifierStep ==
    ASSUME IInv, NEW c \in Calls, ReadVerifier(c) \/ ReadMaterial(c)
    PROVE  IInv'
<1> DEFINE v == verifier[call[c].account]
           r(stage) == [call[c] EXCEPT !.stage = stage, !.read = v]
<1>1. /\ At(c, "login", "sent") \/ At(c, "password", "reading")
      /\ UNCHANGED <<sessions, verifier, orphans, jar, tab, use>>
  BY DEF ReadVerifier, ReadMaterial
<1>2. \/ At(c, "login", "sent") /\ call' = [call EXCEPT ![c] = r("checked")]
      \/ At(c, "password", "reading") /\ call' = [call EXCEPT ![c] = r("read")]
  <2>1. \A stage : [call EXCEPT ![c].stage = stage, ![c].read = v] = [call EXCEPT ![c] = r(stage)]
    BY ReadFields DEF IInv
  <2>2. CASE ReadVerifier(c)
    BY <2>1, <2>2 DEF ReadVerifier
  <2>3. CASE ReadMaterial(c)
    BY <2>1, <2>3 DEF ReadMaterial
  <2> QED BY <2>2, <2>3
<1>3. Busy(c) /\ call[c] \in CallRecords /\ Knows(call[c])
  BY <1>1, CallType DEF IInv, At, CallsFit, CallFits
<1>4. v \in Verifiers
  BY <1>1, <1>3 DEF IInv, TypeOK, At, Knows
<1> HIDE DEF v
<1>5. PICK stage \in {"checked", "read"} :
         /\ call' = [call EXCEPT ![c] = r(stage)]
         /\ stage = "checked" => At(c, "login", "sent")
         /\ stage = "read" => At(c, "password", "reading")
  BY <1>2
<1>6. /\ r(stage) \in CallRecords /\ r(stage).kind = call[c].kind /\ r(stage).stage = stage
      /\ r(stage).believed = call[c].believed /\ r(stage).csrf = call[c].csrf
      /\ r(stage).reply = call[c].reply /\ r(stage).account = call[c].account
      /\ r(stage).accepted = call[c].accepted /\ r(stage).read = v
  BY <1>3, <1>4 DEF CallRecords, Stages
<1>7. Knows(r(stage))
  BY <1>3, <1>4, <1>5, <1>6 DEF Knows, At
<1> HIDE DEF r
<1>8. Advances(c)
  BY <1>3, <1>5, <1>6, <1>7, MiddleAdvances DEF IInv
<1>9. StoreStays /\ TokensStay
  BY <1>1, UnchangedStays DEF IInv
<1> QED BY <1>1, <1>8, <1>9, QuietStep DEF At

\* A login that fails, and a change that is refused before its UPDATE.
LEMMA FailsStep ==
    ASSUME IInv, NEW c \in Calls, LoginFails(c) \/ ChangeRefused(c)
    PROVE  IInv'
<1>1. /\ Busy(c) /\ ~At(c, "password", "updated") /\ Answer(c, Keep, Keep)
      /\ UNCHANGED <<sessions, verifier, orphans, jar, tab, use>>
  BY DEF LoginFails, ChangeRefused, At
<1>2. Advances(c)
  BY <1>1, AnswerAdvances DEF IInv
<1>3. StoreStays /\ TokensStay
  BY <1>1, UnchangedStays DEF IInv
<1> QED BY <1>1, <1>2, <1>3, QuietStep

LEMMA StartChangeStep ==
    ASSUME IInv, NEW c \in Calls, StartChange(c)
    PROVE  IInv'
<1> DEFINE a == sessions[call[c].cookie].account
           r(next) == [next EXCEPT !.account = a, !.accepted = TRUE,
                                   !.stage = IF next.stage = "sent" THEN "reading" ELSE next.stage]
<1>1. /\ Busy(c) /\ call[c].stage = "sent" /\ call[c].kind = "password"
      /\ Guard(c) /\ Passes(c)
      /\ UNCHANGED <<verifier, orphans, jar, tab, use>>
  BY DEF StartChange, At
<1>2. PICK next \in {call[c], Answered(c, Keep, Keep)} : call' = [call EXCEPT ![c] = r(next)]
  BY DEF StartChange
<1>3. a \in Accounts
  BY <1>1, PassedAccount DEF IInv
<1>4. /\ next \in CallRecords /\ next.kind = "password" /\ next.stage \in {"sent", "replied"}
      /\ next.csrf \in {None, call[c].csrf} /\ next.believed = call[c].believed
      /\ next.reply.view \in {Keep, call[c].reply.view}
  <2>1. CASE next = call[c]
    BY <1>1, <2>1, CallType DEF IInv
  <2>2. CASE next = Answered(c, Keep, Keep)
    BY <1>1, <2>2, PlainAnswer DEF IInv
  <2> QED BY <1>2, <2>1, <2>2
<1> HIDE DEF a
<1>5. /\ r(next) \in CallRecords /\ r(next).kind = "password" /\ r(next).believed = next.believed
      /\ r(next).stage \in {"reading", "replied"} /\ r(next).csrf = next.csrf
      /\ r(next).reply = next.reply /\ r(next).account = a
  BY <1>3, <1>4 DEF CallRecords, Stages
<1>6. Knows(r(next))
  BY <1>3, <1>5 DEF Knows
<1> HIDE DEF r
<1>7. Advances(c)
  BY <1>1, <1>2, <1>4, <1>5, <1>6, AcceptedAdvances DEF IInv, a
<1>8. StoreStays /\ TokensStay
  BY <1>1, GuardStays DEF IInv
<1> QED BY <1>1, <1>7, <1>8, QuietStep DEF At

LEMMA NewFields ==
    ASSUME TypeOK, NEW c \in Calls, NEW stage, NEW v
    PROVE  [call EXCEPT ![c].stage = stage, ![c].new = v]
               = [call EXCEPT ![c] = [call[c] EXCEPT !.stage = stage, !.new = v]]
BY DEF TypeOK

LEMMA StartUpdateStep ==
    ASSUME IInv, NEW c \in Calls, StartUpdate(c)
    PROVE  IInv'
<1> DEFINE v == CHOOSE x \in Verifiers : FreshVerifier(x)
           r == [call[c] EXCEPT !.stage = "updating", !.new = v]
<1>1. /\ At(c, "password", "read")
      /\ UNCHANGED <<sessions, verifier, orphans, jar, tab, use>>
      /\ \E x \in Verifiers : FreshVerifier(x)
  BY DEF StartUpdate
<1>2. v \in Verifiers
  BY <1>1
<1>3. call' = [call EXCEPT ![c] = r]
  BY NewFields DEF StartUpdate, IInv
<1>4. /\ Busy(c) /\ call[c] \in CallRecords /\ Knows(call[c])
      /\ call[c].kind = "password" /\ call[c].stage = "read"
  BY <1>1, CallType DEF IInv, At, CallsFit, CallFits
<1> HIDE DEF v
<1>5. /\ r \in CallRecords /\ r.kind = "password" /\ r.stage = "updating"
      /\ r.believed = call[c].believed /\ r.csrf = call[c].csrf
      /\ r.reply = call[c].reply /\ r.account = call[c].account
      /\ r.accepted = call[c].accepted /\ r.read = call[c].read /\ r.new = v
  BY <1>2, <1>4 DEF CallRecords, Stages
<1>6. Knows(r)
  BY <1>2, <1>4, <1>5 DEF Knows
<1> HIDE DEF r
<1>7. Advances(c)
  BY <1>3, <1>4, <1>5, <1>6, MiddleAdvances DEF IInv
<1>8. StoreStays /\ TokensStay
  BY <1>1, UnchangedStays DEF IInv
<1> QED BY <1>1, <1>4, <1>7, <1>8, QuietStep DEF At

-----------------------------------------------------------------------------
(* The steps of a change of the password that end sessions or outdate them *)

LEMMA UpdatedFields ==
    ASSUME TypeOK, NEW c \in Calls, NEW stage, NEW hit
    PROVE  [call EXCEPT ![c].stage = stage, ![c].replaced = hit]
               = [call EXCEPT ![c] = [call[c] EXCEPT !.stage = stage, !.replaced = hit]]
BY DEF TypeOK

\* What the steps of one request keep beside the verifiers and the password.
LEMMA ChangeKeeps ==
    ASSUME IInv, StoreStays, TokensStay, NEW c \in Calls, Advances(c),
           UNCHANGED <<jar, tab, use>>, verifier' \in [Accounts -> Verifiers], orphans' \subseteq Orphans
    PROVE  /\ TypeOK' /\ CallsFit' /\ TokensAgree'
           /\ AgesAreOrdered' /\ FewSessions' /\ QuietIsIdle'
<1>1. TypeOK'
  BY DEF IInv, TypeOK, StoreStays, SessionTypes, Advances, CallTypes
<1>2. ASSUME NEW k \in CsrfTokens, NEW a \in Accounts \cup {None}, Names(k, a)'
      PROVE  Names(k, a)
  <2>1. TabNames(k, a)' => TabNames(k, a)
    BY DEF TabNames
  <2> QED BY <1>2, <2>1, StoreStaysNames, AdvanceNames DEF Names
<1>3. TokensAgree'
  BY <1>2, NamesStay DEF IInv
<1> QED BY <1>1, <1>3, StoreStaysOrdered, AdvanceFits DEF IInv

LEMMA UpdateStep ==
    ASSUME IInv, NEW c \in Calls, Update(c)
    PROVE  IInv'
<1> DEFINE hit == verifier[call[c].account] = call[c].read
           r == [call[c] EXCEPT !.stage = "updated", !.replaced = hit]
<1>1. /\ At(c, "password", "updating")
      /\ UNCHANGED <<sessions, orphans, jar, tab, use>>
      /\ verifier' = IF hit THEN [verifier EXCEPT ![call[c].account] = call[c].new] ELSE verifier
  BY DEF Update
<1>2. call' = [call EXCEPT ![c] = r]
  BY UpdatedFields DEF Update, IInv
<1>3. /\ Busy(c) /\ call[c] \in CallRecords /\ Knows(call[c])
      /\ call[c].kind = "password" /\ call[c].stage = "updating"
  BY <1>1, CallType DEF IInv, At, CallsFit, CallFits
<1>4. PICK a \in Accounts : a = call[c].account /\ call[c].new \in Verifiers
  BY <1>3 DEF Knows
<1>5. hit \in BOOLEAN
  OBVIOUS
<1> HIDE DEF hit
<1>6. /\ r \in CallRecords /\ r.kind = "password" /\ r.stage = "updated"
      /\ r.believed = call[c].believed /\ r.csrf = call[c].csrf
      /\ r.reply = call[c].reply /\ r.account = call[c].account
      /\ r.read = call[c].read /\ r.new = call[c].new
  BY <1>3, <1>5 DEF CallRecords, Stages
<1>7. r.accepted = call[c].accepted
  BY <1>3 DEF CallRecords
<1>8. r.replaced = hit
  BY <1>3 DEF CallRecords
<1>9. Knows(r)
  BY <1>3, <1>6 DEF Knows
<1> HIDE DEF r
<1>10. Advances(c)
  BY <1>2, <1>3, <1>6, <1>7, <1>9, MiddleAdvances DEF IInv
<1>11. StoreStays /\ TokensStay
  BY <1>1, UnchangedStays DEF IInv
<1>12. verifier' \in [Accounts -> Verifiers]
  BY <1>1, <1>4 DEF IInv, TypeOK
<1>13. /\ TypeOK' /\ CallsFit' /\ TokensAgree'
       /\ AgesAreOrdered' /\ FewSessions' /\ QuietIsIdle'
  BY <1>1, <1>10, <1>11, <1>12, ChangeKeeps DEF IInv, TypeOK
<1>14. call'[c] = r
  BY <1>2, <1>6, OneCall DEF IInv
<1>15. ASSUME NEW b, Changing(b)
       PROVE  Changing(b)'
  BY <1>3, <1>10, <1>15 DEF Changing, At, Advances, Busy
<1>16. CASE ~hit
  BY <1>1, <1>11, <1>13, <1>15, <1>16, PasswordStays DEF IInv
<1>17. CASE hit
  <2>1. Changing(a)'
    <3>1. r # NoCall
      BY <1>3, <1>6 DEF NoCall, CallRecords
    <3> QED BY <1>4, <1>6, <1>8, <1>14, <1>17, <3>1 DEF Changing, At, Busy
  <2>2. ASSUME NEW s \in SessionIds, Outdated(s)'
        PROVE  sessions'[s].overtaken \/ Changing(sessions[s].account)'
    <3>1. sessions' = sessions /\ s \in Live
      BY <1>1, <2>2 DEF Outdated, Live
    <3>2. CASE sessions[s].account = a
      BY <2>1, <3>1, <3>2 DEF Changing
    <3>3. CASE sessions[s].account # a
      <4>1. Outdated(s)
        BY <1>1, <1>4, <2>2, <3>1, <3>3 DEF Outdated, IInv, TypeOK
      <4>2. sessions[s].overtaken \/ Changing(sessions[s].account)
        BY <4>1 DEF IInv, PasswordEndsSessions
      <4>3. Changing(sessions[s].account) => Changing(sessions[s].account)'
        BY <1>15, <3>1 DEF Changing
      <4> QED BY <3>1, <4>2, <4>3
    <3> QED BY <3>2, <3>3
  <2>3. PasswordEndsSessions'
    BY <2>2 DEF PasswordEndsSessions
  <2> QED BY <1>13, <2>3 DEF IInv
<1> QED BY <1>16, <1>17

\* However a change ends, the sessions of its account end with it.
LEMMA EndSessionsStep ==
    ASSUME IInv, NEW c \in Calls, Busy(c), call[c].kind = "password",
           call[c].stage \in {"updating", "updated"},
           EndSessions(c), orphans' \subseteq Orphans, UNCHANGED <<verifier, jar, tab, use>>
    PROVE  IInv'
<1>1. Advances(c)
  BY AnswerAdvances DEF EndSessions, IInv
<1>2. StoreStays /\ TokensStay
  BY InvalidateAccountStays DEF EndSessions, IInv
<1>3. /\ TypeOK' /\ CallsFit' /\ TokensAgree'
      /\ AgesAreOrdered' /\ FewSessions' /\ QuietIsIdle'
  BY <1>1, <1>2, ChangeKeeps DEF IInv, TypeOK
<1>4. \A s \in Live' : sessions'[s].account # call[c].account
  BY DEF EndSessions, InvalidateAccount, Live
<1>5. ASSUME NEW a \in Accounts, Changing(a), a # call[c].account
      PROVE  Changing(a)'
  BY <1>1, <1>5 DEF Changing, At, Advances, Busy
<1>6. PasswordEndsSessions'
  BY <1>2, <1>4, <1>5, PasswordStays DEF IInv
<1> QED BY <1>3, <1>6 DEF IInv

LEMMA OrphanType ==
    ASSUME IInv, NEW c \in Calls, At(c, "password", "updating")
    PROVE  OrphanOf(c) \in Orphans
BY DEF IInv, CallsFit, CallFits, Knows, At, OrphanOf, Orphans

LEMMA ChangeEndsStep ==
    ASSUME IInv, NEW c \in Calls, ChangeSucceeds(c) \/ ChangeConflicts(c) \/ ChangeUnconfirmed(c)
    PROVE  IInv'
<1>1. /\ Busy(c) /\ call[c].kind = "password" /\ call[c].stage \in {"updating", "updated"}
      /\ EndSessions(c) /\ UNCHANGED <<verifier, jar, tab, use>>
  BY DEF ChangeSucceeds, ChangeConflicts, ChangeUnconfirmed, At
<1>2. orphans \subseteq Orphans
  BY DEF IInv, TypeOK
<1>3. orphans' \subseteq Orphans
  <2>1. CASE UNCHANGED orphans
    BY <1>2, <2>1
  <2>2. CASE call[c].stage = "updating" /\ orphans' = orphans \cup {OrphanOf(c)}
    BY <1>1, <1>2, <2>2, OrphanType DEF At
  <2> QED BY <2>1, <2>2 DEF ChangeSucceeds, ChangeConflicts, ChangeUnconfirmed
<1> QED BY <1>1, <1>3, EndSessionsStep

LEMMA CallsStay ==
    ASSUME IInv, UNCHANGED call
    PROVE  /\ CallsFit'
           /\ \A a : Changing(a) => Changing(a)'
           /\ \A k, a : CallNames(k, a)' \/ ReplyNames(k, a)' => CallNames(k, a) \/ ReplyNames(k, a)
BY DEF IInv, CallsFit, CallFits, Changing, At, CallNames, ReplyNames, Busy

LEMMA OrphanUpdateStep ==
    ASSUME IInv, NEW o \in orphans, OrphanUpdate(o)
    PROVE  IInv'
<1>1. UNCHANGED <<jar, tab, call, use>> /\ orphans' = orphans \ {o}
  BY DEF OrphanUpdate
<1>2. o.account \in Accounts /\ o.to \in Verifiers
  BY DEF IInv, TypeOK, Orphans
<1>3. verifier' \in [Accounts -> Verifiers]
  BY <1>2 DEF OrphanUpdate, IInv, TypeOK
<1> DEFINE late(s) == [sessions[s] EXCEPT !.overtaken = TRUE]
<1>4. CASE UNCHANGED <<verifier, sessions>>
  <2>1. StoreStays /\ TokensStay
    BY <1>4, UnchangedStays DEF IInv
  <2>2. PasswordEndsSessions'
    BY <1>1, <1>4, <2>1, CallsStay, PasswordStays DEF IInv
  <2>3. TypeOK'
    BY <1>1, <1>4 DEF IInv, TypeOK
  <2>4. TokensAgree'
    BY <1>1, <2>1, CallsStay, StoreStaysNames, NamesStay DEF IInv, Names, TabNames
  <2> QED BY <1>1, <2>1, <2>2, <2>3, <2>4, CallsStay, StoreStaysOrdered DEF IInv
<1>5. CASE /\ verifier' = [verifier EXCEPT ![o.account] = o.to]
           /\ sessions' = [s \in SessionIds |->
                              IF s \in Live /\ sessions[s].account = o.account
                              THEN late(s) ELSE sessions[s]]
  <2>1. ASSUME NEW s \in Live
        PROVE  /\ late(s) \in Records /\ late(s).account = sessions[s].account
               /\ late(s).older = sessions[s].older /\ late(s).opened = sessions[s].opened
               /\ late(s).overtaken = TRUE /\ late(s).csrf = sessions[s].csrf
               /\ late(s).quiet = late(s).idle
    <3>1. sessions[s] \in Records /\ sessions[s].quiet = sessions[s].idle
      BY RecordType DEF IInv, Live, QuietIsIdle
    <3> QED BY <3>1 DEF Records
  <2> HIDE DEF late
  <2>2. \A s \in SessionIds : \/ s \in Live /\ sessions[s].account = o.account /\ sessions'[s] = late(s)
                              \/ ~(s \in Live /\ sessions[s].account = o.account) /\ sessions'[s] = sessions[s]
    BY <1>5
  <2>3. \A s \in SessionIds : sessions'[s] \in Records \cup {None} /\ Remains(s) /\ KeepsToken(s)
    BY <2>1, <2>2 DEF IInv, TypeOK, Remains, KeepsToken, Live, QuietIsIdle
  <2>4. StoreStays /\ TokensStay
    BY <1>5, <2>3 DEF StoreStays, TokensStay, SessionTypes
  <2>5. TypeOK'
    BY <1>1, <1>3, <2>4 DEF IInv, TypeOK, StoreStays, SessionTypes
  <2>6. TokensAgree'
    BY <1>1, <2>4, CallsStay, StoreStaysNames, NamesStay DEF IInv, Names, TabNames
  <2>7. ASSUME NEW s \in SessionIds, Outdated(s)'
        PROVE  sessions'[s].overtaken \/ Changing(sessions[s].account)'
    <3>1. s \in Live /\ sessions'[s].account = sessions[s].account
          /\ sessions'[s].opened = sessions[s].opened
      BY <2>7, <2>4 DEF Outdated, Live, StoreStays, Remains
    <3>2. CASE sessions[s].account = o.account
      BY <2>1, <2>2, <3>1, <3>2
    <3>3. CASE sessions[s].account # o.account
      <4>1. Outdated(s)
        BY <1>2, <1>5, <2>7, <3>1, <3>3 DEF Outdated, IInv, TypeOK
      <4>2. sessions'[s] = sessions[s]
        BY <2>2, <3>3
      <4>3. sessions[s].overtaken \/ Changing(sessions[s].account)
        BY <4>1 DEF IInv, PasswordEndsSessions
      <4> QED BY <1>1, <4>2, <4>3 DEF Changing, At, Busy
    <3> QED BY <3>2, <3>3
  <2>8. PasswordEndsSessions'
    BY <2>7 DEF PasswordEndsSessions
  <2> QED BY <1>1, <2>4, <2>5, <2>6, <2>8, CallsStay, StoreStaysOrdered DEF IInv
<1> QED BY <1>4, <1>5 DEF OrphanUpdate

-----------------------------------------------------------------------------
(* Sending and receiving                                                   *)

SentCall(t, kind, account) ==
    [kind |-> kind, tab |-> t, stage |-> "sent", cookie |-> jar[BrowserOf[t]],
     csrf |-> IF kind \in Guarded THEN tab[t].csrf ELSE None,
     believed |-> tab[t].account, account |-> account, accepted |-> FALSE,
     read |-> None, new |-> None, replaced |-> FALSE, reply |-> NoReply]

LEMMA SendStep ==
    ASSUME IInv, NEW c \in Calls, NEW t \in Tabs, NEW kind \in AllKinds,
           NEW account \in Accounts \cup {None}, Send(c, t, kind, account)
    PROVE  IInv'
<1> DEFINE r == SentCall(t, kind, account)
<1>1. /\ ~Busy(c) /\ UNCHANGED <<sessions, verifier, orphans, jar, tab, use>>
      /\ kind = "login" => account \in use.users
      /\ call' = [call EXCEPT ![c] = r]
  BY DEF Send, SentCall
<1>2. kind = "login" => account \in Accounts
  BY <1>1, UsesType DEF IInv, TypeOK
<1>3. /\ tab[t].csrf \in CsrfTokens \cup {None} /\ tab[t].account \in Accounts \cup {None}
      /\ jar[BrowserOf[t]] \in SessionIds \cup {None}
  BY BrowserOfType DEF IInv, TypeOK, Views, SignedIn, SignedOut
<1>4. /\ r \in CallRecords /\ r.kind = kind /\ r.stage = "sent" /\ ~r.accepted
      /\ r.csrf \in {None, tab[t].csrf} /\ r.believed = tab[t].account
      /\ r.account = account /\ r.reply.view = Keep
  <2>1. NoReply \in Replies /\ NoReply.view = Keep
    BY DEF NoReply, Replies
  <2> QED BY <1>3, <2>1 DEF SentCall, CallRecords, Stages
<1> HIDE DEF r
<1>5. /\ call' \in CallTypes /\ call'[c] = r
      /\ \A d \in Calls : d # c => call'[d] = call[d]
  BY <1>1, <1>4, OneCall DEF IInv
<1>6. TypeOK'
  BY <1>1, <1>5 DEF IInv, TypeOK, CallTypes
<1>7. StoreStays /\ TokensStay
  BY <1>1, UnchangedStays DEF IInv
<1>8. CallsFit'
  BY <1>2, <1>4, <1>5 DEF IInv, CallsFit, CallFits, Busy, Knows
<1>9. ASSUME NEW k \in CsrfTokens, NEW a \in Accounts \cup {None}, Names(k, a)'
      PROVE  Names(k, a)
  <2>1. k # None
    BY NewValues
  <2>2. TabNames(k, a)' => TabNames(k, a)
    BY <1>1 DEF TabNames
  <2>3. CallNames(k, a)' => CallNames(k, a) \/ TabNames(k, a)
    BY <1>4, <1>5, <2>1 DEF CallNames, TabNames, Busy
  <2>4. ReplyNames(k, a)' => ReplyNames(k, a)
    BY <1>4, <1>5 DEF ReplyNames, Busy
  <2> QED BY <1>7, <1>9, <2>2, <2>3, <2>4, StoreStaysNames DEF Names
<1>10. TokensAgree'
  BY <1>9, NamesStay DEF IInv
<1>11. ASSUME NEW a \in Accounts, Changing(a)
       PROVE  Changing(a)'
  BY <1>1, <1>5, <1>11 DEF Changing, At, Busy
<1>12. PasswordEndsSessions'
  BY <1>1, <1>7, <1>11, PasswordStays DEF IInv
<1> QED BY <1>6, <1>7, <1>8, <1>10, <1>12, StoreStaysOrdered DEF IInv

\* A reply that arrives or is lost.
LEMMA ReceiveStep ==
    ASSUME IInv, NEW c \in Calls, Receive(c) \/ LoseReply(c)
    PROVE  IInv'
<1> DEFINE reply == call[c].reply
           t == call[c].tab
<1>1. /\ Busy(c) /\ call[c].stage = "replied"
      /\ UNCHANGED <<sessions, verifier, orphans, use>>
      /\ call' = [call EXCEPT ![c] = NoCall]
  BY DEF Receive, LoseReply
<1>2. /\ call' \in CallTypes /\ call'[c] = NoCall
      /\ \A d \in Calls : d # c => call'[d] = call[d]
  BY <1>1, OneCall DEF IInv
<1>3. /\ t \in Tabs /\ reply \in Replies
      /\ reply.cookie \in {Keep, Clear} \cup SessionIds /\ reply.view \in {Keep} \cup Views
  BY <1>1, CallType DEF IInv, CallRecords, Replies
<1>4. /\ \/ jar' = jar
         \/ /\ reply.cookie # Keep
            /\ jar' = [jar EXCEPT ![BrowserOf[t]] = IF reply.cookie = Clear THEN None ELSE reply.cookie]
      /\ \/ tab' = tab
         \/ reply.view # Keep /\ tab' = [tab EXCEPT ![t] = reply.view]
  BY DEF Receive, LoseReply
<1> HIDE DEF reply, t
<1>5. jar' \in [Browsers -> SessionIds \cup {None}] /\ tab' \in [Tabs -> Views]
  BY <1>3, <1>4, BrowserOfType DEF IInv, TypeOK
<1>6. TypeOK'
  BY <1>1, <1>2, <1>5 DEF IInv, TypeOK, CallTypes
<1>7. StoreStays /\ TokensStay
  BY <1>1, UnchangedStays DEF IInv
<1>8. CallsFit'
  BY <1>2 DEF IInv, CallsFit, CallFits, Busy
<1>9. ASSUME NEW k \in CsrfTokens, NEW a \in Accounts \cup {None}, Names(k, a)'
      PROVE  Names(k, a)
  <2>1. TabNames(k, a)' => TabNames(k, a) \/ ReplyNames(k, a)
    <3>1. CASE tab' = tab
      BY <3>1 DEF TabNames
    <3>2. CASE reply.view # Keep /\ tab' = [tab EXCEPT ![t] = reply.view]
      BY <1>1, <1>3, <3>2 DEF TabNames, ReplyNames, IInv, TypeOK, reply
    <3> QED BY <1>4, <3>1, <3>2
  <2>2. CallNames(k, a)' => CallNames(k, a)
    BY <1>2 DEF CallNames, Busy
  <2>3. ReplyNames(k, a)' => ReplyNames(k, a)
    BY <1>2 DEF ReplyNames, Busy
  <2> QED BY <1>7, <1>9, <2>1, <2>2, <2>3, StoreStaysNames DEF Names
<1>10. TokensAgree'
  BY <1>9, NamesStay DEF IInv
<1>11. ASSUME NEW a \in Accounts, Changing(a)
       PROVE  Changing(a)'
  BY <1>1, <1>2, <1>11 DEF Changing, At, Busy
<1>12. PasswordEndsSessions'
  BY <1>1, <1>7, <1>11, PasswordStays DEF IInv
<1> QED BY <1>6, <1>7, <1>8, <1>10, <1>12, StoreStaysOrdered DEF IInv

-----------------------------------------------------------------------------
(* The steps that make a new token                                         *)

NewView(a) == [account |-> a, csrf |-> NewCsrf]

LEMMA NewAnswer ==
    ASSUME IInv, NEW c \in Calls, Busy(c), NEW cookie \in {Keep} \cup SessionIds, TokensLeft,
           NEW a \in Accounts, Answer(c, cookie, NewView(a)), UNCHANGED tab
    PROVE  /\ call' \in CallTypes /\ CallsFit' /\ FreshCsrf(NewCsrf) /\ NewCsrf \in CsrfTokens
           /\ \A d \in Calls : d # c => call'[d] = call[d]
           /\ call'[c].stage = "replied"
           /\ \A k \in CsrfTokens : \A b \in Accounts \cup {None} :
                  (CallNames(k, b) \/ ReplyNames(k, b) \/ TabNames(k, b))'
                      => Names(k, b) \/ (k = NewCsrf /\ b = a)
<1>1. NewCsrf \in CsrfTokens /\ FreshCsrf(NewCsrf)
  BY DEF TokensLeft, NewCsrf
<1>2. /\ NewView(a) \in {Keep} \cup Views
      /\ NewView(a).account = a /\ NewView(a).csrf = NewCsrf
  BY <1>1 DEF NewView, Views, SignedIn
<1> DEFINE r == Answered(c, cookie, NewView(a))
<1>3. call' = [call EXCEPT ![c] = r]
  BY DEF Answer
<1>4. /\ r \in CallRecords /\ r.kind = call[c].kind /\ r.stage = "replied" /\ r.csrf = None
      /\ r.believed = call[c].believed /\ r.account = call[c].account
      /\ r.reply.view = NewView(a)
  <2>1. TypeOK /\ cookie \in {Keep, Clear} \cup SessionIds
    BY DEF IInv
  <2>2. r \in CallRecords /\ r.kind = call[c].kind /\ r.stage = "replied" /\ r.csrf = None
    BY <1>2, <2>1, AnsweredType
  <2>3. r.believed = call[c].believed /\ r.account = call[c].account
    BY <1>2, <2>1, AnsweredType
  <2>4. r.reply.view = NewView(a)
    BY <1>2, <2>1, AnsweredType
  <2> QED BY <2>2, <2>3, <2>4
<1>5. r.accepted = call[c].accepted
  BY AnsweredAccepted DEF IInv
<1> HIDE DEF r
<1>6. /\ call' \in CallTypes /\ call'[c] = r
      /\ \A d \in Calls : d # c => call'[d] = call[d]
  BY <1>3, <1>4, OneCall DEF IInv
<1>7. CallsFit'
  <2>1. CallFits(c)'
    <3>1. CallFits(c)
      BY DEF IInv, CallsFit
    <3> QED BY <1>4, <1>5, <1>6, <3>1 DEF CallFits, Knows
  <2>2. \A d \in Calls : d # c => CallFits(d)'
    BY <1>6 DEF IInv, CallsFit, CallFits, Busy
  <2> QED BY <2>1, <2>2 DEF CallsFit
<1>8. ASSUME NEW k \in CsrfTokens, NEW b \in Accounts \cup {None}
      PROVE  (CallNames(k, b) \/ ReplyNames(k, b) \/ TabNames(k, b))'
                 => Names(k, b) \/ (k = NewCsrf /\ b = a)
  <2>1. CallNames(k, b)' => CallNames(k, b)
    BY <1>4, <1>6, NewValues DEF CallNames, Busy
  <2>2. ReplyNames(k, b)' => ReplyNames(k, b) \/ (k = NewCsrf /\ b = a)
    BY <1>2, <1>4, <1>6 DEF ReplyNames, Busy
  <2>3. TabNames(k, b)' => TabNames(k, b)
    BY DEF TabNames
  <2> QED BY <2>1, <2>2, <2>3 DEF Names
<1> QED BY <1>1, <1>4, <1>6, <1>7, <1>8

LEMMA ServeSessionStep ==
    ASSUME IInv, NEW c \in Calls, ServeSession(c), Found(call[c].cookie)
    PROVE  IInv'
<1>1. /\ Busy(c) /\ call[c].kind = "session" /\ TokensLeft
      /\ UNCHANGED <<verifier, orphans, jar, tab, use>>
      /\ call[c].cookie \in Live /\ ~Expired(sessions[call[c].cookie])
  BY DEF ServeSession, At, Found
<1>2. PICK s \in Live, a \in Accounts : s = call[c].cookie /\ a = sessions[s].account
  BY <1>1, RecordType DEF IInv, Live, Records
<1>3. Answer(c, Keep, NewView(a))
  BY <1>2 DEF ServeSession, NewView
<1>4. PICK k \in CsrfTokens : k = NewCsrf
  BY <1>1, <1>3, NewAnswer DEF IInv
<1>5. /\ call' \in CallTypes /\ CallsFit' /\ FreshCsrf(k)
      /\ \A d \in Calls : d # c => call'[d] = call[d]
      /\ \A j \in CsrfTokens : \A b \in Accounts \cup {None} :
            (CallNames(j, b) \/ ReplyNames(j, b) \/ TabNames(j, b))'
                => Names(j, b) \/ (j = k /\ b = a)
  BY <1>1, <1>3, <1>4, NewAnswer
<1> DEFINE r == [sessions[s] EXCEPT !.csrf = k]
<1>6. sessions' = [Resolve(s, FALSE) EXCEPT ![s].csrf = k]
  BY <1>2, <1>4 DEF ServeSession
<1>7. /\ sessions' = [x \in SessionIds |-> sessions'[x]]
      /\ sessions'[s] = r
      /\ \A x \in SessionIds : x # s => sessions'[x] = sessions[x]
  BY <1>1, <1>2, <1>6 DEF Resolve, Live
<1>8. /\ r \in Records /\ r.account = a /\ r.older = sessions[s].older /\ r.opened = sessions[s].opened
      /\ r.csrf = k /\ r.quiet = r.idle
  <2>1. sessions[s] \in Records /\ sessions[s].quiet = sessions[s].idle
    BY RecordType DEF IInv, Live, QuietIsIdle
  <2> QED BY <1>2, <2>1 DEF Records
<1>9. r.overtaken = sessions[s].overtaken
  <2>1. sessions[s] \in Records
    BY RecordType DEF IInv, Live
  <2> QED BY <2>1 DEF Records
<1> HIDE DEF r
<1>10. \A x \in SessionIds : sessions'[x] \in Records \cup {None} /\ Remains(x)
  BY <1>2, <1>7, <1>8, <1>9 DEF IInv, TypeOK, QuietIsIdle, Live, Remains
<1>11. StoreStays
  BY <1>7, <1>10 DEF StoreStays, SessionTypes
<1>12. TypeOK'
  BY <1>1, <1>5, <1>11 DEF IInv, TypeOK, StoreStays, SessionTypes, CallTypes
<1>13. ASSUME NEW j \in CsrfTokens, NEW b \in Accounts \cup {None}, Names(j, b)'
       PROVE  Names(j, b) \/ (j = k /\ b = a)
  <2>1. SessionNames(j, b)' => SessionNames(j, b) \/ (j = k /\ b = a)
    BY <1>7, <1>8 DEF SessionNames, Live
  <2> QED BY <1>5, <1>13, <2>1 DEF Names
<1>14. TokensAgree'
  BY <1>5, <1>13, NewNames DEF IInv
<1>15. ASSUME NEW b \in Accounts, Changing(b)
       PROVE  Changing(b)'
  BY <1>1, <1>5, <1>15 DEF Changing, At, Busy
<1>16. PasswordEndsSessions'
  BY <1>1, <1>11, <1>15, PasswordStays DEF IInv
<1> QED BY <1>5, <1>11, <1>12, <1>14, <1>16, StoreStaysOrdered DEF IInv

LEMMA OpenSessionStep ==
    ASSUME IInv, NEW c \in Calls, OpenSession(c)
    PROVE  IInv'
<1>1. /\ Busy(c) /\ call[c].kind = "login" /\ call[c].stage = "checked" /\ TokensLeft
      /\ UNCHANGED <<verifier, orphans, jar, tab, use>>
  BY DEF OpenSession, At
<1>2. call[c].account \in Accounts /\ call[c].read \in Verifiers
  BY <1>1 DEF IInv, CallsFit, CallFits, Knows
<1>3. PICK a \in Accounts : a = call[c].account
  BY <1>2
<1>4. PICK s \in SessionIds : s = NewSessionId /\ s \notin Live
  BY DEF OpenSession, SessionIdsLeft, NewSessionId, FreshSessionId
<1>5. Answer(c, s, NewView(a))
  BY <1>3, <1>4 DEF OpenSession, NewView
<1>6. PICK k \in CsrfTokens : k = NewCsrf
  BY <1>1, <1>5, NewAnswer DEF IInv
<1>7. /\ call' \in CallTypes /\ CallsFit' /\ FreshCsrf(k)
      /\ \A d \in Calls : d # c => call'[d] = call[d]
      /\ \A j \in CsrfTokens : \A b \in Accounts \cup {None} :
            (CallNames(j, b) \/ ReplyNames(j, b) \/ TabNames(j, b))'
                => Names(j, b) \/ (j = k /\ b = a)
  BY <1>1, <1>5, <1>6, NewAnswer
<1> DEFINE late == call[c].read # verifier[a]
           record == [account |-> a, age |-> 0, idle |-> 0, quiet |-> 0, csrf |-> k,
                      older |-> {}, opened |-> call[c].read, overtaken |-> late]
<1>8. sessions' = Create(s, record, call[c].cookie)
  BY <1>3, <1>4, <1>6 DEF OpenSession
<1>9. late \in BOOLEAN
  OBVIOUS
<1> HIDE DEF late
<1>10. /\ record \in Records /\ record.quiet = record.idle /\ record.csrf = k
       /\ record.account = a /\ record.opened = call[c].read
  BY <1>2, <1>9, LimitsType DEF Records
<1>11. record.overtaken = late
  OBVIOUS
<1> HIDE DEF record
<1>12. /\ sessions' \in SessionTypes
       /\ AgesAreOrdered' /\ FewSessions' /\ QuietIsIdle'
       /\ sessions'[s].csrf = k /\ sessions'[s].account = a
       /\ sessions'[s].opened = call[c].read
       /\ \A x \in Live' : x # s =>
             /\ x \in Live
             /\ sessions'[x].csrf = sessions[x].csrf /\ sessions'[x].account = sessions[x].account
             /\ sessions'[x].opened = sessions[x].opened
             /\ sessions'[x].overtaken = sessions[x].overtaken
  BY <1>4, <1>8, <1>10, CreateEffect DEF IInv
<1>13. sessions'[s].overtaken = late
  <2>1. sessions'[s].overtaken = record.overtaken
    BY <1>4, <1>8, <1>10, CreateEffect DEF IInv
  <2> QED BY <1>11, <2>1
<1>14. TypeOK'
  BY <1>1, <1>7, <1>12 DEF IInv, TypeOK, SessionTypes, CallTypes
<1>15. ASSUME NEW j \in CsrfTokens, NEW b \in Accounts \cup {None}, Names(j, b)'
       PROVE  Names(j, b) \/ (j = k /\ b = a)
  <2>1. SessionNames(j, b)' => SessionNames(j, b) \/ (j = k /\ b = a)
    BY <1>12 DEF SessionNames
  <2> QED BY <1>7, <1>15, <2>1 DEF Names
<1>16. TokensAgree'
  BY <1>7, <1>15, NewNames DEF IInv
<1>17. ASSUME NEW x \in SessionIds, Outdated(x)'
       PROVE  sessions'[x].overtaken \/ Changing(sessions[x].account)'
  <2>1. CASE x = s
    BY <1>1, <1>12, <1>13, <1>17, <2>1 DEF Outdated, late
  <2>2. CASE x # s
    <3>1. /\ x \in Live /\ sessions'[x].account = sessions[x].account
          /\ sessions'[x].opened = sessions[x].opened
          /\ sessions'[x].overtaken = sessions[x].overtaken
      BY <1>12, <1>17, <2>2 DEF Outdated
    <3>2. Outdated(x)
      BY <1>1, <1>17, <3>1 DEF Outdated
    <3>3. sessions[x].overtaken \/ Changing(sessions[x].account)
      BY <3>2 DEF IInv, PasswordEndsSessions
    <3>4. Changing(sessions[x].account) => Changing(sessions[x].account)'
      BY <1>1, <1>7, <3>1 DEF Changing, At, Busy
    <3> QED BY <3>1, <3>3, <3>4
  <2> QED BY <2>1, <2>2
<1>18. PasswordEndsSessions'
  BY <1>17 DEF PasswordEndsSessions
<1> QED BY <1>7, <1>12, <1>14, <1>16, <1>18 DEF IInv

-----------------------------------------------------------------------------
(* Time and restarts                                                       *)

LEMMA TickStep ==
    ASSUME IInv, Tick
    PROVE  IInv'
<1>1. UNCHANGED <<verifier, orphans, jar, tab, call, use>>
  BY DEF Tick
<1>2. StoreStays /\ TokensStay
  BY TickStays DEF IInv
<1>3. TypeOK'
  BY <1>1, <1>2 DEF IInv, TypeOK, StoreStays, SessionTypes
<1>4. TokensAgree'
  BY <1>1, <1>2, CallsStay, StoreStaysNames, NamesStay DEF IInv, Names, TabNames
<1>5. PasswordEndsSessions'
  BY <1>1, <1>2, CallsStay, PasswordStays DEF IInv
<1> QED BY <1>1, <1>2, <1>3, <1>4, <1>5, CallsStay, StoreStaysOrdered DEF IInv

LEMMA RestartStep ==
    ASSUME IInv, Restart
    PROVE  IInv'
<1>1. /\ sessions' = [s \in SessionIds |-> None] /\ call' = [c \in Calls |-> NoCall]
      /\ UNCHANGED <<verifier, jar, tab, use>>
  BY DEF Restart
<1>2. PICK lost \in SUBSET {c \in Calls : At(c, "password", "updating")} :
          orphans' = orphans \cup {OrphanOf(c) : c \in lost}
  BY DEF Restart
<1>3. orphans' \subseteq Orphans
  BY <1>2, OrphanType DEF IInv, TypeOK
<1>4. TypeOK'
  BY <1>1, <1>3 DEF IInv, TypeOK
<1>5. StoreStays /\ TokensStay
  BY <1>1 DEF StoreStays, TokensStay, SessionTypes, Remains, KeepsToken
<1>6. Live' = {}
  BY <1>1 DEF Live
<1>7. CallsFit'
  BY <1>1 DEF CallsFit, CallFits, Busy
<1>8. ASSUME NEW k \in CsrfTokens, NEW a \in Accounts \cup {None}, Names(k, a)'
      PROVE  Names(k, a)
  BY <1>1, <1>6, <1>8 DEF Names, SessionNames, TabNames, CallNames, ReplyNames, Busy
<1>9. TokensAgree'
  BY <1>8, NamesStay DEF IInv
<1>10. PasswordEndsSessions'
  BY <1>6 DEF PasswordEndsSessions, Outdated
<1> QED BY <1>4, <1>5, <1>7, <1>9, <1>10, StoreStaysOrdered DEF IInv

LEMMA StutterStep ==
    ASSUME IInv, UNCHANGED vars
    PROVE  IInv'
<1>1. UNCHANGED <<sessions, verifier, orphans, jar, tab, call, use>>
  BY DEF vars
<1>2. StoreStays /\ TokensStay
  BY <1>1, UnchangedStays DEF IInv
<1>3. TypeOK'
  BY <1>1 DEF IInv, TypeOK
<1>4. TokensAgree'
  BY <1>1, <1>2, CallsStay, StoreStaysNames, NamesStay DEF IInv, Names, TabNames
<1>5. PasswordEndsSessions'
  BY <1>1, <1>2, CallsStay, PasswordStays DEF IInv
<1> QED BY <1>1, <1>2, <1>3, <1>4, <1>5, CallsStay, StoreStaysOrdered DEF IInv
-----------------------------------------------------------------------------
(* The invariant holds in every reachable state.                           *)

LEMMA InitIInv == Init => IInv
<1> SUFFICES ASSUME Init PROVE IInv
  OBVIOUS
<1>1. /\ Live = {}
      /\ \A t \in Tabs : tab[t] = SignedOut
      /\ \A c \in Calls : ~Busy(c)
  BY DEF Init, Live, Busy
<1>2. TypeOK
  <2>1. verifier \in [Accounts -> Verifiers]
    BY SaltsSuffice DEF Init
  <2>2. sessions \in [SessionIds -> Records \cup {None}]
    BY DEF Init
  <2>3. orphans \subseteq Orphans /\ use \in Uses
    BY DEF Init
  <2>4. jar \in [Browsers -> SessionIds \cup {None}]
    BY DEF Init
  <2>5. tab \in [Tabs -> Views]
    BY DEF Init, Views
  <2>6. call \in [Calls -> CallRecords \cup {NoCall}]
    BY DEF Init
  <2> QED BY <2>1, <2>2, <2>3, <2>4, <2>5, <2>6 DEF TypeOK
<1>3. TokensAgree
  <2>1. SignedOut.csrf = None /\ \A k \in CsrfTokens : k # None
    BY NewValues DEF SignedOut
  <2> QED BY <1>1, <2>1 DEF TokensAgree, Names, SessionNames, TabNames, CallNames, ReplyNames
<1>4. CallsFit
  BY <1>1 DEF CallsFit, CallFits
<1>5. AgesAreOrdered /\ QuietIsIdle
  BY <1>1 DEF AgesAreOrdered, QuietIsIdle
<1>6. FewSessions
  <2>1. IsFiniteSet(Live) /\ Cardinality(Live) = 0
    BY <1>1, FS_EmptySet, Zenon
  <2> QED BY <2>1, LimitsType DEF FewSessions
<1>7. PasswordEndsSessions
  BY <1>1 DEF PasswordEndsSessions, Outdated
<1> QED BY <1>2, <1>3, <1>4, <1>5, <1>6, <1>7 DEF IInv

LEMMA NextIInv == IInv /\ [Next]_vars => IInv'
<1> SUFFICES ASSUME IInv, [Next]_vars PROVE IInv'
  OBVIOUS
<1>1. CASE \E c \in Calls, t \in Tabs, kind \in AllKinds, a \in Accounts \cup {None} : Send(c, t, kind, a)
  BY <1>1, SendStep
<1>2. ASSUME NEW c \in Calls, Step(c)
      PROVE  IInv'
  <2>1. CASE ServeSession(c)
    BY <2>1, ServeSessionStep, RefusedSessionStep
  <2>2. CASE RefuseStranger(c) \/ RefuseToken(c)
    BY <2>2, RefuseStep
  <2>3. CASE Serve(c)
    BY <2>3, ServeStep
  <2>4. CASE ServeLogout(c)
    BY <2>4, ServeLogoutStep
  <2>5. CASE ReadVerifier(c) \/ ReadMaterial(c)
    BY <2>5, ReadVerifierStep
  <2>6. CASE LoginFails(c) \/ ChangeRefused(c)
    BY <2>6, FailsStep
  <2>7. CASE OpenSession(c)
    BY <2>7, OpenSessionStep
  <2>8. CASE StartChange(c)
    BY <2>8, StartChangeStep
  <2>9. CASE StartUpdate(c)
    BY <2>9, StartUpdateStep
  <2>10. CASE Update(c)
    BY <2>10, UpdateStep
  <2>11. CASE ChangeSucceeds(c) \/ ChangeConflicts(c) \/ ChangeUnconfirmed(c)
    BY <2>11, ChangeEndsStep
  <2>12. CASE Receive(c) \/ LoseReply(c)
    BY <2>12, ReceiveStep
  <2> QED BY <1>2, <2>1, <2>2, <2>3, <2>4, <2>5, <2>6, <2>7, <2>8, <2>9, <2>10, <2>11, <2>12 DEF Step
<1>3. CASE \E o \in orphans : OrphanUpdate(o)
  BY <1>3, OrphanUpdateStep
<1>4. CASE Restart
  BY <1>4, RestartStep
<1>5. CASE Tick
  BY <1>5, TickStep
<1>6. CASE UNCHANGED vars
  BY <1>6, StutterStep
<1> QED BY <1>1, <1>2, <1>3, <1>4, <1>5, <1>6 DEF Next

\* The invariant of all the theorems below.
THEOREM Invariance == Spec => []IInv
<1>1. Init => IInv
  BY InitIInv
<1>2. IInv /\ [Next]_vars => IInv'
  BY NextIInv
<1> QED BY <1>1, <1>2, PTL DEF Spec

-----------------------------------------------------------------------------
(* The theorems                                                            *)

\* Sessions, tabs, cookies, requests and verifiers keep their types, and a
\* step that reads one finds one.
THEOREM TypeCorrect == Spec => []TypeOK
<1>1. IInv => TypeOK
  BY DEF IInv
<1> QED BY <1>1, Invariance, PTL

\* No mutation, logout or change of the password is accepted for another
\* account than the one its tab showed when it sent it.
THEOREM OwnAccountOnly == Spec => []NoCrossAccountMutation
<1>1. IInv => NoCrossAccountMutation
  BY DEF IInv, CallsFit, CallFits, NoCrossAccountMutation
<1> QED BY <1>1, Invariance, PTL

\* The eviction keeps the sessions within their limit, whatever it is.
THEOREM Bounded == Spec => []SessionsBounded
<1>1. IInv => SessionsBounded
  BY DEF IInv, FewSessions, SessionsBounded
<1> QED BY <1>1, Invariance, PTL

\* A session opened with a replaced password does not outlive the change,
\* unless its login or an abandoned UPDATE overtook it.
THEOREM ChangeEndsSessions == Spec => []PasswordEndsSessions
<1>1. IInv => PasswordEndsSessions
  BY DEF IInv
<1> QED BY <1>1, Invariance, PTL

-----------------------------------------------------------------------------
(* An expired session serves nothing.                                      *)

\* A step of one request, or of none, leaves the others as they are.
LEMMA OthersWait ==
    ASSUME TypeOK, NEW c \in Calls, NEW d \in Calls, d # c, Step(d)
    PROVE  call'[c] = call[c]
<1>1. ASSUME NEW r, call' = [call EXCEPT ![d] = r]
      PROVE  call'[c] = call[c]
  BY <1>1 DEF TypeOK
<1>2. CASE \E r : call' = [call EXCEPT ![d] = r]
  BY <1>1, <1>2
<1>3. CASE \/ ReadVerifier(d) \/ ReadMaterial(d) \/ StartUpdate(d) \/ Update(d)
  BY <1>3 DEF ReadVerifier, ReadMaterial, StartUpdate, Update, TypeOK
<1>4. CASE \/ ServeSession(d) \/ RefuseStranger(d) \/ RefuseToken(d) \/ Serve(d) \/ ServeLogout(d)
  BY <1>2, <1>4 DEF ServeSession, RefuseStranger, RefuseToken, Serve, ServeLogout, Answer
<1>5. CASE LoginFails(d) \/ OpenSession(d) \/ StartChange(d) \/ ChangeRefused(d)
  BY <1>2, <1>5 DEF LoginFails, OpenSession, StartChange, ChangeRefused, Answer
<1>6. CASE \/ ChangeSucceeds(d) \/ ChangeConflicts(d) \/ ChangeUnconfirmed(d)
           \/ Receive(d) \/ LoseReply(d)
  BY <1>2, <1>6 DEF ChangeSucceeds, ChangeConflicts, ChangeUnconfirmed, EndSessions, Answer,
                    Receive, LoseReply
<1> QED BY <1>3, <1>4, <1>5, <1>6 DEF Step

\* What an answer without a session says.
LEMMA RefusalShowsNothing ==
    ASSUME TypeOK, CallsFit, NEW c \in Calls, Busy(c), call[c].stage = "sent",
           NEW cookie \in {Keep, Clear} \cup SessionIds, NEW view \in {Keep, SignedOut},
           Answer(c, cookie, view)
    PROVE  ~call'[c].accepted /\ call'[c].reply.view \notin SignedIn
<1> DEFINE r == Answered(c, cookie, view)
<1>1. view \in {Keep} \cup Views
  BY DEF Views
<1>2. r.accepted = call[c].accepted
  BY AnsweredAccepted
<1>3. r.reply.view = view /\ r \in CallRecords
  BY <1>1, AnsweredType
<1>4. call' = [call EXCEPT ![c] = r]
  BY DEF Answer
<1> HIDE DEF r
<1>5. call'[c] = r
  BY <1>4 DEF TypeOK
<1>6. ~call[c].accepted
  BY DEF CallsFit, CallFits
<1>7. view \notin SignedIn
  BY NewValues DEF SignedIn, SignedOut
<1> QED BY <1>2, <1>3, <1>5, <1>6, <1>7

\* A request on its way to a guarded route is only served for a session that
\* resolve() finds.
LEMMA ServedIsFound ==
    ASSUME IInv, [Next]_vars, NEW c \in Calls, Busy(c), call[c].stage = "sent",
           call[c].kind # "login", call'[c] # NoCall,
           call'[c].accepted \/ call'[c].reply.view \in SignedIn
    PROVE  Found(call[c].cookie)
<1>1. call'[c] # call[c]
  <2>1. ~call[c].accepted /\ call[c].reply.view = Keep
    BY DEF IInv, CallsFit, CallFits
  <2>2. Keep \notin SignedIn
    BY NewValues DEF SignedIn
  <2> QED BY <2>1, <2>2
<1>2. CASE \E d \in Calls, t \in Tabs, kind \in AllKinds, a \in Accounts \cup {None} : Send(d, t, kind, a)
  BY <1>1, <1>2 DEF Send, IInv, TypeOK
<1>3. CASE (\E o \in orphans : OrphanUpdate(o)) \/ Restart \/ Tick \/ UNCHANGED vars
  BY <1>1, <1>3 DEF OrphanUpdate, Restart, Tick, vars
<1>4. CASE \E d \in Calls : Step(d)
  <2>1. Step(c)
    BY <1>1, <1>4, OthersWait DEF IInv
  <2>2. \/ ServeSession(c) \/ RefuseStranger(c) \/ RefuseToken(c) \/ Serve(c) \/ ServeLogout(c)
        \/ StartChange(c)
    BY <2>1 DEF Step, At, ReadVerifier, LoginFails, OpenSession, ReadMaterial, ChangeRefused,
                StartUpdate, Update, ChangeSucceeds, ChangeConflicts, ChangeUnconfirmed,
                Receive, LoseReply
  <2>3. CookieOfUnknown(c) \in {Keep, Clear} \cup SessionIds
    BY CookieAnswer
  <2>4. \A cookie \in {Keep, Clear} \cup SessionIds, view \in {Keep, SignedOut} : ~Answer(c, cookie, view)
    BY RefusalShowsNothing DEF IInv
  <2>5. ~RefuseStranger(c) /\ ~RefuseToken(c)
    BY <2>3, <2>4 DEF RefuseStranger, RefuseToken
  <2>6. CASE ServeSession(c) \/ ServeLogout(c)
    BY <2>3, <2>4, <2>6 DEF ServeSession, ServeLogout, Passes
  <2>7. CASE Serve(c) \/ StartChange(c)
    BY <2>7 DEF Serve, StartChange, Passes
  <2> QED BY <2>2, <2>5, <2>6, <2>7
<1> QED BY <1>2, <1>3, <1>4 DEF Next

\* Nothing is served for a session past its idle or absolute timeout, however
\* often its tabs refresh it in between.
THEOREM ExpiredIsRefused == Spec => NoExpiredService
<1>1. ASSUME IInv, [Next]_vars, NEW c \in Calls,
             Busy(c), call[c].stage = "sent", call[c].kind # "login", call'[c] # NoCall,
             call'[c].accepted \/ call'[c].reply.view \in SignedIn
      PROVE  /\ sessions[call[c].cookie].quiet < IdleTimeout
             /\ sessions[call[c].cookie].age < AbsoluteTimeout
  <2>1. Found(call[c].cookie)
    BY <1>1, ServedIsFound
  <2>2. PICK s \in Live : s = call[c].cookie /\ ~Expired(sessions[s])
    BY <2>1 DEF Found
  <2>3. sessions[s] \in Records /\ sessions[s].quiet = sessions[s].idle
    BY <1>1, RecordType DEF IInv, Live, QuietIsIdle
  <2> QED BY <2>2, <2>3, LimitsType DEF Expired, Records
<1>2. IInv /\ [Next]_vars =>
        [\A c \in Calls :
           /\ Busy(c) /\ call[c].stage = "sent" /\ call[c].kind # "login"
           /\ call'[c] # NoCall
           /\ call'[c].accepted \/ call'[c].reply.view \in SignedIn
           => LET r == sessions[call[c].cookie]
              IN r.quiet < IdleTimeout /\ r.age < AbsoluteTimeout]_vars
  BY <1>1
<1> QED BY <1>2, Invariance, PTL DEF Spec, NoExpiredService

=============================================================================
