----------------------------- MODULE PortalAccess -----------------------------
(***************************************************************************)
(* Who may act for which account: the session store of the portal process  *)
(* (services/portal-sessions.ts), the login, session, logout and password  *)
(* routes, the middleware in front of every protected route, and the       *)
(* browser tabs (client/src/auth/auth-context.tsx) that share one cookie   *)
(* jar but each remember an account and a CSRF token of their own.         *)
(*                                                                         *)
(* A request is sent, served and answered in separate steps, so requests   *)
(* and replies of all tabs overtake each other.  What the process does     *)
(* between two awaits is one step.  Session IDs and CSRF tokens are random *)
(* in the code: here a new one is any value that nobody remembers.  A      *)
(* verifier stands for a password together with its random salt.           *)
(*                                                                         *)
(* A definition X_Y is a mutated form of the definition X below it: a bug  *)
(* that a property must catch.  No other definition uses it.               *)
(***************************************************************************)
EXTENDS Naturals, FiniteSets

CONSTANTS
    Tabs, Browsers, BrowserOf,      \* tab t uses the cookie jar BrowserOf[t]
    Accounts, Calls,
    SessionIds, CsrfTokens, Verifiers,
    MaxSessions, IdleTimeout, AbsoluteTimeout,
    Uses,                           \* the ways the portal is used
    MaxOrphans,                     \* bound: UPDATEs that may be executed late
    None,
    Keep, Clear                     \* what a reply does to the cookie and the tab

AllKinds == {"session", "read", "mutation", "login", "logout", "password"}

ASSUME BrowserOfType == BrowserOf \in [Tabs -> Browsers]
ASSUME LimitsType == /\ MaxSessions \in Nat \ {0}
                     /\ IdleTimeout \in Nat \ {0}
                     /\ AbsoluteTimeout \in Nat \ {0}
                     /\ MaxOrphans \in Nat

(* A behaviour is one use: what its tabs ask for, for which accounts, how   *)
(* many requests at once, and which events of the world happen in it.       *)
Events == {"time", "lost reply", "restart", "late update"}
ASSUME UsesType == Uses \subseteq [kinds : SUBSET AllKinds, users : SUBSET Accounts,
                                   calls : SUBSET Calls, events : SUBSET Events]

ASSUME NewValues == /\ None \notin Accounts \cup SessionIds \cup CsrfTokens \cup Verifiers
                    /\ {Keep, Clear} \cap SessionIds = {}
                    /\ Keep # Clear
                    /\ Keep \notin [account : Accounts \cup {None}, csrf : CsrfTokens \cup {None}]

\* A salt is random: no two accounts need to have the same verifier.
ASSUME SaltsSuffice == \E v \in [Accounts -> Verifiers] :
                          \A a, b \in Accounts : v[a] = v[b] => a = b

VARIABLES
    sessions,   \* sessions[s]: the record of session s, or None
    verifier,   \* verifier[a]: the salt and verifier of account a in the database
    orphans,    \* UPDATEs of a verifier whose caller is gone
    jar,        \* jar[b]: the session cookie of browser b, or None
    tab,        \* tab[t]: the account and CSRF token tab t shows, or SignedOut
    call,       \* call[c]: a request from its sending to its reply, or NoCall
    use         \* the use of this behaviour, which no step changes

vars == <<sessions, verifier, orphans, jar, tab, call, use>>

SignedOut == [account |-> None, csrf |-> None]
SignedIn == [account : Accounts, csrf : CsrfTokens]
Views == SignedIn \cup {SignedOut}

(* older: the sessions before it in the Map; quiet, opened and overtaken   *)
(* are history: the time since the last request that was not the passive   *)
(* refresh, the verifier its login checked, and whether that verifier was  *)
(* replaced before the login ended or by an UPDATE nobody waited for.      *)
Records == [account : Accounts, age : 0..AbsoluteTimeout, idle : 0..IdleTimeout,
            quiet : 0..IdleTimeout, csrf : CsrfTokens, older : SUBSET SessionIds,
            opened : Verifiers, overtaken : BOOLEAN]

Stages == {"sent", "checked", "reading", "read", "updating", "updated", "replied"}

Replies == [cookie : {Keep, Clear} \cup SessionIds, view : {Keep} \cup Views]
NoReply == [cookie |-> Keep, view |-> Keep]

(* cookie and csrf: what the request carries; believed: the account its    *)
(* tab showed when it sent it; account: whom the login names or the guard  *)
(* found; accepted: the guard let it through.                              *)
CallRecords == [kind : AllKinds, tab : Tabs, stage : Stages,
                cookie : SessionIds \cup {None}, csrf : CsrfTokens \cup {None},
                believed : Accounts \cup {None}, account : Accounts \cup {None},
                accepted : BOOLEAN, read : Verifiers \cup {None},
                new : Verifiers \cup {None}, replaced : BOOLEAN, reply : Replies]
NoCall == [kind |-> "none"]

Orphans == [account : Accounts, from : Verifiers, to : Verifiers]

Busy(c) == call[c] # NoCall
At(c, kind, stage) == Busy(c) /\ call[c].kind = kind /\ call[c].stage = stage

Init == /\ sessions = [s \in SessionIds |-> None]
        /\ verifier = CHOOSE v \in [Accounts -> Verifiers] :
                           \A a, b \in Accounts : v[a] = v[b] => a = b
        /\ orphans = {}
        /\ jar = [b \in Browsers |-> None]
        /\ tab = [t \in Tabs |-> SignedOut]
        /\ call = [c \in Calls |-> NoCall]
        /\ use \in Uses

-----------------------------------------------------------------------------
(* PortalSessionStore *)

Live == {s \in SessionIds : sessions[s] # None}

Expired(r) == r.age = AbsoluteTimeout \/ r.idle = IdleTimeout

Found(s) == s \in Live /\ ~Expired(sessions[s])

Resolve_AlwaysTouches(s, touch) ==
    [x \in SessionIds |->
        IF x # s \/ sessions[x] = None THEN sessions[x]
        ELSE IF Expired(sessions[x]) THEN None ELSE [sessions[x] EXCEPT !.idle = 0]]

\* resolve(): an expired session is deleted, a found one is marked as used.
Resolve(s, touch) ==
    [x \in SessionIds |->
        IF x # s \/ sessions[x] = None THEN sessions[x]
        ELSE IF Expired(sessions[x]) THEN None
        ELSE IF touch THEN [sessions[x] EXCEPT !.idle = 0] ELSE sessions[x]]

\* History: the request just served was not the passive refresh.
Active(store, s) ==
    [x \in SessionIds |-> IF x = s /\ store[x] # None
                          THEN [store[x] EXCEPT !.quiet = 0] ELSE store[x]]

VerifyCsrf(s, token) == sessions[s].csrf = token

Invalidate(s) == [x \in SessionIds |-> IF x = s THEN None ELSE sessions[x]]

InvalidateAccount(a) ==
    [x \in SessionIds |-> IF sessions[x] # None /\ sessions[x].account = a
                          THEN None ELSE sessions[x]]

FreshSessionId(s) == /\ s \notin Live
                     /\ \A b \in Browsers : jar[b] # s
                     /\ \A c \in Calls : Busy(c) => s \notin {call[c].cookie, call[c].reply.cookie}

FreshCsrf(k) == /\ \A s \in Live : sessions[s].csrf # k
                /\ \A t \in Tabs : tab[t].csrf # k
                /\ \A c \in Calls : Busy(c) =>
                      /\ call[c].csrf # k
                      /\ call[c].reply.view # Keep => call[c].reply.view.csrf # k

\* Which of the fresh values makes no difference.
NewSessionId == CHOOSE s \in SessionIds : FreshSessionId(s)
NewCsrf == CHOOSE k \in CsrfTokens : FreshCsrf(k)
SessionIdsLeft == \E s \in SessionIds : FreshSessionId(s)
TokensLeft == \E k \in CsrfTokens : FreshCsrf(k)

\* create() after the prior session is gone: what prune() and the eviction of
\* the sessions created first leave of the others.
Pruned(prior) == {s \in Live \ {prior} : ~Expired(sessions[s])}
Newer(s, among) == {x \in among : s \in sessions[x].older}
Kept_OneMore(prior) == LET left == Pruned(prior)
                       IN {s \in left : Cardinality(Newer(s, left)) < MaxSessions}
Kept(prior) == LET left == Pruned(prior)
               IN {s \in left : Cardinality(Newer(s, left)) < MaxSessions - 1}

Create(s, record, prior) ==
    [x \in SessionIds |->
        IF x = s THEN [record EXCEPT !.older = Kept(prior)]
        ELSE IF x \in Kept(prior)
             THEN [sessions[x] EXCEPT !.older = @ \cap Kept(prior)]
             ELSE None]

-----------------------------------------------------------------------------
(* The tabs send requests.  Only the login page is used signed out, and    *)
(* only signed out; one refresh of the session at a time.                  *)

Guarded == {"mutation", "logout", "password"}   \* sent with the CSRF token

Send(c, t, kind, account) ==
    /\ ~Busy(c)
    /\ c \in use.calls
    /\ kind \in use.kinds
    /\ kind = "login" => tab[t] = SignedOut /\ account \in use.users
    /\ kind # "login" => account = None
    /\ kind \in {"read", "mutation", "logout", "password"} => tab[t] # SignedOut
    /\ kind = "session" => \A d \in Calls : ~(Busy(d) /\ call[d].kind = kind /\ call[d].tab = t)
    /\ call' = [call EXCEPT ![c] =
                  [kind |-> kind, tab |-> t, stage |-> "sent", cookie |-> jar[BrowserOf[t]],
                   csrf |-> IF kind \in Guarded THEN tab[t].csrf ELSE None,
                   believed |-> tab[t].account, account |-> account, accepted |-> FALSE,
                   read |-> None, new |-> None, replaced |-> FALSE, reply |-> NoReply]]
    /\ UNCHANGED <<sessions, verifier, orphans, jar, tab, use>>

Answered(c, cookie, view) ==
    [call[c] EXCEPT !.stage = "replied", !.cookie = None, !.csrf = None,
                    !.read = None, !.new = None,
                    !.reply = [cookie |-> cookie, view |-> view]]

Answer(c, cookie, view) == call' = [call EXCEPT ![c] = Answered(c, cookie, view)]

\* A cookie that resolves to nothing is cleared.
CookieOfUnknown(c) == IF call[c].cookie = None THEN Keep ELSE Clear

\* GET /api/auth/session: the passive refresh; every answer has a new token.
ServeSession(c) ==
    /\ At(c, "session", "sent")
    /\ LET s == call[c].cookie
       IN \/ /\ ~Found(s)
             /\ sessions' = Resolve(s, FALSE)
             /\ Answer(c, CookieOfUnknown(c), SignedOut)
          \/ /\ Found(s)
             /\ TokensLeft
             /\ sessions' = [Resolve(s, FALSE) EXCEPT ![s].csrf = NewCsrf]
             /\ Answer(c, Keep, [account |-> sessions[s].account, csrf |-> NewCsrf])
    /\ UNCHANGED <<verifier, orphans, jar, tab, use>>

\* createRequirePortalSession and createRequirePortalMutation: the session of
\* the cookie is used, then its token is compared.
Passes_WithoutToken(c) == Found(call[c].cookie)

Passes(c) ==
    /\ Found(call[c].cookie)
    /\ call[c].kind # "read" => VerifyCsrf(call[c].cookie, call[c].csrf)

Guard(c) ==
    /\ call[c].stage = "sent"
    /\ sessions' = IF Found(call[c].cookie)
                   THEN Active(Resolve(call[c].cookie, TRUE), call[c].cookie)
                   ELSE Resolve(call[c].cookie, TRUE)

\* A protected route without a session: 401, and the boosts page signs out;
\* the settings page only shows the message.
RefuseStranger(c) ==
    /\ Busy(c)
    /\ call[c].kind \in {"read", "mutation", "password"}
    /\ Guard(c)
    /\ ~Found(call[c].cookie)
    /\ Answer(c, CookieOfUnknown(c), IF call[c].kind = "password" THEN Keep ELSE SignedOut)
    /\ UNCHANGED <<verifier, orphans, jar, tab, use>>

\* 403: the token is not the newest one of the session.
RefuseToken(c) ==
    /\ Busy(c)
    /\ call[c].kind \in Guarded
    /\ Guard(c)
    /\ Found(call[c].cookie)
    /\ ~Passes(c)
    /\ Answer(c, Keep, Keep)
    /\ UNCHANGED <<verifier, orphans, jar, tab, use>>

\* A read or a boost is carried out for the account of the session.
Serve(c) ==
    /\ Busy(c)
    /\ call[c].kind \in {"read", "mutation"}
    /\ Guard(c)
    /\ Passes(c)
    /\ call' = [call EXCEPT ![c] = [Answered(c, Keep, Keep) EXCEPT
                  !.account = sessions[call[c].cookie].account, !.accepted = TRUE]]
    /\ UNCHANGED <<verifier, orphans, jar, tab, use>>

\* POST /api/auth/logout: without a session there is nothing to end.
ServeLogout(c) ==
    /\ At(c, "logout", "sent")
    /\ LET s == call[c].cookie
       IN \/ /\ ~Found(s)
             /\ sessions' = Resolve(s, TRUE)
             /\ Answer(c, CookieOfUnknown(c), SignedOut)
          \/ /\ Passes(c)
             /\ sessions' = Invalidate(s)
             /\ call' = [call EXCEPT ![c] = [Answered(c, Clear, SignedOut) EXCEPT
                           !.account = sessions[s].account, !.accepted = TRUE]]
    /\ UNCHANGED <<verifier, orphans, jar, tab, use>>

-----------------------------------------------------------------------------
(* POST /api/auth/login *)

\* The row of the account is read; the password is compared with it later.
ReadVerifier(c) ==
    /\ At(c, "login", "sent")
    /\ call' = [call EXCEPT ![c].stage = "checked", ![c].read = verifier[call[c].account]]
    /\ UNCHANGED <<sessions, verifier, orphans, jar, tab, use>>

\* A limit, a wrong password, a ban or an error of the database.
LoginFails(c) ==
    /\ At(c, "login", "sent") \/ At(c, "login", "checked")
    /\ Answer(c, Keep, Keep)
    /\ UNCHANGED <<sessions, verifier, orphans, jar, tab, use>>

OpenSession(c) ==
    /\ At(c, "login", "checked")
    /\ SessionIdsLeft
    /\ TokensLeft
    /\ sessions' = Create(NewSessionId,
          [account |-> call[c].account, age |-> 0, idle |-> 0, quiet |-> 0, csrf |-> NewCsrf,
           older |-> {}, opened |-> call[c].read,
           overtaken |-> call[c].read # verifier[call[c].account]], call[c].cookie)
    /\ Answer(c, NewSessionId, [account |-> call[c].account, csrf |-> NewCsrf])
    /\ UNCHANGED <<verifier, orphans, jar, tab, use>>

-----------------------------------------------------------------------------
(* POST /api/account/password *)

\* Behind the guard: a bad body or the limiter answers, or the row is asked for.
StartChange(c) ==
    /\ At(c, "password", "sent")
    /\ Guard(c)
    /\ Passes(c)
    /\ \E next \in {call[c], Answered(c, Keep, Keep)} :
          call' = [call EXCEPT ![c] = [next EXCEPT
                     !.account = sessions[call[c].cookie].account, !.accepted = TRUE,
                     !.stage = IF @ = "sent" THEN "reading" ELSE @]]
    /\ UNCHANGED <<verifier, orphans, jar, tab, use>>

ReadMaterial(c) ==
    /\ At(c, "password", "reading")
    /\ call' = [call EXCEPT ![c].stage = "read", ![c].read = verifier[call[c].account]]
    /\ UNCHANGED <<sessions, verifier, orphans, jar, tab, use>>

\* "unavailable" or "incorrect-current": the sessions stay.
ChangeRefused(c) ==
    /\ At(c, "password", "reading") \/ At(c, "password", "read")
    /\ Answer(c, Keep, Keep)
    /\ UNCHANGED <<sessions, verifier, orphans, jar, tab, use>>

\* The new salt is random: the new verifier is one nobody remembers.
FreshVerifier(v) ==
    /\ \A a \in Accounts : verifier[a] # v
    /\ \A s \in Live : sessions[s].opened # v
    /\ \A c \in Calls : Busy(c) => v \notin {call[c].read, call[c].new}
    /\ \A o \in orphans : v \notin {o.from, o.to}

StartUpdate(c) ==
    /\ At(c, "password", "read")
    /\ \E v \in Verifiers : FreshVerifier(v)
    /\ call' = [call EXCEPT ![c].stage = "updating",
                            ![c].new = CHOOSE v \in Verifiers : FreshVerifier(v)]
    /\ UNCHANGED <<sessions, verifier, orphans, jar, tab, use>>

\* UPDATE ... WHERE id = ? AND salt = ? AND verifier = ?
Update(c) ==
    /\ At(c, "password", "updating")
    /\ LET a == call[c].account
           hit == verifier[a] = call[c].read
       IN /\ verifier' = IF hit THEN [verifier EXCEPT ![a] = call[c].new] ELSE verifier
          /\ call' = [call EXCEPT ![c].stage = "updated", ![c].replaced = hit]
    /\ UNCHANGED <<sessions, orphans, jar, tab, use>>

EndSessions(c) ==
    /\ sessions' = InvalidateAccount(call[c].account)
    /\ Answer(c, Clear, SignedOut)

ChangeSucceeds(c) ==
    /\ At(c, "password", "updated")
    /\ call[c].replaced
    /\ EndSessions(c)
    /\ UNCHANGED <<verifier, orphans, jar, tab, use>>

ChangeConflicts(c) ==
    /\ At(c, "password", "updated")
    /\ ~call[c].replaced
    /\ EndSessions(c)
    /\ UNCHANGED <<verifier, orphans, jar, tab, use>>

OrphanOf(c) == [account |-> call[c].account, from |-> call[c].read, to |-> call[c].new]

ChangeUnconfirmed_KeepsSessions(c) ==
    /\ "late update" \in use.events
    /\ At(c, "password", "updating") \/ At(c, "password", "updated")
    /\ Answer(c, Keep, Keep)
    /\ UNCHANGED <<sessions, verifier, orphans, jar, tab, use>>

\* The statement times out or its connection breaks: it may have been executed,
\* may never be, or is executed later.
ChangeUnconfirmed(c) ==
    /\ "late update" \in use.events
    /\ At(c, "password", "updating") \/ At(c, "password", "updated")
    /\ \/ UNCHANGED orphans
       \/ /\ call[c].stage = "updating" /\ Cardinality(orphans) < MaxOrphans
          /\ orphans' = orphans \cup {OrphanOf(c)}
    /\ EndSessions(c)
    /\ UNCHANGED <<verifier, jar, tab, use>>

OrphanUpdate(o) ==
    /\ orphans' = orphans \ {o}
    /\ IF verifier[o.account] = o.from
       THEN /\ verifier' = [verifier EXCEPT ![o.account] = o.to]
            /\ sessions' = [s \in SessionIds |->
                              IF s \in Live /\ sessions[s].account = o.account
                              THEN [sessions[s] EXCEPT !.overtaken = TRUE] ELSE sessions[s]]
       ELSE UNCHANGED <<verifier, sessions>>
    /\ UNCHANGED <<jar, tab, call, use>>

-----------------------------------------------------------------------------
(* Replies, time and faults *)

\* The browser stores the cookie, the tab what the reply says.
Receive(c) ==
    /\ Busy(c)
    /\ call[c].stage = "replied"
    /\ LET r == call[c].reply
           t == call[c].tab
       IN /\ jar' = IF r.cookie = Keep THEN jar
                    ELSE [jar EXCEPT ![BrowserOf[t]] = IF r.cookie = Clear THEN None ELSE r.cookie]
          /\ tab' = IF r.view = Keep THEN tab ELSE [tab EXCEPT ![t] = r.view]
    /\ call' = [call EXCEPT ![c] = NoCall]
    /\ UNCHANGED <<sessions, verifier, orphans, use>>

\* The request failed for the tab: it keeps what it has.
LoseReply(c) ==
    /\ "lost reply" \in use.events
    /\ Busy(c)
    /\ call[c].stage = "replied"
    /\ call' = [call EXCEPT ![c] = NoCall]
    /\ UNCHANGED <<sessions, verifier, orphans, jar, tab, use>>

\* Sessions are kept in memory only.
Restart ==
    /\ "restart" \in use.events
    /\ sessions' = [s \in SessionIds |-> None]
    /\ \E lost \in SUBSET {c \in Calls : At(c, "password", "updating")} :
          /\ Cardinality(orphans) + Cardinality(lost) <= MaxOrphans
          /\ orphans' = orphans \cup {OrphanOf(c) : c \in lost}
    /\ call' = [c \in Calls |-> NoCall]
    /\ UNCHANGED <<verifier, jar, tab, use>>

Later_Unbounded(n, limit) == n + 1
Later(n, limit) == IF n < limit THEN n + 1 ELSE n

Tick ==
    /\ "time" \in use.events
    /\ sessions' = [s \in SessionIds |->
         IF sessions[s] = None THEN None
         ELSE [sessions[s] EXCEPT !.age = Later(@, AbsoluteTimeout),
                                  !.idle = Later(@, IdleTimeout),
                                  !.quiet = Later(@, IdleTimeout)]]
    /\ UNCHANGED <<verifier, orphans, jar, tab, call, use>>

Step(c) ==
    \/ ServeSession(c) \/ RefuseStranger(c) \/ RefuseToken(c) \/ Serve(c) \/ ServeLogout(c)
    \/ ReadVerifier(c) \/ LoginFails(c) \/ OpenSession(c)
    \/ StartChange(c) \/ ReadMaterial(c) \/ ChangeRefused(c) \/ StartUpdate(c) \/ Update(c)
    \/ ChangeSucceeds(c) \/ ChangeConflicts(c) \/ ChangeUnconfirmed(c)
    \/ Receive(c) \/ LoseReply(c)

Next ==
    \/ \E c \in Calls, t \in Tabs, kind \in AllKinds, a \in Accounts \cup {None} : Send(c, t, kind, a)
    \/ \E c \in Calls : Step(c)
    \/ \E o \in orphans : OrphanUpdate(o)
    \/ Restart
    \/ Tick

Spec == Init /\ [][Next]_vars

-----------------------------------------------------------------------------
(* Properties *)

TypeOK ==
    /\ sessions \in [SessionIds -> Records \cup {None}]
    /\ verifier \in [Accounts -> Verifiers]
    /\ orphans \subseteq Orphans
    /\ jar \in [Browsers -> SessionIds \cup {None}]
    /\ tab \in [Tabs -> Views]
    /\ call \in [Calls -> CallRecords \cup {NoCall}]
    /\ use \in Uses

\* What a tab asks for is never done for another account than the one it shows:
\* another tab may have logged in as somebody else, with the cookie both share
\* (the comparison of the CSRF token in middleware/portal-auth.ts).
NoCrossAccountMutation ==
    \A c \in Calls : Busy(c) /\ call[c].kind \in Guarded /\ call[c].accepted
                    => call[c].account = call[c].believed

\* The Map of sessions is bounded (the eviction in create()).
SessionsBounded == Cardinality(Live) <= MaxSessions

\* No request is served for a session that was not used for the idle timeout,
\* the passive refresh aside, or that is older than the absolute timeout:
\* refreshing tabs do not keep a session alive (resolve(), GET /session).
NoExpiredService ==
    [][\A c \in Calls :
         /\ Busy(c) /\ call[c].stage = "sent" /\ call[c].kind # "login"
         /\ call'[c] # NoCall
         /\ call'[c].accepted \/ call'[c].reply.view \in SignedIn
         => LET r == sessions[call[c].cookie]
            IN r.quiet < IdleTimeout /\ r.age < AbsoluteTimeout]_vars

Changing(a) == \E c \in Calls : At(c, "password", "updated") /\ call[c].replaced /\ call[c].account = a

Outdated(s) == s \in Live /\ sessions[s].opened # verifier[sessions[s].account]

\* Once a change of the password has ended, by success or by an error that leaves
\* its outcome open, a session opened with the password before it is only left
\* if its login overlapped the change or the UPDATE was executed after the error
\* (routes/account.ts ends the sessions in all three cases).
PasswordEndsSessions ==
    \A s \in SessionIds : Outdated(s) => sessions[s].overtaken \/ Changing(sessions[s].account)

\* specs/implemented/account-settings-password-change.md: success invalidates all
\* sessions of the account and requires a login with the new password.
NewPasswordRequired ==
    \A s \in SessionIds : Outdated(s) => Changing(sessions[s].account)

=============================================================================
