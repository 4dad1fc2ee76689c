---------------------------- MODULE MCPortalAccess ----------------------------
(* Instances of PortalAccess: all tabs in one browser, or one browser each. *)
EXTENDS PortalAccess, TLC

CONSTANTS t1, t2, a1, a2, c1, c2

Use(kinds, users, calls, events) ==
    [kinds |-> kinds, users |-> users, calls |-> calls, events |-> events]

\* Two tabs as two users; one request at a time with every limit at work;
\* logins that race changes of the password.
Tabbing == Use({"session", "mutation", "login"}, {a1, a2}, {c1, c2}, {"lost reply", "restart"})
Ageing == Use({"session", "read", "login", "logout"}, {a1}, {c1},
              {"time", "lost reply", "restart"})
Rekeying == Use({"login", "password"}, {a1}, {c1, c2}, {"restart", "late update"})
Racing == Use({"login", "password"}, {a1}, {c1, c2}, {})

SafetyUses == {Tabbing, Ageing, Rekeying}
RacingUses == {Racing}

OneBrowser == {"b1"}
TwoBrowsers == {"b1", "b2"}
Shared == [t \in Tabs |-> "b1"]
Separate == [t \in Tabs |-> IF t = t1 THEN "b1" ELSE "b2"]

SomeTokens == 1..8
SomeSessions == 1..7
SomeVerifiers == 1..6

Symmetry == Permutations(Calls)
SharedSymmetry == Permutations(Calls) \cup Permutations(Tabs)

(* What tells two states apart: a live session by its place in the Map, a   *)
(* token by the session whose newest token it is.  Identifiers of sessions  *)
(* that ended and superseded tokens are never accepted again, so which of   *)
(* them a tab or a request holds makes no difference.  Neither does which   *)
(* verifier is one that was replaced, or an UPDATE that expects such a one.  *)
Place(s) == IF s \notin SessionIds THEN s
            ELSE IF s \in Live THEN Cardinality(sessions[s].older \cap Live) + 1 ELSE 0
Holder(k) == IF k = None THEN None
             ELSE IF \E s \in Live : sessions[s].csrf = k
             THEN Place(CHOOSE s \in Live : sessions[s].csrf = k) ELSE 0
Shown(view) == IF view = Keep THEN Keep ELSE [view EXCEPT !.csrf = Holder(@)]

Pending == {call[c].new : c \in {d \in Calls : Busy(d)}} \cup {o.to : o \in orphans}
Role(v) == IF v \in Pending \cup {None} THEN v
           ELSE IF \E a \in Accounts : verifier[a] = v
           THEN CHOOSE a \in Accounts : verifier[a] = v ELSE 0

Observed ==
    <<{[sessions[s] EXCEPT !.csrf = 0, !.older = Place(s), !.opened = Role(@)] : s \in Live},
      {[o EXCEPT !.from = Role(@)] : o \in {p \in orphans : Role(p.from) # 0}},
      [a \in Accounts |-> Role(verifier[a])],
      [b \in Browsers |-> Place(jar[b])],
      [t \in Tabs |-> Shown(tab[t])],
      [c \in Calls |-> IF Busy(c)
          THEN [call[c] EXCEPT !.cookie = Place(@), !.csrf = Holder(@), !.read = Role(@),
                  !.reply = [cookie |-> Place(@.cookie), view |-> Shown(@.view)]]
          ELSE NoCall],
      use>>
=============================================================================
