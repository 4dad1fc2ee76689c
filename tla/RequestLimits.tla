----------------------------- MODULE RequestLimits -----------------------------
(***************************************************************************)
(* The in-memory limiters of the portal: of boosts and item lookups        *)
(* (services/boost-mutation-limiter.ts, services/item-lookup-limiter.ts,   *)
(* the same code with another limit), of password changes                  *)
(* (services/account-password-limiter.ts) and of logins                    *)
(* (services/login-attempt-limiter.ts).  Each keeps windows of calls in a  *)
(* Map that holds at most MaxKeys of them and gives up the oldest ones     *)
(* when it is full.  They share no state: a behaviour is a use of one.     *)
(*                                                                         *)
(* A definition X_Y is a mutated form of the definition X below it: a bug  *)
(* that a property must catch.  No other definition uses it.               *)
(***************************************************************************)
EXTENDS Integers, FiniteSets, Sequences

CONSTANTS
    Accounts, Ips,
    AccountLimit, IpLimit, Window,
    Calls,              \* logins that wait for the database
    Uses                \* a limiter, the room of its Maps and who calls it

ASSUME LimitsType == {AccountLimit, IpLimit, Window} \subseteq Nat \ {0}
ASSUME KeysDiffer == Accounts \cap Ips = {}
ASSUME FinitelyMany == IsFiniteSet(Accounts \cup Ips) /\ IsFiniteSet(Calls)

Limiters == {"boost", "password", "login"}
Keys == Accounts \cup Ips

ASSUME UsesType == Uses \subseteq [limiter : Limiters, room : Nat \ {0},
                                   keys : SUBSET Keys, calls : SUBSET Calls]

VARIABLES
    windows,    \* the Map of a limiter in its order: [key, count, left]; of the
                \* login limiter the failures of accounts
    ips,        \* the attempts per IP of the login limiter
    pending,    \* pending[c]: the account of a login that waits, or "none"
    answer,     \* whether the last call was let through
    spent,      \* history: what each key used in its window, evicted or not
    use         \* the use of this behaviour, which no step changes

vars == <<windows, ips, pending, answer, spent, use>>

MaxKeys == use.room
LimitOf(k) == IF k \in Accounts THEN AccountLimit ELSE IpLimit

Promise == INSTANCE FixedWindows

KeysOf(map) == {map[i].key : i \in DOMAIN map}
EntryOf(map, k) == map[CHOOSE i \in DOMAIN map : map[i].key = k]
CountOf(map, k) == IF k \in KeysOf(map) /\ EntryOf(map, k).left > 0 THEN EntryOf(map, k).count ELSE 0

Init == /\ windows = <<>> /\ ips = <<>>
        /\ pending = [c \in Calls |-> "none"]
        /\ Promise!Init
        /\ use \in Uses

-----------------------------------------------------------------------------
(* The Maps *)

\* The entries at the places in keep, in their order.
Place(keep, i) == Cardinality({j \in keep : j <= i})
Selected(map, keep) ==
    [n \in 1..Cardinality(keep) |-> map[CHOOSE i \in keep : Place(keep, i) = n]]

Unexpired(map) == Selected(map, {i \in DOMAIN map : map[i].left > 0})

\* Without the ones inserted first, until fewer than MaxKeys are left.
Evict_Newest(map) == IF Len(map) < MaxKeys THEN map ELSE SubSeq(map, 1, MaxKeys - 1)
Evict_OneLess(map) == IF Len(map) <= MaxKeys THEN map
                      ELSE SubSeq(map, Len(map) - MaxKeys + 1, Len(map))
Evict(map) == IF Len(map) < MaxKeys THEN map
              ELSE SubSeq(map, Len(map) - MaxKeys + 2, Len(map))

\* set() keeps the place of a key that is there.
Increment(map, k) ==
    IF k \in KeysOf(map)
    THEN [i \in DOMAIN map |-> IF map[i].key = k THEN [map[i] EXCEPT !.count = @ + 1] ELSE map[i]]
    ELSE Append(map, [key |-> k, count |-> 1, left |-> Window])

Blocked(map, k) == CountOf(map, k) >= LimitOf(k)

\* prune() of the boost limiter runs only for a key that opens a window.
BoostConsume(map, k) ==
    IF CountOf(map, k) = 0 THEN Increment(Evict(Unexpired(map)), k)
    ELSE IF Blocked(map, k) THEN map
    ELSE Increment(map, k)

\* prune() of the password limiter runs first, whatever is asked.
PasswordPruned(map) == Evict(Unexpired(map))

PasswordBlocked_AccountOnly(map, a, ip) == Blocked(map, a)
PasswordBlocked(map, a, ip) == Blocked(map, a) \/ Blocked(map, ip)

\* read() of the login limiter deletes the key it finds expired; consume()
\* prunes only a full Map, and the failures have no limit here.
Read(map, k) == Selected(map, {i \in DOMAIN map : map[i].key # k \/ map[i].left > 0})
MakeRoom(map) == IF Len(map) < MaxKeys THEN map ELSE Evict(Unexpired(map))
LoginConsume(map, k) ==
    LET found == Read(map, k)
    IN Increment(IF k \in KeysOf(found) THEN found ELSE MakeRoom(found), k)

-----------------------------------------------------------------------------
(* The calls *)

\* History: what the charge of these keys means.  With evictions a key can be
\* charged without end; the count stops at a bound above all that is asserted.
SpentBound(k) == LimitOf(k) + Cardinality(use.calls) + 1
Account(keys) ==
    spent' = [k \in Keys |-> IF k \in keys /\ spent[k].count < SpentBound(k)
                             THEN Promise!Charged(spent[k]) ELSE spent[k]]

Charge(allowed, keys) ==
    /\ answer' = allowed
    /\ IF allowed THEN Account(keys) ELSE UNCHANGED spent

BoostCall(ip) ==
    /\ use.limiter = "boost"
    /\ ip \in use.keys
    /\ windows' = BoostConsume(windows, ip)
    /\ Charge(~Blocked(windows, ip), {ip})
    /\ UNCHANGED <<ips, pending, use>>

PasswordCall(a, ip) ==
    /\ use.limiter = "password"
    /\ {a, ip} \subseteq use.keys
    /\ LET map == PasswordPruned(windows)
           allowed == ~PasswordBlocked(map, a, ip)
       IN /\ windows' = IF allowed THEN Increment(Increment(map, a), ip) ELSE map
          /\ Charge(allowed, {a, ip})
    /\ UNCHANGED <<ips, pending, use>>

LoginArrives_Unchecked(c, a, ip) ==
    /\ use.limiter = "login"
    /\ c \in use.calls /\ {a, ip} \subseteq use.keys
    /\ pending[c] = "none"
    /\ ips' = LoginConsume(ips, ip)
    /\ windows' = Read(windows, a)
    /\ answer' = TRUE
    /\ pending' = [pending EXCEPT ![c] = a]
    /\ UNCHANGED <<spent, use>>

\* POST /api/auth/login until it waits for the row of the account.
LoginArrives(c, a, ip) ==
    /\ use.limiter = "login"
    /\ c \in use.calls /\ {a, ip} \subseteq use.keys
    /\ pending[c] = "none"
    /\ LET counted == ~Blocked(Read(ips, ip), ip)
       IN /\ ips' = IF counted THEN LoginConsume(ips, ip) ELSE Read(ips, ip)
          /\ windows' = IF counted THEN Read(windows, a) ELSE windows
          /\ answer' = (counted /\ ~Blocked(windows, a))
    /\ pending' = IF answer' THEN [pending EXCEPT ![c] = a] ELSE pending
    /\ UNCHANGED <<spent, use>>

\* A wrong password is charged to the account.
LoginFails(c) ==
    /\ pending[c] # "none"
    /\ windows' = LoginConsume(windows, pending[c])
    /\ Account({pending[c]})
    /\ pending' = [pending EXCEPT ![c] = "none"]
    /\ UNCHANGED <<ips, answer, use>>

LoginSucceeds(c) ==
    /\ pending[c] # "none"
    /\ pending' = [pending EXCEPT ![c] = "none"]
    /\ UNCHANGED <<windows, ips, answer, spent, use>>

Aged_Negative(map) == [i \in DOMAIN map |-> [map[i] EXCEPT !.left = @ - 1]]
Aged(map) == [i \in DOMAIN map |-> [map[i] EXCEPT !.left = IF @ = 0 THEN 0 ELSE @ - 1]]

Tick ==
    /\ windows' = Aged(windows)
    /\ ips' = Aged(ips)
    /\ Promise!Tick
    /\ UNCHANGED <<pending, use>>

Next ==
    \/ \E ip \in Ips : BoostCall(ip)
    \/ \E a \in Accounts, ip \in Ips : PasswordCall(a, ip)
    \/ \E c \in Calls, a \in Accounts, ip \in Ips : LoginArrives(c, a, ip)
    \/ \E c \in Calls : LoginFails(c) \/ LoginSucceeds(c)
    \/ Tick

Spec == Init /\ [][Next]_vars

-----------------------------------------------------------------------------
(* Properties *)

Entries == [key : Keys, count : Nat, left : 0..Window]

TypeOK ==
    /\ windows \in Seq(Entries) /\ ips \in Seq(Entries)
    /\ pending \in [Calls -> Accounts \cup {"none"}]
    /\ answer \in BOOLEAN
    /\ spent \in [Keys -> [count : Nat, left : 0..Window]]
    /\ use \in Uses

\* The Maps are bounded and hold a key once.  The password limiter makes room
\* for one key and then adds up to two: its Map may pass MAX_KEYS by one.
MapsBounded ==
    /\ Len(windows) <= MaxKeys + (IF use.limiter = "password" THEN 1 ELSE 0)
    /\ Len(ips) <= MaxKeys
    /\ \A map \in {windows, ips} : Cardinality(KeysOf(map)) = Len(map)

Open(map) == {k \in Keys : CountOf(map, k) > 0}

Older(map, k) == {j \in KeysOf(map) : \E x, y \in DOMAIN map :
                                         x < y /\ map[x].key = j /\ map[y].key = k}

\* A window that has time left keeps its count, unless the Map is full of such
\* windows and all that stay opened after it; the password limiter, which makes
\* room before it knows what it needs, may give one up for nothing.
Forgiven(map, next, k) == k \in Open(map) /\ CountOf(next, k) < CountOf(map, k)

GivenUpOnlyWhenFull(map, next) ==
    \A k \in Keys : Forgiven(map, next, k) =>
        LET stay == Open(next) \ {k}
        IN /\ Cardinality(stay) >= MaxKeys - 1
           /\ \A j \in stay \cap Older(map, k) : EntryOf(next, j).left = Window \* reopened

NoEarlyForgiveness ==
    [][\/ windows' = Aged(windows) /\ ips' = Aged(ips)
       \/ GivenUpOnlyWhenFull(windows, windows') /\ GivenUpOnlyWhenFull(ips, ips')]_vars

\* A Map that never has to give up a live window.
HasRoom == Cardinality(use.keys) < use.room

\* Logins that check the account while others wait for the database are let
\* through before the failures of those are charged (routes/auth.ts): the limit
\* may be passed by the number of logins in flight, less one, and not by more.
FailuresBounded ==
    HasRoom /\ use.limiter = "login" =>
        \A a \in Accounts : spent[a].count <= AccountLimit + Cardinality(use.calls) - 1

\* While the Map has room for every key the limiter is exact: it refuses a call
\* exactly when one of its keys used up its window, and forgets no call.  The
\* login limiter, which is asked and charged in two steps, is not.
Exact ==
    /\ Promise!Init
    /\ [][HasRoom /\ use.limiter # "login" => Promise!Next]_<<spent, answer>>

================================================================================
