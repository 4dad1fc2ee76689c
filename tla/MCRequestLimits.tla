---- MODULE MCRequestLimits ----
(* Instances of RequestLimits: each limiter with Maps that are too small and *)
(* with Maps that are not, and logins that wait for the database together.   *)
EXTENDS RequestLimits, TLC
CONSTANTS a1, a2, a3, i1, i2, i3, c1, c2, c3

Use(limiter, room, keys, calls) ==
    [limiter |-> limiter, room |-> room, keys |-> keys, calls |-> calls]

AllUses == {Use("boost", 2, {i1, i2, i3}, {}), Use("boost", 4, {i1, i2, i3}, {}),
            Use("password", 2, {a1, a2, i1, i2}, {}), Use("password", 5, {a1, a2, i1, i2}, {}),
            Use("login", 2, {a1, a2, a3, i1, i2}, {c1}), Use("login", 9, {a1, a2, i1, i2}, {c1, c2})}
====
