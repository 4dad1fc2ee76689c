---- MODULE MCStatsPages ----
(* Instances of StatsPages: visitors with different rights at one moment, a *)
(* visitor who stays until two cache entries have expired, and both.        *)
EXTENDS StatsPages, TLC
CONSTANTS gm, bob, b1, r1, r2, q1, q2

Use(visitors, pages, players, until) ==
    [visitors |-> visitors, pages |-> pages, players |-> players, until |-> until]

AllUses == {Use({gm, None}, {b1, Roster}, {gm, bob}, 0), Use({None}, {b1, Roster}, {bob}, 3),
            Use({gm, None}, {b1}, {gm}, 3)}
====
