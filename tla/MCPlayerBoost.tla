--------------------------- MODULE MCPlayerBoost ---------------------------
(* Instances of PlayerBoost for TLC. *)
EXTENDS PlayerBoost, TLC

CONSTANTS a1, a2, c1, c2, h1, h2, h3, o1, r1, r2, r3

OwnerOne == [c \in Characters |-> a1]

Symmetry == Permutations(Handlers) \cup Permutations(RequestIds)
                \cup Permutations(Characters)

\* Bound: one fault or one midnight, not both.
OneEvent == faults + today <= 1

=============================================================================
