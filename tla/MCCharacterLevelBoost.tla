----------------------- MODULE MCCharacterLevelBoost -----------------------
(* Instances of CharacterLevelBoost for TLC. *)
EXTENDS CharacterLevelBoost, TLC

CONSTANTS c1, c2, c3, c4, h1, h2, h3, h4, r1, r2, r3, r4

Symmetry == Permutations(Handlers) \cup Permutations(RequestIds)
                \cup Permutations(Characters)

=============================================================================
