------------------------------ MODULE MCBoosts ------------------------------
(* The boosts of items and of flight paths side by side, as in one process: *)
(* they share no state, so a behaviour exercises one of them.               *)
EXTENDS MailItemBoost, TLC

CONSTANTS a1, c1, c2, h1, h2, n1, n2, n3, o1, p1, p2, r1,
          FlightRequestIds, Nodes, Boosts, NotLoaded

VARIABLES boost, paths, mask, online, memory, path_pc, path_call, seen,
          doubtful, learned, raced, path_faults

flight == <<paths, mask, online, memory, path_pc, path_call, seen, doubtful,
            learned, raced, path_faults>>

OwnerOne == [c \in Characters |-> a1]
OneGap == [r \in FlightRequestIds |-> 1]
FirstNode == [c \in Characters |-> {1}]

\* With its theorems, which MCBoosts_proof carries over to BothSpec.
Flight == INSTANCE FlightPathBoost_proof
             WITH RequestIds <- FlightRequestIds, GapOf <- OneGap,
                  Grant <- FirstNode, row <- paths, pc <- path_pc,
                  call <- path_call, answered <- learned, faults <- path_faults

BothInit == /\ Init /\ Flight!Init
            /\ boost \in Boosts
            /\ boost = "items" => \A c \in Characters : mask[c] = {}

BothNext == \/ boost = "items" /\ Next /\ UNCHANGED <<boost, flight>>
            \/ boost = "flight" /\ Flight!Next /\ UNCHANGED <<boost, vars>>

BothSpec == BothInit /\ [][BothNext]_<<boost, vars, flight>>

Symmetry == Permutations(Handlers) \cup Permutations(Names)
                \cup Permutations(Characters) \cup Permutations(FlightRequestIds)

\* Bound: a fault or renamed characters, not both.
OneEvent == faults = 0 \/ renames = 0

\* Every variable of either boost stays in its type.
BothTypeOK == TypeOK /\ Flight!TypeOK /\ boost \in Boosts

\* A character whose request was committed has its flight paths, but for the
\* race with a login that the specification accepts (FlightPathBoost).
AppliedIsLearned == Flight!AppliedIsLearned

\* Success is only reported of a committed row and never contradicted
\* (FlightPathBoost, reconcileAfterAmbiguousCommit()).
AnswersAreCommitted == Flight!AnswersAreCommitted

\* The boost never takes a flight path away (FlightPathBoost, apply()).
NeverForgets == Flight!NeverForgets

=============================================================================
