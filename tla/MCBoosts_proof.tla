---------------------------- MODULE MCBoosts_proof ----------------------------
(***************************************************************************)
(* The boosts of items and of flight paths side by side: a step of the one *)
(* leaves the variables of the other as they are, so what is proved of     *)
(* each holds of both, with every request in one index gap and a grant     *)
(* that is the same for every character.                                   *)
(***************************************************************************)
EXTENDS MCBoosts, MailItemBoost_proof

BothInv == Inv /\ Flight!IInv /\ boost \in Boosts

LEMMA BothInitInv == Flight!ConstantsFit /\ BothInit => BothInv
BY InitInv, Flight!InitIInv DEF BothInit, BothInv

LEMMA BothNextInv ==
    Flight!ConstantsFit /\ BothInv /\ [BothNext]_<<boost, vars, flight>> => BothInv'
<1> SUFFICES ASSUME Flight!ConstantsFit, BothInv, [BothNext]_<<boost, vars, flight>>
             PROVE  BothInv'
  OBVIOUS
<1>1. UNCHANGED flight => UNCHANGED Flight!vars
  BY DEF flight, Flight!vars, Flight!world, Flight!calls
<1>2. [Next]_vars /\ [Flight!Next]_(Flight!vars) /\ UNCHANGED boost
  BY <1>1 DEF BothNext
<1>3. Inv'
  BY <1>2, NextTypeInv, NextInv DEF BothInv
<1>4. Flight!IInv'
  BY <1>2, Flight!NextIInv DEF BothInv
<1> QED BY <1>2, <1>3, <1>4 DEF BothInv

LEMMA BothSpecInv == ASSUME Flight!ConstantsFit PROVE BothSpec => []BothInv
<1>1. BothInit => BothInv
  BY BothInitInv
<1>2. BothInv /\ [BothNext]_<<boost, vars, flight>> => BothInv'
  BY BothNextInv
<1> QED BY <1>1, <1>2, PTL DEF BothSpec

\* The tables, the mails, the game server's copies and the calls of either
\* kind of boost keep their types.
THEOREM BothTypesCorrect == ASSUME Flight!ConstantsFit PROVE BothSpec => []BothTypeOK
<1>1. BothInv => BothTypeOK
  BY DEF BothInv, BothTypeOK, Inv, TypeInv, Flight!IInv
<1> QED BY <1>1, BothSpecInv, PTL

\* A committed request has taught its character the flight paths, in the
\* table and in the game, but for the login that had already begun.
THEOREM CommittedIsLearned == ASSUME Flight!ConstantsFit PROVE BothSpec => []AppliedIsLearned
<1>1. BothInv => AppliedIsLearned
  BY DEF BothInv, AppliedIsLearned, Flight!IInv
<1> QED BY <1>1, BothSpecInv, PTL

\* Whoever hears of a success hears what the committed row says.
THEOREM SuccessIsCommitted == ASSUME Flight!ConstantsFit PROVE BothSpec => []AnswersAreCommitted
<1>1. BothInv => AnswersAreCommitted
  BY DEF BothInv, AnswersAreCommitted, Flight!IInv
<1> QED BY <1>1, BothSpecInv, PTL

\* Whatever was discovered or granted since the page was opened stays; only
\* the game server writes over a mask, with what it holds of a player online.
THEOREM BoostsNeverForget == ASSUME Flight!ConstantsFit PROVE BothSpec => NeverForgets
<1>1. UNCHANGED flight => UNCHANGED Flight!vars
  BY DEF flight, Flight!vars, Flight!world, Flight!calls
<1>2. [BothNext]_<<boost, vars, flight>> => [Flight!Next]_(Flight!vars)
  BY <1>1 DEF BothNext
<1>3. Flight!IInv /\ [BothNext]_<<boost, vars, flight>> =>
        [\A c \in Characters :
            ~(mask[c] \subseteq mask'[c]) => online[c] /\ mask'[c] = memory[c]]_(Flight!vars)
  BY <1>2, Flight!MaskStep
<1>4. BothInv => Flight!IInv
  BY DEF BothInv
<1> QED BY <1>3, <1>4, BothSpecInv, PTL DEF BothSpec, NeverForgets, Flight!NeverForgets

=============================================================================
