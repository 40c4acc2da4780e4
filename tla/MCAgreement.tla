---------------------------- MODULE MCAgreement -----------------------------
(* Three correct validators and a faulty one of equal power, two blocks.   *)
(* A vote of a faulty validator never disables an action of a correct one  *)
(* and never hides a violation, so WorstSpec, in which the faulty          *)
(* validator has cast every possible vote from the start, covers all its   *)
(* behaviours in far fewer states.                                         *)
EXTENDS AgreementProofs, FiniteSets, TLC

CONSTANTS c1, c2, c3, f1, b1, b2

MCValidators == {c1, c2, c3, f1}
MCCorrect == {c1, c2, c3}
MCBlocks == {b1, b2}
MCQuorum == {Q \in SUBSET MCValidators : Cardinality(Q) * 3 > Cardinality(MCValidators) * 2}
Symmetry == Permutations(MCCorrect) \cup Permutations(MCBlocks)

FaultyVotes == [val : Validators \ Correct, round : Rounds, value : Values]
WorstInit == prevotes = FaultyVotes /\ precommits = FaultyVotes
WorstSpec == WorstInit /\ [][Next]_vars
=============================================================================
