----------------------------- MODULE Agreement ------------------------------
(***************************************************************************)
(* What the consensus of one height promises, and the voting discipline it *)
(* rests on.  The state is the votes that exist; every action casts one.   *)
(* A correct validator follows the rules that pkgs/bft/consensus/state.go  *)
(* implements with its lock (LockedRound, LockedBlock):                    *)
(*   - it votes once per round and type, and never returns to an earlier   *)
(*     round;                                                              *)
(*   - it precommits a block only if +2/3 prevoted that block in the same  *)
(*     round (a polka);                                                    *)
(*   - having precommitted a block, it prevotes something else in a later  *)
(*     round only if a polka for something else happened in between.       *)
(* A faulty validator casts any votes at all.  ConsensusState implements   *)
(* these rules; AgreementProofs shows that they give agreement.            *)
(***************************************************************************)
EXTENDS Integers

CONSTANTS
    Validators,     \* the validator set of the height
    Correct,        \* the validators that run the program
    Quorum,         \* sets of validators with more than 2/3 of the power
    Blocks,         \* the blocks that can be voted for
    Nil,            \* the value of a vote for no block
    Rounds          \* the rounds of the height

ASSUME CorrectAssumption == Correct \subseteq Validators
ASSUME RoundsAssumption == Rounds \subseteq Nat
ASSUME NilAssumption == Nil \notin Blocks
ASSUME QuorumAssumption == Quorum \subseteq SUBSET Validators

VARIABLES
    prevotes,       \* the prevotes cast
    precommits      \* the precommits cast

vars == <<prevotes, precommits>>

Values == Blocks \cup {Nil}
Votes == [val : Validators, round : Rounds, value : Values]

Vote(p, r, v) == [val |-> p, round |-> r, value |-> v]

\* +2/3 of the prevotes (precommits) of round r are for v.
Polka(v, r) == \E Q \in Quorum : \A p \in Q : Vote(p, r, v) \in prevotes
CommitQuorum(v, r) == \E Q \in Quorum : \A p \in Q : Vote(p, r, v) \in precommits

\* p has cast no vote after round r.
NotBeyond(p, r) ==
    \A m \in prevotes \cup precommits : m.val = p => m.round <= r

\* Mutant: what was signed before is not remembered.
NotVoted_Forgets(votes, p, r) == TRUE

\* p has not voted in round r, in the given votes.
NotVoted(votes, p, r) == \A m \in votes : m.val = p => m.round # r

\* What p precommitted before round r does not forbid it to prevote v now.
Released(p, r, v) ==
    \A m \in precommits :
        m.val = p /\ m.round < r /\ m.value # Nil /\ m.value # v =>
            \E w \in Values, s \in Rounds :
                w # m.value /\ m.round < s /\ s <= r /\ Polka(w, s)

-----------------------------------------------------------------------------

Init ==
    /\ prevotes = {}
    /\ precommits = {}

\* A correct validator prevotes: enterPrevote, defaultDoPrevote.
Prevote(p, r, v) ==
    /\ NotBeyond(p, r)
    /\ NotVoted(prevotes, p, r)
    /\ Released(p, r, v)
    /\ prevotes' = prevotes \cup {Vote(p, r, v)}
    /\ UNCHANGED precommits

\* A correct validator precommits: enterPrecommit.
Precommit(p, r, v) ==
    /\ NotBeyond(p, r)
    /\ NotVoted(precommits, p, r)
    /\ v # Nil => Polka(v, r)
    /\ precommits' = precommits \cup {Vote(p, r, v)}
    /\ UNCHANGED prevotes

\* A faulty validator casts any vote, contradicting itself at will.
FaultyVote(p, r, v) ==
    \/ prevotes' = prevotes \cup {Vote(p, r, v)} /\ UNCHANGED precommits
    \/ precommits' = precommits \cup {Vote(p, r, v)} /\ UNCHANGED prevotes

Next ==
    \/ \E p \in Correct, r \in Rounds, v \in Values :
          Prevote(p, r, v) \/ Precommit(p, r, v)
    \/ \E p \in Validators \ Correct, r \in Rounds, v \in Values :
          FaultyVote(p, r, v)

Spec == Init /\ [][Next]_vars

-----------------------------------------------------------------------------

\* The variables hold sets of votes.
TypeOK ==
    /\ prevotes \subseteq Votes
    /\ precommits \subseteq Votes

\* Agreement: no two different blocks get +2/3 of the precommits, in the same
\* round or in different ones, so no two correct nodes finalize different
\* blocks at this height.
AgreementOK ==
    \A v, w \in Blocks, r, s \in Rounds :
        CommitQuorum(v, r) /\ CommitQuorum(w, s) => v = w

\* Once +2/3 have precommitted a block, no later round has a polka for
\* anything else: nobody can be unlocked from a committed block any more.
NoConflictingPolka ==
    \A v \in Blocks, w \in Values, r, s \in Rounds :
        CommitQuorum(v, r) /\ r < s /\ Polka(w, s) => v = w
=============================================================================
