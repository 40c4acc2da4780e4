------------------------- MODULE MCConsensusState ---------------------------
(***************************************************************************)
(* Small instances of ConsensusState: this node with power 1 of 4, p1 with *)
(* 2 and p2 with 1, so p1 and either of the others are a quorum.           *)
(***************************************************************************)
EXTENDS ConsensusState, FiniteSetsExt

CONSTANTS me, p1, p2, B1, B2, Bad

MCValidators == {me, p1, p2}
MCPower == [p \in MCValidators |-> IF p = p1 THEN 2 ELSE 1]
PowerOf(S) == FoldSet(LAMBDA p, sum : MCPower[p] + sum, 0, S)

\* VoteSet: quorum := TotalVotingPower()*2/3 + 1
MCQuorum == {{p1, p2}, {p1, me}, {p1, p2, me}}
ASSUME MCQuorum =
    {Q \in SUBSET MCValidators : PowerOf(Q) >= (PowerOf(MCValidators) * 2) \div 3 + 1}

MCProposer == [r \in 0..(MaxRound + 1) |-> IF r % 2 = 0 THEN p1 ELSE me]
MCBlocks == {B1, B2}
BlocksWithBad == {B1, Bad}
OnlyValid == {B1}

VotesOf(type, r, val, values) ==
    [kind : {"vote"}, type : {type}, round : {r}, val : {val}, value : values]

\* Round 0 is about B1 and its outcome is open; in round 1 p1 may turn to
\* either block, and p2 follows it for B2.  Precommits for no block in the
\* last round only lead beyond it.
TwoRoundVotes ==
    UNION {VotesOf("prevote", 0, p, {B1, Nil}) : p \in {p1, p2}}
    \cup VotesOf("precommit", 0, p1, {B1, Nil}) \cup VotesOf("precommit", 0, p2, {B1})
    \cup VotesOf("prevote", 1, p1, {B1, B2, Nil}) \cup VotesOf("prevote", 1, p2, {B2})
    \cup VotesOf("precommit", 1, p1, {B1, B2})

\* Blocks that ValidateBlock rejects get the votes of p2, less than 1/3 of the
\* power.
BadBlockVotes ==
    UNION {VotesOf(t, r, p1, {B1, Nil}) : t \in {"prevote", "precommit"}, r \in Rounds}
    \cup VotesOf("prevote", 0, p2, {B1, Bad}) \cup VotesOf("precommit", 0, p2, {Bad})

\* +2/3 precommits for B1 in round 0 and prevotes for it in round 1.
StrandingVotes ==
    UNION {VotesOf("precommit", 0, p, {B1}) \cup VotesOf("prevote", 1, p, {B1}) : p \in {p1, p2}}
=============================================================================
