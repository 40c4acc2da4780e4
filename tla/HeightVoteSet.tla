--------------------------- MODULE HeightVoteSet ---------------------------
(***************************************************************************)
(* The votes of a height (pkgs/bft/types/vote_set.go,                      *)
(* pkgs/bft/consensus/types/height_vote_set.go): the sets of prevotes and  *)
(* precommits of every round, with what peers claim of them.  Validators   *)
(* may vote twice and peers may claim anything; a set counts the first     *)
(* vote of a validator, and a second one only for a block that some peer   *)
(* claims to have two thirds for.                                          *)
(***************************************************************************)
EXTENDS Integers, Sequences, SequencesExt, FiniteSetsExt

CONSTANTS
    Power,      \* validator -> voting power
    Peers,
    Inputs,     \* what may come: [votes, claims, rounds], the votes being
                \* [type, round, val, block, valid], the claims [type, round, block]
    None

Validators == DOMAIN Power
PowerOf(S) == MapThenSumSet(LAMBDA v : Power[v], S)
TotalVotingPower == PowerOf(Validators)
Types == {"prevote", "precommit"}

VARIABLES
    round,              \* hvs.round
    roundVoteSets,      \* round -> type -> vote set
    peerCatchupRounds,  \* peer -> rounds
    sent,               \* what comes, one of Inputs
    offered             \* history: [vote, claimed], valid votes that AddVote got

vars == <<round, roundVoteSets, peerCatchupRounds, sent, offered>>

-----------------------------------------------------------------------------
(* A vote set.                                                             *)

newBlockVotes(claimed) == [peerMaj23 |-> claimed, voters |-> {}, sum |-> 0]

NewVoteSet ==
    [votes |-> [v \in Validators |-> None], bits |-> {}, sum |-> 0, maj23 |-> None,
     votesByBlock |-> <<>>, peerMaj23s |-> <<>>]

Tracks(set, block) == block \in DOMAIN set.votesByBlock
Put(f, key, value) == [k \in DOMAIN f \cup {key} |-> IF k = key THEN value ELSE f[k]]

getVote(set, vote) ==
    \/ set.votes[vote.val] = vote.block
    \/ Tracks(set, vote.block) /\ vote.val \in set.votesByBlock[vote.block].voters

QuorumPower == (TotalVotingPower * 2) \div 3 + 1

\* Mutant: the quorum itself is not enough.
TakeMajority_Above(set, block) ==
    IF set.votesByBlock[block].sum > QuorumPower /\ set.maj23 = None
    THEN [set EXCEPT !.maj23 = block,
                     !.votes = [v \in Validators |-> IF v \in set.votesByBlock[block].voters THEN block ELSE @[v]]]
    ELSE set

\* The first quorum: its votes are copied over.
TakeMajority(set, block) ==
    IF set.votesByBlock[block].sum >= QuorumPower /\ set.maj23 = None
    THEN [set EXCEPT !.maj23 = block,
                     !.votes = [v \in Validators |-> IF v \in set.votesByBlock[block].voters THEN block ELSE @[v]]]
    ELSE set

\* Whether votesByBlock takes the vote.
Countable(set, vote, conflicting) ==
    conflicting => Tracks(set, vote.block) /\ set.votesByBlock[vote.block].peerMaj23

\* Mutant: every vote adds to the sum.
CountVote_Twice(set, vote, conflicting) ==
    [set EXCEPT !.votes[vote.val] = IF conflicting /\ set.maj23 # vote.block THEN @ ELSE vote.block,
                !.bits = @ \cup {vote.val}, !.sum = @ + Power[vote.val]]

\* voteSet.votes, its bits and its sum.
CountVote(set, vote, conflicting) ==
    IF ~conflicting
    THEN [set EXCEPT !.votes[vote.val] = vote.block, !.bits = @ \cup {vote.val}, !.sum = @ + Power[vote.val]]
    ELSE IF set.maj23 = vote.block
    THEN [set EXCEPT !.votes[vote.val] = vote.block, !.bits = @ \cup {vote.val}]
    ELSE set

addVerifiedVote(set, vote) ==
    LET conflicting == set.votes[vote.val] # None
        counted == CountVote(set, vote, conflicting)
        old == IF Tracks(set, vote.block) THEN set.votesByBlock[vote.block] ELSE newBlockVotes(FALSE)
        new == [old EXCEPT !.voters = @ \cup {vote.val}, !.sum = @ + Power[vote.val]]
    IN  IF Countable(set, vote, conflicting)
        THEN TakeMajority([counted EXCEPT !.votesByBlock = Put(@, vote.block, new)], vote.block)
        ELSE counted

\* VoteSet.AddVote: known votes and votes that do not verify change nothing.
AddVoteTo(set, vote) == IF getVote(set, vote) \/ ~vote.valid THEN set ELSE addVerifiedVote(set, vote)

\* VoteSet.SetPeerMaj23: one claim for each peer.
SetPeerMaj23In(set, peer, block) ==
    IF peer \in DOMAIN set.peerMaj23s THEN set
    ELSE [set EXCEPT !.peerMaj23s = Put(@, peer, block),
                     !.votesByBlock = Put(@, block, IF Tracks(set, block) THEN [@[block] EXCEPT !.peerMaj23 = TRUE]
                                                    ELSE newBlockVotes(TRUE))]

-----------------------------------------------------------------------------
(* The sets of a height.                                                   *)

addRound == [t \in Types |-> NewVoteSet]

Init ==
    /\ round = 0
    /\ roundVoteSets = (0 :> addRound)
    /\ peerCatchupRounds = [p \in Peers |-> <<>>]
    /\ sent \in Inputs
    /\ offered = {}

\* enterNewRound(r): also track the round after it.
SetRound(r) ==
    /\ r < sent.rounds
    /\ IF round = 0 THEN r = 0 ELSE r + 1 > round
    /\ round' = r + 1
    /\ roundVoteSets' = [q \in DOMAIN roundVoteSets \cup 0..r + 1 |->
                            IF q \in DOMAIN roundVoteSets THEN roundVoteSets[q] ELSE addRound]
    /\ UNCHANGED <<peerCatchupRounds, sent, offered>>

MayCatchUp(peer) == Len(peerCatchupRounds[peer]) < 2

AddVote(vote, peer) ==
    LET known == vote.round \in DOMAIN roundVoteSets
        set == IF known THEN roundVoteSets[vote.round][vote.type] ELSE NewVoteSet
        claimed == vote.block \in {set.peerMaj23s[p] : p \in DOMAIN set.peerMaj23s}
        opened == IF known THEN roundVoteSets ELSE Put(roundVoteSets, vote.round, addRound)
    IN  /\ known \/ MayCatchUp(peer)
        /\ roundVoteSets' = [opened EXCEPT ![vote.round][vote.type] = AddVoteTo(set, vote)]
        /\ peerCatchupRounds' = IF known THEN peerCatchupRounds
                                ELSE [peerCatchupRounds EXCEPT ![peer] = Append(@, vote.round)]
        /\ offered' = IF vote.valid THEN offered \cup {[vote |-> vote, claimed |-> claimed]} ELSE offered
        /\ UNCHANGED <<round, sent>>

SetPeerMaj23(claim, peer) ==
    /\ claim.round \in DOMAIN roundVoteSets
    /\ roundVoteSets' = [roundVoteSets EXCEPT ![claim.round][claim.type] = SetPeerMaj23In(@, peer, claim.block)]
    /\ UNCHANGED <<round, peerCatchupRounds, sent, offered>>

Next ==
    \/ \E r \in 0..sent.rounds : SetRound(r)
    \/ \E vote \in sent.votes, peer \in Peers : AddVote(vote, peer)
    \/ \E claim \in sent.claims, peer \in Peers : SetPeerMaj23(claim, peer)

Spec == Init /\ [][Next]_vars

-----------------------------------------------------------------------------
(* Properties.                                                             *)

VoteSetsAt(r, t) == IF r \in DOMAIN roundVoteSets THEN {roundVoteSets[r][t]} ELSE {}
AllVoteSets == UNION {VoteSetsAt(r, t) : r \in DOMAIN roundVoteSets, t \in Types}

\* The sums are the powers of the validators that voted, each counted once
\* however it votes, and the bits name those whose vote the set can send on.
TalliesMatch ==
    \A set \in AllVoteSets :
        /\ set.sum = PowerOf(set.bits)
        /\ set.bits = {v \in Validators : set.votes[v] # None}
        /\ \A b \in DOMAIN set.votesByBlock : set.votesByBlock[b].sum = PowerOf(set.votesByBlock[b].voters)

\* The commit made of a set with a majority is one that VerifyCommit accepts:
\* the votes for the block have more than two thirds of the power.
CommitVerifies ==
    \A set \in AllVoteSets :
        set.maj23 # None => PowerOf({v \in Validators : set.votes[v] = set.maj23}) >= QuorumPower

\* Who cast a vote for the block, and no other, in a round.
OnlyFor(r, t, block) ==
    {v \in Validators : {o.vote.block : o \in {x \in offered : x.vote.round = r /\ x.vote.type = t /\ x.vote.val = v}} = {block}}

\* A quorum of validators that vote once is found, whatever the others sign and
\* peers claim.
QuorumIsFound ==
    \A r \in DOMAIN roundVoteSets, t \in Types : \A o \in offered :
        (/\ o.vote.round = r /\ o.vote.type = t
         /\ PowerOf(OnlyFor(r, t, o.vote.block)) >= QuorumPower)
            => roundVoteSets[r][t].maj23 = o.vote.block

\* A majority is made of valid votes for its block, and the votes that the set
\* keeps are valid votes that it was given.
MajorityIsReal ==
    \A r \in DOMAIN roundVoteSets, t \in Types :
        LET set == roundVoteSets[r][t]
        IN  set.maj23 # None =>
                /\ PowerOf({o.vote.val : o \in {x \in offered : x.vote.round = r /\ x.vote.type = t
                                                                /\ x.vote.block = set.maj23}})
                     >= QuorumPower
                /\ \A v \in Validators : set.votes[v] # None =>
                     \E o \in offered : o.vote.round = r /\ o.vote.type = t /\ o.vote.val = v /\ o.vote.block = set.votes[v]

\* Once a peer claims two thirds for a block every vote for it counts, second
\* votes as well, so that a node can catch up with a quorum that it saw
\* differently.  (A second vote for the block that has the majority already
\* need only be among the votes of the set.)
ClaimedCounts ==
    \A o \in offered : o.claimed =>
        LET set == roundVoteSets[o.vote.round][o.vote.type]
        IN  \/ o.vote.val \in set.votesByBlock[o.vote.block].voters
            \/ set.maj23 = o.vote.block /\ set.votes[o.vote.val] = o.vote.block

\* Second votes count only for claimed blocks, and a peer claims one: the
\* blocks a set tracks are no more than its validators and the peers, and a
\* peer opens no more than two rounds beyond the node's.
MemoryBounded ==
    /\ \A set \in AllVoteSets :
        Cardinality(DOMAIN set.votesByBlock) <= Cardinality(Validators) + Cardinality(Peers)
    /\ \A set \in AllVoteSets : \A v \in Validators :
        Quantify(DOMAIN set.votesByBlock, LAMBDA b : v \in set.votesByBlock[b].voters)
            <= 1 + Cardinality(DOMAIN set.peerMaj23s)
    /\ DOMAIN roundVoteSets \ 0..round \subseteq UNION {ToSet(peerCatchupRounds[p]) : p \in Peers}
    /\ \A p \in Peers : Len(peerCatchupRounds[p]) <= 2
=============================================================================
