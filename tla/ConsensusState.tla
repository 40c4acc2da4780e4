-------------------------- MODULE ConsensusState ----------------------------
(***************************************************************************)
(* The round state machine of one validator at one height:                 *)
(* pkgs/bft/consensus/state.go.  receiveRoutine takes one input at a time  *)
(* (a peer's message, one of the node's own messages, a timeout, the       *)
(* mempool's notice) and runs its handler to the end, so an action is one  *)
(* input.  The handlers call each other; each is an operator from a round  *)
(* state to the round state it leaves behind, composed as in the code.     *)
(*                                                                         *)
(* The other validators are the environment: any proposal, block part and  *)
(* vote in PeerVotes may arrive at any time and in any order, or never.    *)
(* A block stands for its hash and its parts (one part per block).         *)
(***************************************************************************)
EXTENDS Integers, Sequences

CONSTANTS
    Me,             \* this validator
    Validators,     \* the validator set, Me included
    Quorum,         \* the sets of validators with more than 2/3 of the power
    Proposer,       \* proposer of each round (IncrementProposerPriority)
    Blocks,         \* the blocks that can be proposed
    ValidBlocks,    \* those that ValidateBlock accepts
    OwnBlock,       \* the block CreateProposalBlock makes
    Nil,            \* the value of a vote for no block
    None,           \* a nil pointer
    MaxRound,       \* bound on the rounds
    PeerVotes,      \* the votes that may arrive from the other validators
    WaitForTxs,     \* config.WaitForTxs() and no proof block is needed
    EmptyBlocksInterval \* config.CreateEmptyBlocksInterval > 0

Rounds == 0..MaxRound
Values == Blocks \cup {Nil}

ASSUME MeAssumption == Me \in Validators /\ OwnBlock \in ValidBlocks
ASSUME BlocksAssumption ==
    ValidBlocks \subseteq Blocks /\ Nil \notin Blocks /\ None \notin Values
ASSUME MaxRoundAssumption == MaxRound \in Nat

\* More than 2/3 of the power: two such sets meet, and more validators have
\* more power.
ASSUME QuorumAssumption ==
    /\ Quorum \subseteq SUBSET Validators
    /\ \A Q1, Q2 \in Quorum : Q1 \cap Q2 # {}
    /\ \A Q \in Quorum, S \in SUBSET Validators : Q \subseteq S => S \in Quorum
ASSUME ProposerAssumption == Proposer \in [0..(MaxRound + 1) -> Validators]

VoteTypes == {"prevote", "precommit"}

\* Only this validator signs votes in its name.  A block that ValidateBlock
\* rejects gets the votes of faulty validators, and those are no quorum.
ASSUME PeerVotesAssumption ==
    /\ PeerVotes \subseteq [kind : {"vote"}, type : VoteTypes, round : Rounds,
                            val : Validators \ {Me}, value : Values]
    /\ \A b \in Blocks \ ValidBlocks, r \in Rounds, t \in VoteTypes :
          {p \in Validators : [kind |-> "vote", type |-> t, round |-> r,
                               val |-> p, value |-> b] \in PeerVotes} \notin Quorum

\* RoundStepType
NewHeight == 1
NewRound == 2
Propose == 3
Prevote == 4
PrevoteWait == 5
Precommit == 6
PrecommitWait == 7
Commit == 8

VARIABLES
    cs,             \* the round state, the node's own messages, its status, and
                    \* the last timeout the ticker accepted (sched)
    pending         \* the timeouts that may still be handled: the one whose
                    \* timer runs, and one that has fired into tockChan

vars == <<cs, pending>>

-----------------------------------------------------------------------------
(* Vote sets *)

Vote(p, r, v) == [val |-> p, round |-> r, value |-> v]

\* The votes of a type are a set of such records; those of round r are its
\* VoteSet.
Voters(votes, r) == {m.val : m \in {n \in votes : n.round = r}}
VotersFor(votes, r, v) == {p \in Validators : Vote(p, r, v) \in votes}

\* The value with a +2/3 majority, or None (TwoThirdsMajority).
TwoThirdsMajority(votes, r) ==
    LET maj == {v \in Values : VotersFor(votes, r, v) \in Quorum}
    IN  IF maj = {} THEN None ELSE CHOOSE v \in maj : TRUE

HasTwoThirdsAny(votes, r) == Voters(votes, r) \in Quorum

-----------------------------------------------------------------------------
(* Helpers of the handlers *)

\* A failed assertion of the code: receiveRoutine recovers and stops.
Panic(s) == [s EXCEPT !.status = "panic"]

\* updateRoundStep
AtStep(s, r, step) == [s EXCEPT !.round = r, !.step = step]

\* Mutant: ticks are compared by step, whatever their round.
ScheduleTimeout_StepOnly(s, r, step) ==
    IF step <= s.sched.step THEN s
    ELSE [s EXCEPT !.sched = [round |-> r, step |-> step]]

\* scheduleTimeout; timeoutRoutine ignores ticks for an old round or step.
ScheduleTimeout(s, r, step) ==
    IF \/ r < s.sched.round
       \/ (r = s.sched.round /\ step <= s.sched.step)
    THEN s
    ELSE [s EXCEPT !.sched = [round |-> r, step |-> step]]

\* sendInternalMessage
Send(s, m) == [s EXCEPT !.queue = Append(@, m)]

\* signAddVote: the vote is for the current round and goes to the own queue.
SignAddVote(s, type, v) ==
    Send(s, [kind |-> "vote", type |-> type, round |-> s.round, val |-> Me, value |-> v])

\* s is past step of round r: the guard of the enter functions.
Past(s, r, step) == r < s.round \/ (r = s.round /\ step <= s.step)

\* The last of some rounds.
Latest(rounds) == CHOOSE r \in rounds : \A q \in rounds : r >= q

\* POLInfo: the last tracked round with +2/3 prevotes.
POLRound(s) ==
    Latest({-1} \cup {r \in Rounds : r <= s.hvsRound /\ TwoThirdsMajority(s.prevotes, r) # None})

IsProposalComplete(s) ==
    /\ s.proposal # None
    /\ s.block # None
    /\ s.proposal.pol >= 0 => TwoThirdsMajority(s.prevotes, s.proposal.pol) # None

Unlock(s) == [s EXCEPT !.lockedRound = -1, !.lockedBlock = None]

\* Wait for the parts of block v, unless they are the ones already expected.
ExpectParts(s, v) ==
    IF s.parts = v THEN s ELSE [s EXCEPT !.block = None, !.parts = v]

-----------------------------------------------------------------------------
(* The enter functions *)

\* Mutant: the lock is ignored when prevoting.
DoPrevote_NoLock(s) ==
    SignAddVote(s, "prevote", IF s.block \in ValidBlocks THEN s.block ELSE Nil)

\* Mutant: the proposed block is not validated.
DoPrevote_NoValidation(s) ==
    SignAddVote(s, "prevote",
        IF s.lockedBlock # None THEN s.lockedBlock
        ELSE IF s.block # None THEN s.block ELSE Nil)

\* defaultDoPrevote
DoPrevote(s) ==
    SignAddVote(s, "prevote",
        IF s.lockedBlock # None THEN s.lockedBlock
        ELSE IF s.block \in ValidBlocks THEN s.block ELSE Nil)

EnterPrevote(s, r) ==
    IF Past(s, r, Prevote) THEN s ELSE AtStep(DoPrevote(s), r, Prevote)

\* defaultDecideProposal
DecideProposal(s, r) ==
    LET b == IF s.validBlock # None THEN s.validBlock ELSE OwnBlock
    IN  Send(Send(s, [kind |-> "proposal", round |-> r, pol |-> s.validRound, block |-> b]),
             [kind |-> "part", block |-> b])

EnterPropose(s, r) ==
    IF Past(s, r, Propose) THEN s
    ELSE LET s1 == ScheduleTimeout(s, r, Propose)
             s2 == AtStep(IF Proposer[r] = Me THEN DecideProposal(s1, r) ELSE s1, r, Propose)
         IN  IF IsProposalComplete(s2) THEN EnterPrevote(s2, r) ELSE s2

\* SetRound panics unless it moves the tracked round forward.
EnterNewRound(s, r) ==
    IF r < s.round \/ (r = s.round /\ s.step # NewHeight) THEN s
    ELSE IF s.hvsRound # 0 /\ r + 1 < s.hvsRound + 1 THEN Panic(s)
    ELSE LET s1 == AtStep(s, r, NewRound)
             s2 == IF r = 0 THEN s1
                   ELSE [s1 EXCEPT !.proposal = None, !.block = None, !.parts = None]
             s3 == [s2 EXCEPT !.hvsRound = r + 1, !.triggered = FALSE]
         IN  IF ~(WaitForTxs /\ r = 0) THEN EnterPropose(s3, r)
             ELSE IF EmptyBlocksInterval THEN ScheduleTimeout(s3, r, NewRound) ELSE s3

EnterPrevoteWait(s, r) ==
    IF Past(s, r, PrevoteWait) THEN s
    ELSE IF ~HasTwoThirdsAny(s.prevotes, r) THEN Panic(s)
    ELSE AtStep(ScheduleTimeout(s, r, PrevoteWait), r, PrevoteWait)

\* The rest of enterPrecommit, once there is a polka for v.
LockAndVote(s, r, v) ==
    IF v = Nil THEN SignAddVote(Unlock(s), "precommit", Nil)
    ELSE IF s.lockedBlock = v
         THEN SignAddVote([s EXCEPT !.lockedRound = r], "precommit", v)
    ELSE IF s.block = v
         THEN IF v \notin ValidBlocks THEN Panic(s)
              ELSE SignAddVote([s EXCEPT !.lockedRound = r, !.lockedBlock = v], "precommit", v)
    ELSE SignAddVote(ExpectParts(Unlock(s), v), "precommit", Nil)

EnterPrecommit(s, r) ==
    IF Past(s, r, Precommit) THEN s
    ELSE LET maj == TwoThirdsMajority(s.prevotes, r)
         IN  IF maj = None THEN AtStep(SignAddVote(s, "precommit", Nil), r, Precommit)
             ELSE IF POLRound(s) < r THEN Panic(s)
             ELSE AtStep(LockAndVote(s, r, maj), r, Precommit)

EnterPrecommitWait(s, r) ==
    IF r < s.round \/ (r = s.round /\ s.triggered) THEN s
    ELSE IF ~HasTwoThirdsAny(s.precommits, r) THEN Panic(s)
    ELSE [AtStep(ScheduleTimeout(s, r, PrecommitWait), s.round, PrecommitWait)
            EXCEPT !.triggered = TRUE]

\* tryFinalizeCommit and finalizeCommit: the height is over.  What is stored
\* and in which order is the subject of BlockCommit.
TryFinalizeCommit(s) ==
    LET maj == IF s.commitRound < 0 THEN None
               ELSE TwoThirdsMajority(s.precommits, s.commitRound)
    IN  IF maj \in {None, Nil} \/ s.block # maj \/ s.step # Commit THEN s
        ELSE IF s.parts # maj \/ maj \notin ValidBlocks THEN Panic(s)
        ELSE [s EXCEPT !.status = "decided"]

EnterCommit(s, r) ==
    IF Commit <= s.step THEN s
    ELSE LET maj == TwoThirdsMajority(s.precommits, r)
             s1 == IF s.lockedBlock = maj
                   THEN [s EXCEPT !.block = maj, !.parts = maj]
                   ELSE s
             s2 == IF s1.block = maj THEN s1 ELSE ExpectParts(s1, maj)
         IN  IF maj = None THEN Panic(s)
             ELSE TryFinalizeCommit([AtStep(s2, s.round, Commit) EXCEPT !.commitRound = r])

-----------------------------------------------------------------------------
(* The handlers *)

\* defaultSetProposal
SetProposal(s, m) ==
    IF s.proposal # None \/ m.round # s.round \/ m.pol >= m.round THEN s
    ELSE [s EXCEPT !.proposal = [pol |-> m.pol, block |-> m.block],
                   !.parts = IF @ = None THEN m.block ELSE @]

\* Mutant: the valid block is updated whatever the polka is for.
CompleteBlock_AnyPolka(s, v) ==
    IF v \notin {None, Nil} /\ s.validRound < s.round
    THEN [s EXCEPT !.validRound = s.round, !.validBlock = s.block]
    ELSE s

\* Valid* after the block is complete, v having the polka of the round.
CompleteBlock(s, v) ==
    IF v \notin {None, Nil} /\ s.validRound < s.round /\ s.block = v
    THEN [s EXCEPT !.validRound = s.round, !.validBlock = v]
    ELSE s

AddProposalBlockPart(s, b) ==
    IF s.parts # b \/ s.block = b THEN s
    ELSE LET maj == TwoThirdsMajority(s.prevotes, s.round)
             s1 == CompleteBlock([s EXCEPT !.block = b], maj)
         IN  IF s1.step <= Propose /\ IsProposalComplete(s1)
             THEN LET s2 == EnterPrevote(s1, s1.round)
                  IN  IF maj = None THEN s2 ELSE EnterPrecommit(s2, s2.round)
             ELSE IF s1.step = Commit THEN TryFinalizeCommit(s1)
             ELSE s1

\* addVote: what +2/3 prevotes for v in round r do to the lock and the
\* valid block.
Polka(s, r, v) ==
    LET s1 == IF s.lockedBlock # None /\ s.lockedRound < r /\ r <= s.round /\ s.lockedBlock # v
              THEN Unlock(s) ELSE s
    IN  IF v = Nil \/ s1.validRound >= r \/ r # s1.round THEN s1
        ELSE IF s1.block = v THEN [s1 EXCEPT !.validRound = r, !.validBlock = v, !.parts = v]
        ELSE [s1 EXCEPT !.block = None, !.parts = v]

\* addVote, a prevote of round r was added.
AddedPrevote(s, r) ==
    LET maj == TwoThirdsMajority(s.prevotes, r)
        any == HasTwoThirdsAny(s.prevotes, r)
        s1 == IF maj = None THEN s ELSE Polka(s, r, maj)
    IN  IF s1.round < r /\ any THEN EnterNewRound(s1, r)
        ELSE IF s1.round = r /\ Prevote <= s1.step
             THEN IF maj # None /\ (IsProposalComplete(s1) \/ maj = Nil)
                  THEN EnterPrecommit(s1, r)
                  ELSE IF any THEN EnterPrevoteWait(s1, r) ELSE s1
        ELSE IF s1.proposal # None /\ s1.proposal.pol = r /\ IsProposalComplete(s1)
             THEN EnterPrevote(s1, s1.round)
        ELSE s1

\* Mutant: the wait for more precommits starts at the first one.
AddedPrecommit_AnyWait(s, r) ==
    LET maj == TwoThirdsMajority(s.precommits, r)
        s1 == EnterNewRound(s, r)
        s2 == EnterPrecommit(s1, r)
    IN  IF maj \notin {None, Nil} THEN EnterCommit(s2, r)
        ELSE EnterPrecommitWait(s2, r)

\* addVote, a precommit of round r was added.
AddedPrecommit(s, r) ==
    LET maj == TwoThirdsMajority(s.precommits, r)
        s1 == EnterNewRound(s, r)
        s2 == EnterPrecommit(s1, r)
    IN  IF maj = Nil THEN EnterPrecommitWait(s2, r)
        ELSE IF maj # None THEN EnterCommit(s2, r)
        ELSE IF s.round <= r /\ HasTwoThirdsAny(s.precommits, r)
             THEN EnterPrecommitWait(s1, r)
        ELSE s

\* The votes of m's type, and m as one of them.
VotesLike(s, m) == IF m.type = "prevote" THEN s.prevotes ELSE s.precommits
VoteOf(m) == Vote(m.val, m.round, m.value)

\* The sender of m voted for something else in m's round and type.
Conflicts(s, m) == m.val \in Voters(VotesLike(s, m) \ {VoteOf(m)}, m.round)

\* tryAddVote: a second, different vote of one validator panics.
TryAddVote(s, m) ==
    IF VoteOf(m) \in VotesLike(s, m) THEN s
    ELSE IF Conflicts(s, m) THEN Panic(s)
    ELSE IF m.type = "prevote"
         THEN AddedPrevote([s EXCEPT !.prevotes = @ \cup {VoteOf(m)}], m.round)
         ELSE AddedPrecommit([s EXCEPT !.precommits = @ \cup {VoteOf(m)}], m.round)

\* handleMsg
HandleMsg(s, m) ==
    CASE m.kind = "proposal" -> SetProposal(s, m)
      [] m.kind = "part" -> AddProposalBlockPart(s, m.block)
      [] m.kind = "vote" -> TryAddVote(s, m)

\* handleTimeout ignores a timeout that the round state is ahead of.
Ahead(s, ti) == ti.round < s.round \/ (ti.round = s.round /\ ti.step < s.step)

\* handleTimeout
HandleTimeout(s, ti) ==
    IF Ahead(s, ti) THEN s
    ELSE CASE ti.step = NewHeight -> EnterNewRound(s, 0)
           [] ti.step = NewRound -> EnterPropose(s, 0)
           [] ti.step = Propose -> EnterPrevote(s, ti.round)
           [] ti.step = PrevoteWait -> EnterPrecommit(s, ti.round)
           [] ti.step = PrecommitWait -> EnterNewRound(EnterPrecommit(s, ti.round), ti.round + 1)

\* handleTxsAvailable
HandleTxsAvailable(s) ==
    IF s.round # 0 THEN s
    ELSE IF s.step = NewHeight
         THEN IF WaitForTxs THEN ScheduleTimeout(s, 0, NewRound) ELSE s
    ELSE IF s.step = NewRound THEN EnterPropose(s, 0)
    ELSE s

-----------------------------------------------------------------------------

\* updateToState and scheduleRound0: the height begins.
Init ==
    /\ cs = [round |-> 0, step |-> NewHeight, status |-> "running",
             proposal |-> None, block |-> None, parts |-> None,
             lockedRound |-> -1, lockedBlock |-> None,
             validRound |-> -1, validBlock |-> None,
             commitRound |-> -1, triggered |-> FALSE, hvsRound |-> 0,
             prevotes |-> {}, precommits |-> {},
             queue |-> <<>>, sched |-> [round |-> 0, step |-> NewHeight]]
    /\ pending = {cs.sched}

\* receiveRoutine still runs, in a round within the bound.
Running == cs.status = "running" /\ cs.round <= MaxRound

\* A handler leaves s, with the timeouts in old still pending.  A new timeout
\* replaces the timer of the last one, unless that one fired before; those
\* that will be ignored are dropped at once.
Become(s, old) ==
    /\ cs' = s
    /\ \E kept \in IF s.sched = cs.sched THEN {old} ELSE SUBSET old :
          pending' = {ti \in kept \cup ({s.sched} \ {cs.sched}) : ~Ahead(s, ti)}

\* A proposal signed by the proposer of the round; pol may be a lie.
PeerProposal(b, pol) ==
    /\ Running
    /\ Proposer[cs.round] # Me
    /\ Become(HandleMsg(cs, [kind |-> "proposal", round |-> cs.round, pol |-> pol, block |-> b]), pending)

PeerPart(b) ==
    /\ Running
    /\ Become(HandleMsg(cs, [kind |-> "part", block |-> b]), pending)

\* Two different votes of one validator for one step do not both arrive: the
\* node would stop at "not yet implemented".
PeerVote(m) ==
    /\ Running
    /\ ~Conflicts(cs, m)
    /\ Become(HandleMsg(cs, m), pending)

\* internalMsgQueue
OwnMessage ==
    /\ Running
    /\ cs.queue # <<>>
    /\ Become(HandleMsg([cs EXCEPT !.queue = Tail(@)], Head(cs.queue)), pending)

TxsAvailable ==
    /\ Running
    /\ WaitForTxs
    /\ Become(HandleTxsAvailable(cs), pending)

\* tockChan
Timeout(ti) ==
    /\ Running
    /\ Become(HandleTimeout(cs, ti), pending \ {ti})

Next ==
    \/ \E b \in Blocks, pol \in -1..(MaxRound - 1) : PeerProposal(b, pol)
    \/ \E b \in Blocks : PeerPart(b)
    \/ \E m \in PeerVotes : PeerVote(m)
    \/ OwnMessage
    \/ TxsAvailable
    \/ \E ti \in pending : Timeout(ti)

Spec == Init /\ [][Next]_vars

\* The ticker's goroutine and receiveRoutine keep running: own messages and
\* timeouts do not wait forever.
FairSpec ==
    /\ Spec
    /\ []<>(~Running \/ cs.queue = <<>>)
    /\ []<>(~Running \/ pending = {})

-----------------------------------------------------------------------------

\* The round state has its type; the locked and the valid round are -1 exactly
\* when there is no such block.
TypeOK ==
    /\ cs.round \in 0..(MaxRound + 1)
    /\ cs.step \in NewHeight..Commit
    /\ cs.status \in {"running", "decided", "panic"}
    /\ cs.proposal \in {None} \cup [pol : -1..MaxRound, block : Blocks]
    /\ {cs.block, cs.parts, cs.lockedBlock, cs.validBlock} \subseteq Blocks \cup {None}
    /\ {cs.lockedRound, cs.validRound, cs.commitRound} \subseteq -1..MaxRound
    /\ cs.lockedRound = -1 <=> cs.lockedBlock = None
    /\ cs.validRound = -1 <=> cs.validBlock = None
    /\ cs.triggered \in BOOLEAN
    /\ cs.hvsRound \in 0..(MaxRound + 2)
    /\ cs.prevotes \cup cs.precommits \subseteq
          [val : Validators, round : Rounds, value : Values]
    /\ cs.sched \in [round : 0..(MaxRound + 1), step : NewHeight..PrecommitWait]
    /\ pending \subseteq [round : 0..(MaxRound + 1), step : NewHeight..PrecommitWait]

\* None of the assertions of state.go fails (enterPrecommit,
\* enterPrecommitWait, enterCommit, finalizeCommit, SetRound, tryAddVote),
\* whatever the order in which proposals, parts, votes and timeouts arrive.
NoPanic == cs.status # "panic"

\* The node's own votes, cast and still queued.
OwnVote(type, r, v) ==
    \/ Vote(Me, r, v) \in (IF type = "prevote" THEN cs.prevotes ELSE cs.precommits)
    \/ \E i \in DOMAIN cs.queue :
          cs.queue[i] = [kind |-> "vote", type |-> type, round |-> r, val |-> Me, value |-> v]

\* A lock is on a valid block that the node itself precommitted in the locked
\* round, on +2/3 prevotes of that round that it still has.
LockIsJustified ==
    cs.lockedBlock # None =>
        /\ cs.lockedBlock \in ValidBlocks
        /\ TwoThirdsMajority(cs.prevotes, cs.lockedRound) = cs.lockedBlock
        /\ OwnVote("precommit", cs.lockedRound, cs.lockedBlock)

\* The node's own votes are for nil or for blocks that ValidateBlock accepts,
\* whatever it was sent as the proposal block.
OwnVotesAreValid ==
    \A type \in {"prevote", "precommit"}, r \in Rounds, v \in Blocks :
        OwnVote(type, r, v) => v \in ValidBlocks

\* The valid block, which the node proposes again with ValidRound as its POL
\* round, has +2/3 prevotes in that round: the POL the node claims exists.
ValidIsJustified ==
    cs.validBlock # None =>
        TwoThirdsMajority(cs.prevotes, cs.validRound) = cs.validBlock

\* ProposalBlock is always the block ProposalBlockParts was set up for, through
\* every unlock, polka, commit and new round: what finalizeCommit asserts.
BlockMatchesParts == cs.block \in {None, cs.parts}

\* However votes, proposals, parts and timeouts are interleaved, no assertion of
\* the handlers fails, and block and parts never get out of step.
AssertionsHold == TypeOK /\ NoPanic /\ BlockMatchesParts

\* Both the lock and the valid block rest on +2/3 prevotes that the node has,
\* through every change of round, unlock and late block.
PolkasJustify == LockIsJustified /\ ValidIsJustified

\* The votes the node adds follow the voting discipline of Agreement.
A == INSTANCE Agreement WITH
        Correct <- {Me},
        prevotes <- cs.prevotes,
        precommits <- cs.precommits
VotingDiscipline == A!Spec

\* A timed step is left: the timeouts scheduled on entry are not lost.
TimedStep(r, step) == Running /\ cs.round = r /\ cs.step = step
StepsAreLeft ==
    \A r \in Rounds : \A step \in {Propose, PrevoteWait, PrecommitWait} :
        TimedStep(r, step) ~> ~TimedStep(r, step)

\* enterCommit: "Set up ProposalBlockParts and keep waiting."  A node in Commit,
\* which has +2/3 precommits for a block but not the block, waits for that
\* block until it has it.
KeepsWaitingForBlock ==
    [][Running /\ cs.step = Commit => cs'.step = Commit /\ cs'.parts = cs.parts]_vars
=============================================================================
