------------------------ MODULE ConsensusStateProofs ------------------------
(***************************************************************************)
(* The round state machine of one validator, for any validator set,        *)
(* blocks, number of rounds and votes of the other validators.             *)
(*                                                                         *)
(* The handlers are operators from round state to round state, so the      *)
(* inductive invariant is a predicate on a round state (Good), and there   *)
(* is one lemma per handler: from a good round state it leads to a good    *)
(* one, without touching the votes.  Good is stated over the node's own    *)
(* votes, those in the vote sets and those still in its message queue      *)
(* (Own): what they promise must hold from the moment they are signed,     *)
(* although they count only once they are taken from the queue.            *)
(***************************************************************************)
EXTENDS ConsensusState, WellFoundedInduction, TLAPS

Votes == [val : Validators, round : Rounds, value : Values]
Ticks == [round : 0..(MaxRound + 1),
          step : {NewHeight, NewRound, Propose, PrevoteWait, PrecommitWait}]
OwnVotes == [round : Rounds, value : Values]

VoteMsg(type, r, v) ==
    [kind |-> "vote", type |-> type, round |-> r, val |-> Me, value |-> v]
VoteMsgs == [kind : {"vote"}, type : VoteTypes, round : Rounds, val : {Me}, value : Values]
Messages ==
    [kind : {"proposal"}, round : 0..(MaxRound + 1), pol : -1..MaxRound, block : Blocks]
    \cup [kind : {"part"}, block : Blocks]
    \cup VoteMsgs

RoundState ==
    [round : 0..(MaxRound + 1), step : NewHeight..Commit,
     status : {"running", "decided"},
     proposal : {None} \cup [pol : -1..MaxRound, block : Blocks],
     block : Blocks \cup {None}, parts : Blocks \cup {None},
     lockedRound : -1..MaxRound, lockedBlock : Blocks \cup {None},
     validRound : -1..MaxRound, validBlock : Blocks \cup {None},
     commitRound : -1..MaxRound, triggered : BOOLEAN, hvsRound : 0..(MaxRound + 2),
     prevotes : SUBSET Votes, precommits : SUBSET Votes,
     queue : Seq(Messages), sched : Ticks]

-----------------------------------------------------------------------------
(* The parts of the invariant, each over the fields it is about *)

\* Validators vote once per round, and only peers' votes in PeerVotes count.
VotesSound(votes, type) ==
    /\ \A m, n \in votes : m.val = n.val /\ m.round = n.round => m = n
    /\ \A m \in votes : m.val # Me =>
          [kind |-> "vote", type |-> type, round |-> m.round, val |-> m.val,
           value |-> m.value] \in PeerVotes

HasPolka(votes, r, v) == VotersFor(votes, r, v) \in Quorum

\* The node's own votes of a type, cast and still queued.
Own(votes, queue, type) ==
    {m \in OwnVotes :
        \/ Vote(Me, m.round, m.value) \in votes
        \/ \E i \in DOMAIN queue : queue[i] = VoteMsg(type, m.round, m.value)}

\* Votes leave the queue in the order of their rounds, one per round and type.
Ordered(queue, prevotes, precommits) ==
    /\ \A i, j \in DOMAIN queue :
          i < j /\ queue[i] \in VoteMsgs /\ queue[j] \in VoteMsgs =>
              /\ queue[i].round <= queue[j].round
              /\ queue[i].type = queue[j].type => queue[i].round < queue[j].round
    /\ \A i \in DOMAIN queue : queue[i] \in VoteMsgs =>
          /\ \A m \in prevotes : m.val = Me =>
                /\ m.round <= queue[i].round
                /\ queue[i].type = "prevote" => m.round < queue[i].round
          /\ \A m \in precommits : m.val = Me =>
                /\ m.round <= queue[i].round
                /\ queue[i].type = "precommit" => m.round < queue[i].round

\* The round and step are where they must be after these votes.
Voted(prevoted, precommitted, round, step) ==
    /\ \A m \in prevoted : m.round < round \/ (m.round = round /\ Prevote <= step)
    /\ \A m \in precommitted : m.round < round \/ (m.round = round /\ Precommit <= step)

\* A block precommitted has a polka in that round.
Justified(precommitted, prevotes) ==
    \A m \in precommitted : m.value # Nil => HasPolka(prevotes, m.round, m.value)

\* The own votes are for nil or for valid blocks.
Accepted(own) == \A m \in own : m.value # Nil => m.value \in ValidBlocks

\* A polka for something else than b after round q and not after round r.
PolkaAgainst(prevotes, b, q, r) ==
    \E w \in Values, t \in Rounds : w # b /\ q < t /\ t <= r /\ HasPolka(prevotes, t, w)

\* A block precommitted is still locked, unless a later polka released it.
Kept(precommitted, prevotes, round, lockedRound, lockedBlock) ==
    \A m \in precommitted : m.value # Nil =>
        \/ lockedBlock = m.value /\ m.round <= lockedRound
        \/ PolkaAgainst(prevotes, m.value, m.round, round)

\* No own prevote goes against an earlier own precommit without such a polka.
Released(prevoted, precommitted, prevotes) ==
    \A m \in precommitted, n \in prevoted :
        m.value # Nil /\ m.value # n.value /\ m.round < n.round =>
            PolkaAgainst(prevotes, m.value, m.round, n.round)

LockSound(lockedRound, lockedBlock, prevotes, precommitted) ==
    /\ lockedRound = -1 <=> lockedBlock = None
    /\ lockedBlock # None =>
          /\ lockedBlock \in ValidBlocks
          /\ HasPolka(prevotes, lockedRound, lockedBlock)
          /\ [round |-> lockedRound, value |-> lockedBlock] \in precommitted

ValidSound(validRound, validBlock, prevotes) ==
    /\ validRound = -1 <=> validBlock = None
    /\ validBlock # None => HasPolka(prevotes, validRound, validBlock)

\* HeightVoteSet tracks one round more than the node is in, once it has begun.
RoundsSound(round, step, hvsRound) ==
    /\ (hvsRound = 0 /\ round = 0) \/ hvsRound = round + 1
    /\ step = NewHeight => hvsRound = 0

TickSound(ti, round) ==
    /\ ti \in Ticks
    /\ ti.round <= round
    /\ ti.step \in {NewHeight, NewRound} => ti.round = 0

Prevoted(s) == Own(s.prevotes, s.queue, "prevote")
Precommitted(s) == Own(s.precommits, s.queue, "precommit")

Good(s) ==
    /\ s \in RoundState
    /\ s.block \in {None, s.parts}
    /\ RoundsSound(s.round, s.step, s.hvsRound)
    /\ TickSound(s.sched, s.round)
    /\ VotesSound(s.prevotes, "prevote")
    /\ VotesSound(s.precommits, "precommit")
    /\ Ordered(s.queue, s.prevotes, s.precommits)
    /\ Voted(Prevoted(s), Precommitted(s), s.round, s.step)
    /\ Justified(Precommitted(s), s.prevotes)
    /\ Accepted(Prevoted(s)) /\ Accepted(Precommitted(s))
    /\ Kept(Precommitted(s), s.prevotes, s.round, s.lockedRound, s.lockedBlock)
    /\ Released(Prevoted(s), Precommitted(s), s.prevotes)
    /\ LockSound(s.lockedRound, s.lockedBlock, s.prevotes, Precommitted(s))
    /\ ValidSound(s.validRound, s.validBlock, s.prevotes)

IInv == Good(cs) /\ \A ti \in pending : TickSound(ti, cs.round)

-----------------------------------------------------------------------------
(* Numbers *)

\* A set of natural numbers has a least member.
LEMMA LeastExists ==
    ASSUME NEW T \in SUBSET Nat, T # {}
    PROVE  \E m \in T : \A y \in T : m <= y
<1> DEFINE R == {ss \in Nat \X Nat : ss[1] < ss[2]}
<1>1. IsWellFoundedOn(R, Nat)
  BY Zenon, NatLessThanWellFounded DEF OpToRel
<1>2. PICK m \in T : \A y \in T : ~(<<y, m>> \in R)
  <2> HIDE DEF R
  <2> QED
    BY Zenon, <1>1, WFMin
<1>3. ASSUME NEW y \in T PROVE m <= y
  <2>1. <<y, m>> \in Nat \X Nat /\ <<y, m>>[1] = y /\ <<y, m>>[2] = m
    BY Zenon
  <2>2. ~(y < m)
    BY Zenon, <1>2, <2>1
  <2> QED
    BY <2>2
<1> QED
  BY Zenon, <1>3

\* A bounded set of numbers has a greatest member.
LEMMA LatestExists ==
    ASSUME NEW n \in Nat, NEW S \in SUBSET (-1..n), S # {}
    PROVE  Latest(S) \in S /\ \A x \in S : x <= Latest(S)
<1> DEFINE T == {m \in Nat : n - m \in S}
<1>1. T # {}
  <2>1. PICK x \in S : TRUE
    BY Zenon
  <2>2. n - x \in Nat /\ n - (n - x) = x
    OBVIOUS
  <2> QED
    BY Zenon, <2>2
<1>2. PICK m \in T : \A y \in T : m <= y
  <2>1. T \in SUBSET Nat
    BY Zenon
  <2> HIDE DEF T
  <2> QED
    BY Zenon, <1>1, <2>1, LeastExists
<1>3. \A y \in S : y <= n - m
  <2> SUFFICES ASSUME NEW y \in S PROVE y <= n - m
    BY Zenon
  <2>1. n - y \in Nat /\ n - (n - y) = y
    OBVIOUS
  <2> QED
    BY <1>2, <2>1
<1> QED
  BY Zenon, <1>2, <1>3 DEF Latest

-----------------------------------------------------------------------------
(* Vote sets *)

\* Two quorums of a round share a voter, who voted once.
LEMMA OnePolka ==
    ASSUME NEW votes \in SUBSET Votes, NEW type, VotesSound(votes, type),
           NEW r, NEW v, NEW w, HasPolka(votes, r, v), HasPolka(votes, r, w)
    PROVE  v = w
<1>1. PICK p \in VotersFor(votes, r, v) : p \in VotersFor(votes, r, w)
  BY Zenon, QuorumAssumption DEF HasPolka
<1>2. Vote(p, r, v) \in votes /\ Vote(p, r, w) \in votes
  BY Zenon, <1>1 DEF VotersFor
<1>3. Vote(p, r, v) = Vote(p, r, w)
  BY Zenon, <1>2 DEF VotesSound, Vote
<1> QED
  BY Zenon, <1>3 DEF Vote

\* TwoThirdsMajority finds the polka of a round, if there is one.
LEMMA MajorityIsPolka ==
    ASSUME NEW votes \in SUBSET Votes, NEW type, VotesSound(votes, type), NEW r
    PROVE  /\ TwoThirdsMajority(votes, r) # None =>
                /\ TwoThirdsMajority(votes, r) \in Values
                /\ HasPolka(votes, r, TwoThirdsMajority(votes, r))
           /\ \A v \in Values : HasPolka(votes, r, v) => TwoThirdsMajority(votes, r) = v
<1> DEFINE maj == {v \in Values : VotersFor(votes, r, v) \in Quorum}
<1>1. CASE maj = {}
  BY Zenon, <1>1 DEF TwoThirdsMajority, HasPolka
<1>2. CASE maj # {}
  <2>1. TwoThirdsMajority(votes, r) \in maj
    BY Zenon, <1>2 DEF TwoThirdsMajority
  <2> QED
    BY Zenon, <2>1, OnePolka DEF HasPolka
<1> QED
  BY Zenon, <1>1, <1>2

\* More votes keep a polka.
LEMMA PolkaStays ==
    ASSUME NEW votes, NEW more, votes \subseteq more, NEW r, NEW v, HasPolka(votes, r, v)
    PROVE  HasPolka(more, r, v)
  BY Zenon, QuorumAssumption DEF HasPolka, VotersFor

\* +2/3 for one value are +2/3 for any.
LEMMA PolkaIsAny ==
    ASSUME NEW votes, NEW r, NEW v, votes \subseteq Votes, HasPolka(votes, r, v)
    PROVE  HasTwoThirdsAny(votes, r)
<1>1. VotersFor(votes, r, v) \subseteq Voters(votes, r)
  BY DEF VotersFor, Voters, Vote
<1>2. Voters(votes, r) \subseteq Validators
  BY Zenon DEF Voters, Votes
<1> QED
  BY Zenon, <1>1, <1>2, QuorumAssumption DEF HasPolka, HasTwoThirdsAny

-----------------------------------------------------------------------------
(* Good round states *)

\* Where a handler may lead: to a good round state, with the same votes.
Leads(s, t) ==
    /\ Good(t)
    /\ t.prevotes = s.prevotes /\ t.precommits = s.precommits
    /\ s.round <= t.round

\* The numbers of a round state.
LEMMA Numbers ==
    ASSUME NEW s \in RoundState
    PROVE  /\ s.round \in Nat /\ s.round <= MaxRound + 1 /\ s.hvsRound \in Nat
           /\ s.step \in Nat /\ s.step >= NewHeight /\ s.step <= Commit
           /\ s.lockedRound \in Int /\ s.validRound \in Int /\ s.commitRound \in Int
<1>1. /\ s.round \in 0..(MaxRound + 1) /\ s.hvsRound \in 0..(MaxRound + 2)
      /\ s.step \in NewHeight..Commit
      /\ s.lockedRound \in -1..MaxRound /\ s.validRound \in -1..MaxRound
      /\ s.commitRound \in -1..MaxRound
  BY Zenon DEF RoundState
<1> QED
  BY <1>1, MaxRoundAssumption DEF NewHeight, Commit

\* The steps of a round come in the order of RoundStepType.
LEMMA StepsOrdered ==
    /\ {NewHeight, NewRound, Propose, Prevote, PrevoteWait, Precommit, PrecommitWait, Commit}
          \subseteq NewHeight..Commit
    /\ NewHeight < NewRound /\ NewRound < Propose /\ Propose < Prevote /\ Prevote < PrevoteWait
    /\ PrevoteWait < Precommit /\ Precommit < PrecommitWait /\ PrecommitWait < Commit
    /\ {NewHeight, NewRound, Propose, Prevote, PrevoteWait, Precommit, PrecommitWait, Commit}
          \subseteq Nat
  BY DEF NewHeight, NewRound, Propose, Prevote, PrevoteWait, Precommit, PrecommitWait, Commit

\* A later round or step does not take back what was promised.
LEMMA VotedStays ==
    ASSUME NEW prevoted, NEW precommitted, prevoted \subseteq OwnVotes, precommitted \subseteq OwnVotes,
           NEW r \in Nat, NEW step \in Nat, NEW r2 \in Nat, NEW step2 \in Nat,
           Voted(prevoted, precommitted, r, step),
           r < r2 \/ (r = r2 /\ (step <= step2 \/ Precommit <= step2))
    PROVE  Voted(prevoted, precommitted, r2, step2)
  BY MaxRoundAssumption DEF Voted, OwnVotes, Rounds, Prevote, Precommit

\* More prevotes and later rounds keep what Kept says.
LEMMA KeptStays ==
    ASSUME NEW precommitted, NEW votes, NEW r \in Nat, NEW r2 \in Nat, r <= r2, NEW lr, NEW lb,
           Kept(precommitted, votes, r, lr, lb)
    PROVE  Kept(precommitted, votes, r2, lr, lb)
  BY MaxRoundAssumption DEF Kept, PolkaAgainst, Rounds

\* A handler that leaves the votes, the queue and the lock alone.
LEMMA Quiet ==
    ASSUME NEW s, Good(s), NEW t \in RoundState,
           t.queue = s.queue, t.prevotes = s.prevotes, t.precommits = s.precommits,
           t.lockedRound = s.lockedRound, t.lockedBlock = s.lockedBlock,
           s.round < t.round \/ (s.round = t.round /\ (s.step <= t.step \/ Precommit <= t.step)),
           t.block \in {None, t.parts},
           RoundsSound(t.round, t.step, t.hvsRound),
           TickSound(t.sched, t.round),
           ValidSound(t.validRound, t.validBlock, t.prevotes)
    PROVE  Good(t) /\ Leads(s, t)
<1>1. /\ s.round \in Nat /\ t.round \in Nat /\ s.step \in Nat /\ t.step \in Nat
      /\ s.round <= t.round
  <2>1. s \in RoundState
    BY Zenon DEF Good
  <2> QED
    BY <2>1, Numbers
<1>2. Prevoted(t) = Prevoted(s) /\ Precommitted(t) = Precommitted(s)
  BY Zenon DEF Prevoted, Precommitted
<1>3. Prevoted(s) \subseteq OwnVotes /\ Precommitted(s) \subseteq OwnVotes
  BY Zenon DEF Prevoted, Precommitted, Own
<1>4. Voted(Prevoted(t), Precommitted(t), t.round, t.step)
  BY Zenon, <1>1, <1>2, <1>3, VotedStays DEF Good
<1>5. Kept(Precommitted(t), t.prevotes, t.round, t.lockedRound, t.lockedBlock)
  BY Zenon, <1>1, <1>2, KeptStays DEF Good
<1>6. Good(t)
  BY Zenon, <1>2, <1>4, <1>5 DEF Good
<1> QED
  BY Zenon, <1>1, <1>6 DEF Leads

\* scheduleTimeout changes sched alone.
LEMMA Scheduled ==
    ASSUME NEW s, Good(s), NEW step \in {NewRound, Propose, PrevoteWait, PrecommitWait},
           step = NewRound => s.round = 0
    PROVE  LET t == ScheduleTimeout(s, s.round, step)
           IN  /\ Leads(s, t)
               /\ t = [s EXCEPT !.sched = t.sched]
<1> DEFINE x == [round |-> s.round, step |-> step]
           t == ScheduleTimeout(s, s.round, step)
<1>1. TickSound(x, s.round) /\ x \in Ticks
  <2>1. s.round \in 0..(MaxRound + 1)
    BY Zenon DEF Good, RoundState
  <2>2. s.round <= s.round
    BY <2>1, MaxRoundAssumption
  <2>3. x.round = s.round /\ x.step = step /\ x \in Ticks
    BY Zenon, <2>1 DEF Ticks
  <2>4. step # NewHeight
    BY StepsOrdered
  <2> QED
    BY Zenon, <2>2, <2>3, <2>4 DEF TickSound
<1>2. CASE t = s
  BY <1>2, Quiet DEF Good, RoundState
<1>3. CASE t = [s EXCEPT !.sched = x]
  <2> HIDE DEF x, t
  <2>1. t \in RoundState
    BY Zenon, <1>1, <1>3 DEF Good, RoundState
  <2>2. /\ t.queue = s.queue /\ t.prevotes = s.prevotes /\ t.precommits = s.precommits
        /\ t.lockedRound = s.lockedRound /\ t.lockedBlock = s.lockedBlock
        /\ t.round = s.round /\ t.step = s.step /\ t.block = s.block /\ t.parts = s.parts
        /\ t.hvsRound = s.hvsRound /\ t.sched = x
        /\ t.validRound = s.validRound /\ t.validBlock = s.validBlock
    BY Zenon, <1>3 DEF Good, RoundState
  <2>3. Leads(s, t)
    <3>1. s.step <= t.step
      BY <2>2, Numbers DEF Good
    <3> QED
      BY Zenon, <1>1, <2>1, <2>2, <3>1, Quiet DEF Good
  <2> QED
    BY Zenon, <2>2, <2>3, <1>3 DEF t
<1> QED
  BY Zenon, <1>2, <1>3 DEF ScheduleTimeout

-----------------------------------------------------------------------------
(* The own message queue *)

\* What is appended to the queue is one more message.
LEMMA Appended ==
    ASSUME NEW queue \in Seq(Messages), NEW m \in Messages
    PROVE  /\ Append(queue, m) \in Seq(Messages)
           /\ Len(queue) \in Nat
           /\ DOMAIN queue = 1..Len(queue)
           /\ DOMAIN Append(queue, m) = 1..(Len(queue) + 1)
           /\ \A i \in DOMAIN queue : Append(queue, m)[i] = queue[i]
           /\ Append(queue, m)[Len(queue) + 1] = m
  OBVIOUS

\* Proposals and parts are not votes.
LEMMA QueueOther ==
    ASSUME NEW queue \in Seq(Messages), NEW m \in Messages, m \notin VoteMsgs,
           NEW prevotes, NEW precommits, Ordered(queue, prevotes, precommits)
    PROVE  /\ Ordered(Append(queue, m), prevotes, precommits)
           /\ \A votes : \A type \in VoteTypes :
                 Own(votes, Append(queue, m), type) = Own(votes, queue, type)
<1> DEFINE q == Append(queue, m)
           n == Len(queue) + 1
<1>1. /\ DOMAIN queue = 1..Len(queue) /\ Len(queue) \in Nat
      /\ DOMAIN q = 1..n
      /\ \A i \in DOMAIN queue : q[i] = queue[i]
      /\ q[n] = m
  BY Zenon, Appended
<1>2. \A i \in DOMAIN q : q[i] \in VoteMsgs => i \in DOMAIN queue /\ q[i] = queue[i]
  BY <1>1
<1>3. \A i \in DOMAIN queue : i \in DOMAIN q
  BY <1>1
<1> HIDE DEF q, n
<1>4. Ordered(q, prevotes, precommits)
  BY Zenon, <1>2 DEF Ordered
<1>5. ASSUME NEW votes, NEW type \in VoteTypes
      PROVE  Own(votes, q, type) = Own(votes, queue, type)
  <2>1. ASSUME NEW o \in OwnVotes
        PROVE  VoteMsg(type, o.round, o.value) \in VoteMsgs
    BY Zenon DEF VoteMsg, VoteMsgs, OwnVotes
  <2> QED
    BY Zenon, <1>1, <1>2, <1>3, <2>1 DEF Own
<1> QED
  BY Zenon, <1>4, <1>5 DEF q

\* The own votes with one more.
With(own, r, v) == own \cup {[round |-> r, value |-> v]}

\* A vote is signed in a round in which none of its type was: it is the last
\* one in the queue.
LEMMA QueueVote ==
    ASSUME NEW s, Good(s), s.round \in Rounds, NEW type \in VoteTypes, NEW v \in Values,
           type = "prevote" => s.step < Prevote,
           type = "precommit" => s.step < Precommit,
           NEW q, q = Append(s.queue, VoteMsg(type, s.round, v))
    PROVE  /\ q \in Seq(Messages)
           /\ Ordered(q, s.prevotes, s.precommits)
           /\ type = "prevote" =>
                 /\ Own(s.prevotes, q, "prevote") = With(Prevoted(s), s.round, v)
                 /\ Own(s.precommits, q, "precommit") = Precommitted(s)
           /\ type = "precommit" =>
                 /\ Own(s.prevotes, q, "prevote") = Prevoted(s)
                 /\ Own(s.precommits, q, "precommit") = With(Precommitted(s), s.round, v)
<1> DEFINE m == VoteMsg(type, s.round, v)
           n == Len(s.queue) + 1
           o == [round |-> s.round, value |-> v]
<1>1. m \in VoteMsgs /\ m \in Messages /\ m.round = s.round /\ m.type = type
  BY Zenon DEF VoteMsg, VoteMsgs, Messages
<1>2. s.queue \in Seq(Messages) /\ s.prevotes \subseteq Votes /\ s.precommits \subseteq Votes
  BY Zenon DEF Good, RoundState
<1>3. /\ q \in Seq(Messages)
      /\ DOMAIN s.queue = 1..Len(s.queue) /\ Len(s.queue) \in Nat
      /\ DOMAIN q = 1..n
      /\ \A i \in DOMAIN s.queue : q[i] = s.queue[i]
      /\ q[n] = m
  BY ZenonT(40), <1>1, <1>2, Appended
<1>4. o \in OwnVotes /\ o.round = s.round /\ o.value = v
  BY Zenon DEF OwnVotes
<1>5. \A t \in VoteTypes, x \in OwnVotes : m = VoteMsg(t, x.round, x.value) <=> t = type /\ x = o
  BY DEF VoteMsg, OwnVotes
<1> HIDE DEF m, n, o
<1>6. \A i \in DOMAIN q : (i \in DOMAIN s.queue /\ q[i] = s.queue[i]) \/ (i = n /\ q[i] = m)
  BY <1>3 DEF n
<1>7. \A i \in DOMAIN s.queue : i \in DOMAIN q /\ i < n
  BY <1>3 DEF n
<1>8. n \in DOMAIN q
  BY <1>3 DEF n
<1>9. ASSUME NEW votes, NEW t \in VoteTypes
      PROVE  Own(votes, q, t) = Own(votes, s.queue, t) \cup (IF t = type THEN {o} ELSE {})
  BY <1>3, <1>4, <1>5, <1>6, <1>7, <1>8 DEF Own
<1>10. Ordered(q, s.prevotes, s.precommits)
  <2> USE DEF Good
  <2>1. s.round \in Int /\ s.step \in Int
    BY Numbers
  <2>2. ASSUME NEW x \in OwnVotes,
               x \in Prevoted(s) \/ x \in Precommitted(s)
        PROVE  /\ x.round <= s.round
               /\ type = "prevote" /\ x \in Prevoted(s) => x.round < s.round
               /\ type = "precommit" /\ x \in Precommitted(s) => x.round < s.round
    <3>1. x.round \in Int
      BY MaxRoundAssumption DEF OwnVotes, Rounds
    <3> QED
      BY <2>1, <2>2, <3>1 DEF Voted, Prevote, Precommit
  <2>3. ASSUME NEW i \in DOMAIN s.queue, s.queue[i] \in VoteMsgs
        PROVE  /\ s.queue[i].round <= s.round
               /\ s.queue[i].type = type => s.queue[i].round < s.round
    <3> DEFINE x == [round |-> s.queue[i].round, value |-> s.queue[i].value]
    <3>1. x \in OwnVotes /\ s.queue[i] = VoteMsg(s.queue[i].type, x.round, x.value)
          /\ s.queue[i].type \in VoteTypes
      BY Zenon, <2>3 DEF VoteMsgs, VoteMsg, OwnVotes
    <3>2. /\ s.queue[i].type = "prevote" => x \in Prevoted(s)
          /\ s.queue[i].type = "precommit" => x \in Precommitted(s)
      BY Zenon, <3>1 DEF Own, Prevoted, Precommitted
    <3> QED
      BY Zenon, <2>2, <3>1, <3>2 DEF VoteTypes
  <2>4. ASSUME NEW w \in Votes, w.val = Me
        PROVE  /\ w \in s.prevotes => w.round <= s.round /\ (type = "prevote" => w.round < s.round)
               /\ w \in s.precommits => w.round <= s.round /\ (type = "precommit" => w.round < s.round)
    <3> DEFINE x == [round |-> w.round, value |-> w.value]
    <3>1. x \in OwnVotes /\ w = Vote(Me, x.round, x.value)
      BY Zenon, <2>4 DEF Votes, Vote, OwnVotes
    <3>2. /\ w \in s.prevotes => x \in Prevoted(s)
          /\ w \in s.precommits => x \in Precommitted(s)
      BY Zenon, <3>1 DEF Own, Prevoted, Precommitted
    <3> QED
      BY Zenon, <2>2, <3>1, <3>2
  <2>5. ASSUME NEW i \in DOMAIN q, NEW j \in DOMAIN q, i < j, q[i] \in VoteMsgs, q[j] \in VoteMsgs
        PROVE  /\ q[i].round <= q[j].round
               /\ q[i].type = q[j].type => q[i].round < q[j].round
    <3>1. CASE j \in DOMAIN s.queue /\ q[j] = s.queue[j]
      <4>1. i \in DOMAIN s.queue /\ q[i] = s.queue[i]
        BY <1>3, <1>6, <1>7, <2>5, <3>1 DEF n
      <4> QED
        BY Zenon, <2>5, <3>1, <4>1 DEF Ordered
    <3>2. CASE j = n /\ q[j] = m
      <4>1. i \in DOMAIN s.queue /\ q[i] = s.queue[i]
        BY <1>3, <1>6, <2>5, <3>2 DEF n
      <4> QED
        BY Zenon, <1>1, <2>3, <2>5, <3>2, <4>1
    <3> QED
      BY Zenon, <1>6, <3>1, <3>2
  <2>6. ASSUME NEW i \in DOMAIN q, q[i] \in VoteMsgs, NEW w \in Votes, w.val = Me
        PROVE  /\ w \in s.prevotes => w.round <= q[i].round /\ (q[i].type = "prevote" => w.round < q[i].round)
               /\ w \in s.precommits => w.round <= q[i].round /\ (q[i].type = "precommit" => w.round < q[i].round)
    <3>1. CASE i \in DOMAIN s.queue /\ q[i] = s.queue[i]
      BY Zenon, <2>6, <3>1 DEF Ordered
    <3>2. CASE i = n /\ q[i] = m
      BY Zenon, <1>1, <2>4, <2>6, <3>2
    <3> QED
      BY Zenon, <1>6, <3>1, <3>2
  <2> QED
    BY Zenon, <1>2, <2>5, <2>6 DEF Ordered
<1> QED
  <2>1. "prevote" \in VoteTypes /\ "precommit" \in VoteTypes
    BY Zenon DEF VoteTypes
  <2>2. /\ Own(s.prevotes, q, "prevote") =
              Own(s.prevotes, s.queue, "prevote") \cup (IF "prevote" = type THEN {o} ELSE {})
        /\ Own(s.precommits, q, "precommit") =
              Own(s.precommits, s.queue, "precommit") \cup (IF "precommit" = type THEN {o} ELSE {})
    BY Zenon, <1>9, <2>1
  <2> QED
    BY Zenon, <1>3, <1>10, <2>2 DEF Prevoted, Precommitted, VoteTypes, o, With

\* A prevote queued is an own prevote more.
LEMMA QueuePrevote ==
    ASSUME NEW s, Good(s), s.round \in Rounds, s.step < Prevote, NEW v \in Values,
           NEW q, q = Append(s.queue, VoteMsg("prevote", s.round, v))
    PROVE  /\ q \in Seq(Messages)
           /\ Ordered(q, s.prevotes, s.precommits)
           /\ Own(s.prevotes, q, "prevote") = With(Prevoted(s), s.round, v)
           /\ Own(s.precommits, q, "precommit") = Precommitted(s)
<1>1. "prevote" \in VoteTypes
  BY Zenon DEF VoteTypes
<1> QED
  BY Zenon, <1>1, QueueVote

\* A precommit queued is an own precommit more.
LEMMA QueuePrecommit ==
    ASSUME NEW s, Good(s), s.round \in Rounds, s.step < Precommit, NEW v \in Values,
           NEW q, q = Append(s.queue, VoteMsg("precommit", s.round, v))
    PROVE  /\ q \in Seq(Messages)
           /\ Ordered(q, s.prevotes, s.precommits)
           /\ Own(s.prevotes, q, "prevote") = Prevoted(s)
           /\ Own(s.precommits, q, "precommit") = With(Precommitted(s), s.round, v)
<1>1. "precommit" \in VoteTypes
  BY Zenon DEF VoteTypes
<1> QED
  BY Zenon, <1>1, QueueVote

\* The numbers of an own vote.
LEMMA OwnNumbers ==
    ASSUME NEW s
    PROVE  /\ Prevoted(s) \subseteq OwnVotes /\ Precommitted(s) \subseteq OwnVotes
           /\ \A o \in OwnVotes : o.round \in Nat /\ o.round \in Rounds /\ o.value \in Values
  BY MaxRoundAssumption DEF Prevoted, Precommitted, Own, OwnVotes, Rounds

-----------------------------------------------------------------------------
(* Voting *)

\* A prevote for the locked block, or for any valid block when there is none.
LEMMA CastPrevote ==
    ASSUME NEW s, Good(s), s.round \in Rounds, s.step < Prevote, NEW v \in Values,
           s.lockedBlock # None => v = s.lockedBlock,
           v # Nil => v \in ValidBlocks,
           NEW t \in RoundState,
           t.queue = Append(s.queue, VoteMsg("prevote", s.round, v)),
           t.step = Prevote,
           t.prevotes = s.prevotes, t.precommits = s.precommits,
           t.lockedRound = s.lockedRound, t.lockedBlock = s.lockedBlock,
           t.round = s.round, t.block = s.block, t.parts = s.parts,
           t.hvsRound = s.hvsRound, t.sched = s.sched,
           t.validRound = s.validRound, t.validBlock = s.validBlock
    PROVE  Leads(s, t)
<1> DEFINE o == [round |-> s.round, value |-> v]
<1>1. s \in RoundState
  BY Zenon DEF Good
<1>2. o.round = s.round /\ o.value = v
  BY Zenon
<1>3. /\ Ordered(t.queue, t.prevotes, t.precommits)
      /\ Prevoted(t) = Prevoted(s) \cup {o} /\ Precommitted(t) = Precommitted(s)
  <2>1. /\ Ordered(t.queue, s.prevotes, s.precommits)
        /\ Own(s.prevotes, t.queue, "prevote") = With(Prevoted(s), s.round, v)
        /\ Own(s.precommits, t.queue, "precommit") = Precommitted(s)
    BY Zenon, QueuePrevote
  <2> QED
    BY Zenon, <2>1 DEF Prevoted, Precommitted, With
<1> HIDE DEF o
<1>4. Voted(Prevoted(t), Precommitted(t), t.round, t.step)
  BY <1>1, <1>2, <1>3, OwnNumbers, Numbers DEF Good, Voted, Prevote, Precommit
<1>5. Accepted(Prevoted(t))
  BY Zenon, <1>2, <1>3 DEF Good, Accepted
<1>6. Released(Prevoted(t), Precommitted(t), t.prevotes)
  <2> SUFFICES ASSUME NEW m \in Precommitted(s), NEW x \in Prevoted(t),
                      m.value # Nil, m.value # x.value, m.round < x.round
               PROVE  PolkaAgainst(s.prevotes, m.value, m.round, x.round)
    BY Zenon, <1>3 DEF Released
  <2>1. CASE x \in Prevoted(s)
    BY Zenon, <2>1 DEF Good, Released
  <2>2. CASE x = o
    <3>1. m.value # s.lockedBlock
      BY Zenon, <1>2, <2>2, BlocksAssumption, OwnNumbers
    <3> QED
      BY Zenon, <1>2, <2>2, <3>1 DEF Good, Kept
  <2> QED
    BY Zenon, <1>3, <2>1, <2>2
<1>7. RoundsSound(t.round, t.step, t.hvsRound)
  BY DEF Good, RoundsSound, Prevote, NewHeight
<1>8. Good(t)
  BY Zenon, <1>3, <1>4, <1>5, <1>6, <1>7 DEF Good
<1>9. s.round <= t.round
  BY <1>1, Numbers
<1> QED
  BY Zenon, <1>8, <1>9 DEF Leads

\* What a polka for w in round r does to the promises behind the lock: it may
\* be given up, unless it is on w.
LEMMA UnlockKept ==
    ASSUME NEW precommitted, precommitted \subseteq OwnVotes, NEW votes,
           NEW round \in Nat, NEW lr \in Int, NEW lb,
           Kept(precommitted, votes, round, lr, lb),
           NEW r \in Rounds, NEW w \in Values, HasPolka(votes, r, w),
           r <= round, lb # w, lb # None => lr < r
    PROVE  Kept(precommitted, votes, round, -1, None)
<1> SUFFICES ASSUME NEW m \in precommitted, m.value # Nil
             PROVE  PolkaAgainst(votes, m.value, m.round, round)
  BY Zenon DEF Kept
<1>1. m.round \in Int /\ r \in Int /\ m.value \in Values /\ m.value # None
  BY OwnNumbers, BlocksAssumption, MaxRoundAssumption DEF Rounds
<1>2. CASE lb = m.value /\ m.round <= lr
  BY <1>1, <1>2 DEF PolkaAgainst
<1>3. CASE PolkaAgainst(votes, m.value, m.round, round)
  BY Zenon, <1>3
<1> QED
  BY Zenon, <1>2, <1>3 DEF Kept

\* A precommit: for a block with the polka of the round, which it locks, or for
\* nil, which keeps the lock or gives it up on a polka for something else.
LEMMA CastPrecommit ==
    ASSUME NEW s, Good(s), s.round \in Rounds, s.step < Precommit, NEW v \in Values,
           NEW t \in RoundState,
           t.queue = Append(s.queue, VoteMsg("precommit", s.round, v)),
           t.step = Precommit,
           \/ /\ v # Nil /\ v \in ValidBlocks /\ HasPolka(s.prevotes, s.round, v)
              /\ t.lockedRound = s.round /\ t.lockedBlock = v
           \/ /\ v = Nil
              /\ t.lockedRound = s.lockedRound /\ t.lockedBlock = s.lockedBlock
           \/ /\ v = Nil
              /\ \E w \in Values : w # s.lockedBlock /\ HasPolka(s.prevotes, s.round, w)
              /\ t.lockedRound = -1 /\ t.lockedBlock = None,
           t.block \in {None, t.parts},
           t.prevotes = s.prevotes, t.precommits = s.precommits,
           t.round = s.round, t.hvsRound = s.hvsRound, t.sched = s.sched,
           t.validRound = s.validRound, t.validBlock = s.validBlock
    PROVE  Leads(s, t)
<1> DEFINE o == [round |-> s.round, value |-> v]
<1>1. s \in RoundState
  BY Zenon DEF Good
<1>2. o.round = s.round /\ o.value = v
  BY Zenon
<1>3. /\ Ordered(t.queue, t.prevotes, t.precommits)
      /\ Prevoted(t) = Prevoted(s) /\ Precommitted(t) = Precommitted(s) \cup {o}
  <2>1. /\ Ordered(t.queue, s.prevotes, s.precommits)
        /\ Own(s.prevotes, t.queue, "prevote") = Prevoted(s)
        /\ Own(s.precommits, t.queue, "precommit") = With(Precommitted(s), s.round, v)
    BY Zenon, QueuePrecommit
  <2> QED
    BY Zenon, <2>1 DEF Prevoted, Precommitted, With
<1> USE DEF Good
<1>4. /\ Voted(Prevoted(t), Precommitted(t), t.round, t.step)
      /\ \A m \in Precommitted(s) : m.round < s.round
  <2> HIDE DEF o
  <2> QED
    BY <1>1, <1>2, <1>3, OwnNumbers, Numbers DEF Voted, Prevote, Precommit
<1>5. Accepted(Precommitted(t)) /\ Justified(Precommitted(t), t.prevotes)
  <2> HIDE DEF o
  <2> QED
    BY Zenon, <1>2, <1>3 DEF Accepted, Justified
<1>6. Released(Prevoted(t), Precommitted(t), t.prevotes)
  <2> SUFFICES ASSUME NEW m \in Precommitted(t), NEW x \in Prevoted(s),
                      m.value # Nil, m.value # x.value, m.round < x.round
               PROVE  PolkaAgainst(s.prevotes, m.value, m.round, x.round)
    BY Zenon, <1>3 DEF Released
  <2>1. CASE m \in Precommitted(s)
    BY Zenon, <2>1 DEF Released
  <2>2. CASE m = o
    <3>1. x.round < s.round \/ x.round = s.round
      BY Zenon DEF Voted
    <3>2. x.round \in Nat /\ s.round \in Nat /\ m.round = s.round
      BY Zenon, <1>1, <1>2, <2>2, OwnNumbers, Numbers
    <3> HIDE DEF Good
    <3> QED
      BY <3>1, <3>2
  <2> QED
    BY Zenon, <1>3, <2>1, <2>2
<1>7. RoundsSound(t.round, t.step, t.hvsRound)
  BY DEF RoundsSound, Precommit, NewHeight
<1>8. /\ Kept(Precommitted(t), t.prevotes, t.round, t.lockedRound, t.lockedBlock)
      /\ LockSound(t.lockedRound, t.lockedBlock, t.prevotes, Precommitted(t))
  <2>1. CASE /\ v # Nil /\ v \in ValidBlocks /\ HasPolka(s.prevotes, s.round, v)
             /\ t.lockedRound = s.round /\ t.lockedBlock = v
    <3>1. Kept(Precommitted(t), t.prevotes, t.round, t.lockedRound, t.lockedBlock)
      <4> SUFFICES ASSUME NEW m \in Precommitted(t), m.value # Nil, m.value # v
                   PROVE  PolkaAgainst(s.prevotes, m.value, m.round, s.round)
        <5>1. \A m \in Precommitted(t) : m.round <= s.round
          BY <1>1, <1>2, <1>3, <1>4, OwnNumbers, Numbers
        <5> QED
          BY Zenon, <2>1, <5>1 DEF Kept
      <4>1. m \in Precommitted(s)
        BY Zenon, <1>2, <1>3
      <4> QED
        <5>1. m.round < s.round /\ v # m.value /\ s.round <= s.round
          BY <1>1, <1>4, <4>1, Numbers
        <5> QED
          BY Zenon, <2>1, <5>1 DEF PolkaAgainst
    <3>2. LockSound(t.lockedRound, t.lockedBlock, t.prevotes, Precommitted(t))
      <4>1. v # None /\ s.round # -1
        BY <1>1, BlocksAssumption, Numbers
      <4> QED
        BY Zenon, <1>3, <2>1, <4>1 DEF LockSound
    <3> QED
      BY Zenon, <3>1, <3>2
  <2>2. CASE /\ v = Nil
             /\ t.lockedRound = s.lockedRound /\ t.lockedBlock = s.lockedBlock
    <3> HIDE DEF o
    <3> QED
      BY Zenon, <1>2, <1>3, <2>2 DEF Kept, LockSound
  <2>3. CASE /\ v = Nil
             /\ \E w \in Values : w # s.lockedBlock /\ HasPolka(s.prevotes, s.round, w)
             /\ t.lockedRound = -1 /\ t.lockedBlock = None
    <3>1. s.lockedBlock # None => s.lockedRound < s.round
      BY Zenon, <1>4 DEF LockSound
    <3>2. Kept(Precommitted(s), s.prevotes, s.round, -1, None)
      <4>1. PICK w \in Values : w # s.lockedBlock /\ HasPolka(s.prevotes, s.round, w)
        BY Zenon, <2>3
      <4>2. s.round \in Nat /\ s.lockedRound \in Int /\ Precommitted(s) \subseteq OwnVotes
        BY Zenon, <1>1, OwnNumbers, Numbers
      <4>3. s.round <= s.round
        BY <4>2
      <4>4. Kept(Precommitted(s), s.prevotes, s.round, s.lockedRound, s.lockedBlock)
        BY Zenon
      <4> HIDE DEF Good
      <4> QED
        BY <3>1, <4>1, <4>2, <4>3, <4>4, UnlockKept
    <3> HIDE DEF o
    <3> QED
      BY Zenon, <1>2, <1>3, <2>3, <3>2 DEF Kept, LockSound
  <2> QED
    BY Zenon, <2>1, <2>2, <2>3
<1>9. Good(t)
  BY Zenon, <1>3, <1>4, <1>5, <1>6, <1>7, <1>8
<1>10. s.round <= t.round
  BY <1>1, Numbers
<1> HIDE DEF Good
<1> QED
  BY Zenon, <1>9, <1>10 DEF Leads

-----------------------------------------------------------------------------
(* The enter functions *)

\* A handler that changes nothing.
LEMMA Stays ==
    ASSUME NEW s, Good(s)
    PROVE  Leads(s, s) /\ s \in RoundState
<1>1. s \in RoundState
  BY Zenon DEF Good
<1>2. s.round <= s.round
  BY <1>1, Numbers
<1> QED
  BY Zenon, <1>1, <1>2 DEF Leads

\* One handler after another.
LEMMA Then ==
    ASSUME NEW s, NEW t, NEW u, Good(s), Leads(s, t), Leads(t, u)
    PROVE  Leads(s, u)
<1>1. s \in RoundState /\ t \in RoundState /\ u \in RoundState
  BY Zenon DEF Good, Leads
<1>2. s.round <= u.round
  BY <1>1, Numbers DEF Leads
<1> QED
  BY Zenon, <1>2 DEF Leads

\* enterPrevote: the locked block, or a valid proposal block, or nil.
LEMMA EnterPrevoteLeads ==
    ASSUME NEW s, Good(s), s.round \in Rounds
    PROVE  /\ Leads(s, EnterPrevote(s, s.round))
           /\ EnterPrevote(s, s.round).round = s.round
<1> DEFINE t == EnterPrevote(s, s.round)
<1>1. s \in RoundState
  BY Zenon DEF Good
<1>2. CASE Past(s, s.round, Prevote)
  BY Zenon, <1>2, Stays DEF EnterPrevote
<1>3. CASE ~Past(s, s.round, Prevote)
  <2> DEFINE v == IF s.lockedBlock # None THEN s.lockedBlock
                  ELSE IF s.block \in ValidBlocks THEN s.block ELSE Nil
             q == Append(s.queue, VoteMsg("prevote", s.round, v))
  <2>1. s.step < Prevote
    BY <1>1, <1>3, Numbers DEF Past, Prevote
  <2>2. /\ v \in Values
        /\ s.lockedBlock # None => v = s.lockedBlock
        /\ v # Nil => v \in ValidBlocks
    BY Zenon, <1>1, BlocksAssumption DEF Good, RoundState, Values, LockSound
  <2>3. t = [s EXCEPT !.queue = q, !.round = s.round, !.step = Prevote]
    BY Zenon, <1>1, <1>3 DEF EnterPrevote, AtStep, DoPrevote, SignAddVote, Send, VoteMsg, RoundState
  <2> HIDE DEF v, t
  <2>4. q \in Seq(Messages)
    BY Zenon, <2>1, <2>2, QueuePrevote
  <2> HIDE DEF q
  <2>5. t \in RoundState
    BY ZenonT(40), <1>1, <2>3, <2>4, StepsOrdered DEF RoundState
  <2>6. /\ t.queue = q /\ t.step = Prevote
        /\ t.prevotes = s.prevotes /\ t.precommits = s.precommits
        /\ t.lockedRound = s.lockedRound /\ t.lockedBlock = s.lockedBlock
        /\ t.round = s.round /\ t.block = s.block /\ t.parts = s.parts
        /\ t.hvsRound = s.hvsRound /\ t.sched = s.sched
        /\ t.validRound = s.validRound /\ t.validBlock = s.validBlock
    BY Zenon, <1>1, <2>3 DEF RoundState
  <2>7. Leads(s, t)
    BY Zenon, <2>1, <2>2, <2>5, <2>6, CastPrevote DEF q
  <2> QED
    BY Zenon, <2>6, <2>7 DEF t
<1> QED
  BY Zenon, <1>2, <1>3

\* Proposals and parts in the own queue are no votes.
LEMMA SendLeads ==
    ASSUME NEW s, Good(s), NEW m \in Messages, m.kind # "vote"
    PROVE  LET t == Send(s, m)
           IN  /\ Leads(s, t) /\ t \in RoundState
               /\ t.round = s.round /\ t.step = s.step /\ t.proposal = s.proposal
               /\ t.validRound = s.validRound /\ t.validBlock = s.validBlock
               /\ t.hvsRound = s.hvsRound
<1> DEFINE t == Send(s, m)
           q == Append(s.queue, m)
<1>1. s \in RoundState /\ s.queue \in Seq(Messages)
  BY Zenon DEF Good, RoundState
<1>2. m \notin VoteMsgs
  BY Zenon DEF VoteMsgs
<1>3. q \in Seq(Messages)
  BY <1>1
<1>4. /\ Ordered(q, s.prevotes, s.precommits)
      /\ Own(s.prevotes, q, "prevote") = Own(s.prevotes, s.queue, "prevote")
      /\ Own(s.precommits, q, "precommit") = Own(s.precommits, s.queue, "precommit")
  BY Zenon, <1>1, <1>2, QueueOther DEF Good, VoteTypes
<1>5. t = [s EXCEPT !.queue = q]
  BY Zenon DEF Send
<1> HIDE DEF t, q
<1>6. /\ t \in RoundState /\ t.queue = q
      /\ t.prevotes = s.prevotes /\ t.precommits = s.precommits
      /\ t.lockedRound = s.lockedRound /\ t.lockedBlock = s.lockedBlock
      /\ t.round = s.round /\ t.step = s.step /\ t.block = s.block /\ t.parts = s.parts
      /\ t.proposal = s.proposal
      /\ t.hvsRound = s.hvsRound /\ t.sched = s.sched
      /\ t.validRound = s.validRound /\ t.validBlock = s.validBlock
  BY Zenon, <1>1, <1>3, <1>5 DEF RoundState
<1>7. Good(t)
  BY Zenon, <1>4, <1>6 DEF Good, Prevoted, Precommitted
<1>8. s.round <= t.round
  BY <1>1, <1>6, Numbers
<1> QED
  BY Zenon, <1>6, <1>7, <1>8 DEF Leads, t

\* defaultDecideProposal queues a proposal and its part, and no vote.
LEMMA DecideProposalLeads ==
    ASSUME NEW s, Good(s)
    PROVE  LET t == DecideProposal(s, s.round)
           IN  /\ Leads(s, t) /\ t \in RoundState
               /\ t.round = s.round /\ t.step = s.step /\ t.proposal = s.proposal
               /\ t.hvsRound = s.hvsRound
<1> DEFINE b == IF s.validBlock # None THEN s.validBlock ELSE OwnBlock
           m1 == [kind |-> "proposal", round |-> s.round, pol |-> s.validRound, block |-> b]
           m2 == [kind |-> "part", block |-> b]
           u == Send(s, m1)
           t == Send(u, m2)
<1>1. s \in RoundState
  BY Zenon DEF Good
<1>2. b \in Blocks
  BY Zenon, <1>1, MeAssumption, BlocksAssumption DEF RoundState
<1>3. s.round \in 0..(MaxRound + 1) /\ s.validRound \in -1..MaxRound
  BY Zenon, <1>1 DEF RoundState
<1>4. t = DecideProposal(s, s.round)
  BY Zenon DEF DecideProposal
<1> HIDE DEF b
<1>5. m1 \in Messages /\ m1.kind # "vote" /\ m2 \in Messages /\ m2.kind # "vote"
  BY Zenon, <1>2, <1>3 DEF Messages
<1> HIDE DEF m1, m2, t, u
<1>6. /\ Leads(s, u) /\ u.round = s.round /\ u.step = s.step /\ u.proposal = s.proposal
      /\ u.hvsRound = s.hvsRound
  BY Zenon, <1>5, SendLeads DEF u
<1>7. Good(u)
  BY Zenon, <1>6 DEF Leads
<1>8. /\ Leads(u, t) /\ t.round = u.round /\ t.step = u.step /\ t.proposal = u.proposal
      /\ t.hvsRound = u.hvsRound /\ t \in RoundState
  BY Zenon, <1>5, <1>7, SendLeads DEF t
<1>9. Leads(s, t)
  BY Zenon, <1>6, <1>8, Then
<1> QED
  BY Zenon, <1>4, <1>6, <1>8, <1>9

\* updateRoundStep, within the round.
LEMMA AtStepLeads ==
    ASSUME NEW s, Good(s), NEW step \in NewHeight..Commit, step # NewHeight,
           s.step <= step \/ Precommit <= step
    PROVE  LET t == AtStep(s, s.round, step)
           IN  /\ Leads(s, t) /\ t \in RoundState
               /\ t.round = s.round /\ t.step = step /\ t.proposal = s.proposal
               /\ t.hvsRound = s.hvsRound /\ t.block = s.block /\ t.parts = s.parts
               /\ t.commitRound = s.commitRound
<1> DEFINE t == AtStep(s, s.round, step)
<1>1. s \in RoundState
  BY Zenon DEF Good
<1>2. /\ t \in RoundState
      /\ t.queue = s.queue /\ t.prevotes = s.prevotes /\ t.precommits = s.precommits
      /\ t.lockedRound = s.lockedRound /\ t.lockedBlock = s.lockedBlock
      /\ t.round = s.round /\ t.step = step /\ t.block = s.block /\ t.parts = s.parts
      /\ t.hvsRound = s.hvsRound /\ t.sched = s.sched /\ t.proposal = s.proposal
      /\ t.validRound = s.validRound /\ t.validBlock = s.validBlock
      /\ t.commitRound = s.commitRound
  BY Zenon, <1>1 DEF AtStep, RoundState
<1> HIDE DEF t
<1>3. RoundsSound(t.round, t.step, t.hvsRound)
  BY Zenon, <1>2 DEF Good, RoundsSound
<1>4. Leads(s, t)
  BY Zenon, <1>2, <1>3, Quiet DEF Good
<1> QED
  BY Zenon, <1>2, <1>4 DEF t

\* enterPropose, with the enterPrevote that may follow it.
LEMMA EnterProposeLeads ==
    ASSUME NEW s, Good(s), s.round \in Rounds \/ s.proposal = None
    PROVE  /\ Leads(s, EnterPropose(s, s.round))
           /\ EnterPropose(s, s.round).round = s.round
<1> DEFINE s1 == ScheduleTimeout(s, s.round, Propose)
           d == IF Proposer[s.round] = Me THEN DecideProposal(s1, s.round) ELSE s1
           s2 == AtStep(d, s.round, Propose)
           t == IF IsProposalComplete(s2) THEN EnterPrevote(s2, s.round) ELSE s2
<1>1. s \in RoundState
  BY Zenon DEF Good
<1>2. CASE Past(s, s.round, Propose)
  BY Zenon, <1>2, Stays DEF EnterPropose
<1>3. CASE ~Past(s, s.round, Propose)
  <2>1. s.step <= Propose
    BY <1>1, <1>3, Numbers, StepsOrdered DEF Past
  <2>2. Leads(s, s1) /\ s1 = [s EXCEPT !.sched = s1.sched]
    <3>1. Propose # NewRound
      BY DEF Propose, NewRound
    <3> QED
      BY Zenon, <3>1, Scheduled
  <2> HIDE DEF s1
  <2>3. s1.round = s.round /\ s1.step = s.step /\ s1.proposal = s.proposal
    BY Zenon, <1>1, <2>2 DEF RoundState
  <2>4. Good(s1)
    BY Zenon, <2>2 DEF Leads
  <2>5. Leads(s1, d) /\ d.round = s.round /\ d.step = s.step /\ d.proposal = s.proposal
    BY Zenon, <2>3, <2>4, DecideProposalLeads, Stays
  <2> HIDE DEF d
  <2>6. Good(d)
    BY Zenon, <2>5 DEF Leads
  <2>7. Leads(d, s2) /\ s2.round = s.round /\ s2.proposal = s.proposal
    BY <2>1, <2>5, <2>6, AtStepLeads, StepsOrdered DEF NewHeight, Propose
  <2> HIDE DEF s2
  <2>8. Good(s2)
    BY Zenon, <2>7 DEF Leads
  <2>9. Leads(s2, t) /\ t.round = s.round
    <3>1. CASE IsProposalComplete(s2)
      <4>1. s2.round \in Rounds
        BY Zenon, <2>7, <3>1 DEF IsProposalComplete
      <4> QED
        BY Zenon, <2>7, <2>8, <3>1, <4>1, EnterPrevoteLeads
    <3>2. CASE ~IsProposalComplete(s2)
      BY Zenon, <2>7, <2>8, <3>2, Stays
    <3> QED
      BY Zenon, <3>1, <3>2
  <2> HIDE DEF t
  <2>10. Leads(s, t)
    BY Zenon, <2>2, <2>4, <2>5, <2>6, <2>7, <2>8, <2>9, Then
  <2>11. t = EnterPropose(s, s.round)
    BY Zenon, <1>3 DEF t, s2, d, s1, EnterPropose
  <2> QED
    BY Zenon, <2>9, <2>10, <2>11
<1> QED
  BY Zenon, <1>2, <1>3

\* SetRound does not panic: the tracked rounds are never ahead of a new round.
LEMMA EnterNewRoundLeads ==
    ASSUME NEW s, Good(s), NEW r \in 0..(MaxRound + 1)
    PROVE  /\ Leads(s, EnterNewRound(s, r))
           /\ EnterNewRound(s, r).round = IF r < s.round THEN s.round ELSE r
<1>1. s \in RoundState /\ s.round \in Nat /\ r \in Nat /\ s.hvsRound \in Nat
  BY MaxRoundAssumption, Numbers DEF Good
<1>2. CASE r < s.round \/ (r = s.round /\ s.step # NewHeight)
  BY Zenon, <1>1, <1>2, Stays DEF EnterNewRound
<1>3. CASE ~(r < s.round \/ (r = s.round /\ s.step # NewHeight))
  <2> DEFINE s1 == AtStep(s, r, NewRound)
             s2 == IF r = 0 THEN s1
                   ELSE [s1 EXCEPT !.proposal = None, !.block = None, !.parts = None]
             s3 == [s2 EXCEPT !.hvsRound = r + 1, !.triggered = FALSE]
             t == IF ~(WaitForTxs /\ r = 0) THEN EnterPropose(s3, r)
                  ELSE IF EmptyBlocksInterval THEN ScheduleTimeout(s3, r, NewRound) ELSE s3
  <2>1. ~(s.hvsRound # 0 /\ r + 1 < s.hvsRound + 1)
    BY <1>1, <1>3 DEF Good, RoundsSound
  <2>2. s.round < r \/ (s.round = r /\ s.step = NewHeight)
    BY <1>1, <1>3
  <2>3. t = EnterNewRound(s, r)
    BY Zenon, <1>3, <2>1 DEF EnterNewRound
  <2>4. /\ s1 \in RoundState
        /\ s1.queue = s.queue /\ s1.prevotes = s.prevotes /\ s1.precommits = s.precommits
        /\ s1.lockedRound = s.lockedRound /\ s1.lockedBlock = s.lockedBlock
        /\ s1.round = r /\ s1.step = NewRound /\ s1.block = s.block /\ s1.parts = s.parts
        /\ s1.sched = s.sched
        /\ s1.validRound = s.validRound /\ s1.validBlock = s.validBlock
    BY ZenonT(40), <1>1, StepsOrdered DEF AtStep, RoundState
  <2> HIDE DEF s1
  <2>5. /\ s2 \in RoundState
        /\ s2.queue = s1.queue /\ s2.prevotes = s1.prevotes /\ s2.precommits = s1.precommits
        /\ s2.lockedRound = s1.lockedRound /\ s2.lockedBlock = s1.lockedBlock
        /\ s2.round = s1.round /\ s2.step = s1.step /\ s2.sched = s1.sched
        /\ s2.validRound = s1.validRound /\ s2.validBlock = s1.validBlock
        /\ s2.block \in {None, s2.parts}
        /\ r # 0 => s2.proposal = None
    <3>1. s.block \in {None, s.parts}
      BY Zenon DEF Good
    <3>2. CASE r = 0
      BY Zenon, <2>4, <3>1, <3>2
    <3>3. CASE r # 0
      <4>1. s2 = [s1 EXCEPT !.proposal = None, !.block = None, !.parts = None]
        BY Zenon, <3>3
      <4> HIDE DEF s2
      <4> QED
        BY ZenonT(40), <2>4, <4>1 DEF RoundState
    <3> QED
      BY Zenon, <3>2, <3>3
  <2> HIDE DEF s2
  <2>6. r + 1 \in 0..(MaxRound + 2)
    BY MaxRoundAssumption
  <2>7. /\ s3 \in RoundState
        /\ s3.queue = s2.queue /\ s3.prevotes = s2.prevotes /\ s3.precommits = s2.precommits
        /\ s3.lockedRound = s2.lockedRound /\ s3.lockedBlock = s2.lockedBlock
        /\ s3.round = s2.round /\ s3.step = s2.step /\ s3.sched = s2.sched
        /\ s3.validRound = s2.validRound /\ s3.validBlock = s2.validBlock
        /\ s3.block = s2.block /\ s3.parts = s2.parts /\ s3.proposal = s2.proposal
        /\ s3.hvsRound = r + 1
    BY ZenonT(40), <2>5, <2>6 DEF RoundState
  <2> HIDE DEF s3
  <2>a. /\ s3.queue = s.queue /\ s3.prevotes = s.prevotes /\ s3.precommits = s.precommits
        /\ s3.lockedRound = s.lockedRound /\ s3.lockedBlock = s.lockedBlock
        /\ s3.round = r /\ s3.step = NewRound /\ s3.sched = s.sched
        /\ s3.validRound = s.validRound /\ s3.validBlock = s.validBlock
        /\ s3.block \in {None, s3.parts}
    BY Zenon, <2>4, <2>5, <2>7
  <2>8. RoundsSound(s3.round, s3.step, s3.hvsRound)
    <3>1. NewRound # NewHeight
      BY StepsOrdered
    <3> QED
      BY Zenon, <2>7, <2>a, <3>1 DEF RoundsSound
  <2>9. TickSound(s3.sched, s3.round)
    <3>1. s.sched.round \in Int
      BY <1>1, MaxRoundAssumption DEF RoundState, Ticks
    <3> QED
      BY <1>1, <2>2, <2>a, <3>1 DEF Good, TickSound
  <2>10. s.round < s3.round \/ (s.round = s3.round /\ s.step <= s3.step)
    <3>1. NewHeight <= NewRound
      BY StepsOrdered
    <3> QED
      BY Zenon, <2>2, <2>a, <3>1
  <2>11. Leads(s, s3) /\ Good(s3)
    <3>1. ValidSound(s3.validRound, s3.validBlock, s3.prevotes)
      BY Zenon, <2>a DEF Good
    <3> QED
      BY Zenon, <2>7, <2>a, <2>8, <2>9, <2>10, <3>1, Quiet
  <2>12. Leads(s3, t) /\ t.round = r
    <3>1. s3.round = r
      BY Zenon, <2>4, <2>5, <2>7
    <3>2. CASE ~(WaitForTxs /\ r = 0)
      <4>1. r \in Rounds \/ s3.proposal = None
        BY MaxRoundAssumption, <2>5, <2>7 DEF Rounds
      <4> QED
        BY Zenon, <2>11, <3>1, <3>2, <4>1, EnterProposeLeads
    <3>3. CASE WaitForTxs /\ r = 0
      <4>1. Leads(s3, ScheduleTimeout(s3, r, NewRound))
        BY Zenon, <2>11, <3>1, <3>3, Scheduled
      <4>2. ScheduleTimeout(s3, r, NewRound).round = r
        BY Zenon, <2>7, <3>1 DEF ScheduleTimeout, RoundState
      <4> QED
        BY Zenon, <2>11, <3>1, <3>3, <4>1, <4>2, Stays
    <3> QED
      BY Zenon, <3>2, <3>3
  <2> HIDE DEF t
  <2>13. Leads(s, t)
    BY Zenon, <2>11, <2>12, Then
  <2> QED
    BY Zenon, <1>1, <1>3, <2>3, <2>12, <2>13
<1> QED
  BY Zenon, <1>2, <1>3

\* enterPrevoteWait: the node has +2/3 prevotes, so its assertion holds.
LEMMA EnterPrevoteWaitLeads ==
    ASSUME NEW s, Good(s), HasTwoThirdsAny(s.prevotes, s.round)
    PROVE  Leads(s, EnterPrevoteWait(s, s.round))
<1> DEFINE s1 == ScheduleTimeout(s, s.round, PrevoteWait)
           t == AtStep(s1, s.round, PrevoteWait)
<1>1. s \in RoundState
  BY Zenon DEF Good
<1>2. CASE Past(s, s.round, PrevoteWait)
  BY Zenon, <1>2, Stays DEF EnterPrevoteWait
<1>3. CASE ~Past(s, s.round, PrevoteWait)
  <2>1. s.step <= PrevoteWait
    BY <1>1, <1>3, Numbers, StepsOrdered DEF Past
  <2>2. Leads(s, s1) /\ s1 = [s EXCEPT !.sched = s1.sched]
    <3>1. PrevoteWait # NewRound
      BY DEF PrevoteWait, NewRound
    <3> QED
      BY Zenon, <3>1, Scheduled
  <2> HIDE DEF s1
  <2>3. s1.round = s.round /\ s1.step = s.step /\ Good(s1)
    BY Zenon, <1>1, <2>2 DEF RoundState, Leads
  <2>4. Leads(s1, t)
    BY <2>1, <2>3, AtStepLeads, StepsOrdered DEF NewHeight, PrevoteWait
  <2>5. t = EnterPrevoteWait(s, s.round)
    BY Zenon, <1>3 DEF s1, EnterPrevoteWait
  <2> QED
    BY Zenon, <2>2, <2>3, <2>4, <2>5, Then
<1> QED
  BY Zenon, <1>2, <1>3

\* A block that ValidateBlock rejects gets no quorum: not this node's vote, and
\* not enough of the others'.
LEMMA PolkaIsValid ==
    ASSUME NEW votes \in SUBSET Votes, NEW queue, NEW type \in VoteTypes,
           VotesSound(votes, type), Accepted(Own(votes, queue, type)),
           NEW r \in Rounds, NEW v \in Blocks, HasPolka(votes, r, v)
    PROVE  v \in ValidBlocks
<1> SUFFICES ASSUME v \notin ValidBlocks PROVE FALSE
  BY Zenon
<1> DEFINE peers == {p \in Validators : [kind |-> "vote", type |-> type, round |-> r,
                                         val |-> p, value |-> v] \in PeerVotes}
<1>1. peers \notin Quorum
  BY Zenon, PeerVotesAssumption
<1>2. VotersFor(votes, r, v) \subseteq peers
  <2> SUFFICES ASSUME NEW p \in Validators, Vote(p, r, v) \in votes
               PROVE  [kind |-> "vote", type |-> type, round |-> r,
                       val |-> p, value |-> v] \in PeerVotes
    BY Zenon DEF VotersFor
  <2>1. Vote(p, r, v).val = p /\ Vote(p, r, v).round = r /\ Vote(p, r, v).value = v
    BY Zenon DEF Vote
  <2>2. p # Me
    <3> SUFFICES ASSUME p = Me PROVE FALSE
      BY Zenon
    <3> DEFINE o == [round |-> r, value |-> v]
    <3>1. o \in OwnVotes /\ o.round = r /\ o.value = v
      BY Zenon DEF OwnVotes, Values
    <3>2. o \in Own(votes, queue, type)
      BY Zenon, <3>1 DEF Own
    <3>3. v # Nil
      BY Zenon, BlocksAssumption
    <3> QED
      BY Zenon, <3>1, <3>2, <3>3 DEF Accepted
  <2> QED
    BY Zenon, <2>1, <2>2 DEF VotesSound
<1>3. peers \in Quorum
  BY Zenon, <1>2, QuorumAssumption DEF HasPolka
<1> QED
  BY Zenon, <1>1, <1>3

\* POLInfo covers the current round.
LEMMA POLCovers ==
    ASSUME NEW s, Good(s), s.round \in Rounds, TwoThirdsMajority(s.prevotes, s.round) # None
    PROVE  ~(POLRound(s) < s.round)
<1> DEFINE S == {-1} \cup {r \in Rounds : r <= s.hvsRound /\ TwoThirdsMajority(s.prevotes, r) # None}
<1>1. s.round \in Nat /\ s.hvsRound \in Nat /\ s.round <= s.hvsRound
  BY Numbers DEF Good, RoundsSound
<1>2. s.round \in S
  BY Zenon, <1>1
<1>3. S \in SUBSET (-1..MaxRound) /\ S # {}
  BY MaxRoundAssumption DEF Rounds
<1> HIDE DEF S
<1>4. Latest(S) \in S /\ \A x \in S : x <= Latest(S)
  BY Zenon, <1>3, LatestExists, MaxRoundAssumption
<1>5. Latest(S) \in -1..MaxRound
  BY Zenon, <1>3, <1>4
<1>6. Latest(S) \in Int
  BY <1>5, MaxRoundAssumption
<1>7. POLRound(s) = Latest(S)
  BY Zenon DEF POLRound, S
<1>8. s.round <= Latest(S)
  BY Zenon, <1>2, <1>4
<1> QED
  BY <1>1, <1>6, <1>7, <1>8

\* enterPrecommit, for the polka maj of the round or for none.
LEMMA EnterPrecommitLeads ==
    ASSUME NEW s, Good(s), s.round \in Rounds
    PROVE  /\ Leads(s, EnterPrecommit(s, s.round))
           /\ EnterPrecommit(s, s.round).round = s.round
<1> DEFINE t == EnterPrecommit(s, s.round)
           maj == TwoThirdsMajority(s.prevotes, s.round)
<1>1. s \in RoundState
  BY Zenon DEF Good
<1>2. CASE Past(s, s.round, Precommit)
  BY Zenon, <1>2, Stays DEF EnterPrecommit
<1>3. CASE ~Past(s, s.round, Precommit)
  <2>1. s.step < Precommit
    BY <1>1, <1>3, Numbers DEF Past, Precommit
  <2>2. maj # None => maj \in Values /\ HasPolka(s.prevotes, s.round, maj)
    BY ZenonT(40), <1>1, MajorityIsPolka DEF Good, RoundState
  <2>3. maj \in Blocks => maj \in ValidBlocks
    <3>1. "prevote" \in VoteTypes
      BY Zenon DEF VoteTypes
    <3>2. s.prevotes \in SUBSET Votes
      BY Zenon, <1>1 DEF RoundState
    <3> QED
      BY Zenon, <2>2, <3>1, <3>2, PolkaIsValid, BlocksAssumption DEF Good, Prevoted, Values
  <2>4. maj # None => ~(POLRound(s) < s.round)
    BY Zenon, POLCovers
  <2> DEFINE Cast(v, lr, lb, bl, pa) ==
               [s EXCEPT !.queue = Append(s.queue, VoteMsg("precommit", s.round, v)),
                         !.round = s.round, !.step = Precommit,
                         !.lockedRound = lr, !.lockedBlock = lb, !.block = bl, !.parts = pa]
  <2>5. \E v \in Values, lr \in -1..MaxRound, lb \in Blocks \cup {None},
           bl \in Blocks \cup {None}, pa \in Blocks \cup {None} :
          /\ t = Cast(v, lr, lb, bl, pa)
          /\ \/ /\ v # Nil /\ v \in ValidBlocks /\ HasPolka(s.prevotes, s.round, v)
                /\ lr = s.round /\ lb = v
             \/ v = Nil /\ lr = s.lockedRound /\ lb = s.lockedBlock
             \/ /\ v = Nil
                /\ \E w \in Values : w # s.lockedBlock /\ HasPolka(s.prevotes, s.round, w)
                /\ lr = -1 /\ lb = None
          /\ bl \in {None, pa}
    <3> DEFINE rest == AtStep(LockAndVote(s, s.round, maj), s.round, Precommit)
    <3>1. CASE maj = None
      <4>1. t = AtStep(SignAddVote(s, "precommit", Nil), s.round, Precommit)
        BY Zenon, <1>3, <3>1 DEF EnterPrecommit
      <4>2. t = Cast(Nil, s.lockedRound, s.lockedBlock, s.block, s.parts)
        BY ZenonT(40), <1>1, <4>1 DEF AtStep, SignAddVote, Send, VoteMsg, RoundState
      <4> HIDE DEF t, Cast
      <4> QED
        BY ZenonT(40), <1>1, <4>2 DEF RoundState, Values, Good
    <3>2. CASE maj # None
      <4>1. t = rest
        BY Zenon, <1>3, <2>4, <3>2 DEF EnterPrecommit
      <4>2. s.round \in -1..MaxRound /\ -1 \in -1..MaxRound
        BY MaxRoundAssumption DEF Rounds
      <4>3. s.block \in {None, s.parts} /\ s.block \in Blocks \cup {None}
            /\ s.parts \in Blocks \cup {None} /\ s.lockedBlock \in Blocks \cup {None}
        BY Zenon, <1>1 DEF Good, RoundState
      <4>4. CASE maj = Nil
        <5>1. t = Cast(Nil, -1, None, s.block, s.parts)
          BY ZenonT(40), <1>1, <4>1, <4>4 DEF LockAndVote, Unlock, AtStep, SignAddVote, Send, VoteMsg, RoundState
        <5>2. maj # s.lockedBlock
          BY Zenon, <3>2, <4>3, <4>4, BlocksAssumption
        <5> HIDE DEF t, Cast, maj
        <5> QED
          BY Zenon, <2>2, <3>2, <4>2, <4>3, <4>4, <5>1, <5>2
      <4>5. CASE maj # Nil /\ s.lockedBlock = maj
        <5> HIDE DEF maj
        <5>1. t = Cast(maj, s.round, maj, s.block, s.parts)
          <6>1. t = AtStep(SignAddVote([s EXCEPT !.lockedRound = s.round], "precommit", maj),
                           s.round, Precommit)
            BY Zenon, <4>1, <4>5 DEF LockAndVote
          <6>2. t = [s EXCEPT !.queue = Append(s.queue, VoteMsg("precommit", s.round, maj)),
                              !.round = s.round, !.step = Precommit, !.lockedRound = s.round]
            BY Zenon, <1>1, <6>1 DEF AtStep, SignAddVote, Send, VoteMsg, RoundState
          <6> HIDE DEF t
          <6> QED
            BY Zenon, <1>1, <4>5, <6>2 DEF RoundState
        <5> HIDE DEF t, Cast
        <5> QED
          BY Zenon, <2>2, <2>3, <3>2, <4>2, <4>3, <4>5, <5>1 DEF Values
      <4>6. CASE maj # Nil /\ s.lockedBlock # maj /\ s.block = maj
        <5>1. maj \in ValidBlocks
          BY Zenon, <2>2, <2>3, <3>2, <4>6 DEF Values
        <5>2. t = Cast(maj, s.round, maj, s.block, s.parts)
          BY ZenonT(40), <1>1, <4>1, <4>6, <5>1 DEF LockAndVote, AtStep, SignAddVote, Send, VoteMsg, RoundState
        <5> HIDE DEF t, Cast, maj
        <5> QED
          BY Zenon, <2>2, <3>2, <4>2, <4>3, <4>6, <5>1, <5>2 DEF Values
      <4>7. CASE maj # Nil /\ s.lockedBlock # maj /\ s.block # maj
        <5> DEFINE bl == IF s.parts = maj THEN s.block ELSE None
        <5>1. t = Cast(Nil, -1, None, bl, maj)
          <6> HIDE DEF maj
          <6> DEFINE u == [s EXCEPT !.lockedRound = -1, !.lockedBlock = None, !.block = bl, !.parts = maj]
          <6>1. ExpectParts(Unlock(s), maj) = u
            BY Zenon, <1>1 DEF ExpectParts, Unlock, RoundState
          <6>2. t = AtStep(SignAddVote(u, "precommit", Nil), s.round, Precommit)
            BY Zenon, <4>1, <4>7, <6>1 DEF LockAndVote
          <6> HIDE DEF bl, t
          <6> QED
            BY ZenonT(40), <1>1, <6>2 DEF AtStep, SignAddVote, Send, VoteMsg, RoundState
        <5>2. bl \in {None, maj} /\ bl \in Blocks \cup {None} /\ maj \in Blocks \cup {None}
          BY Zenon, <2>2, <3>2, <4>3, <4>7 DEF Values
        <5> HIDE DEF t, Cast, maj, bl
        <5> QED
          BY Zenon, <2>2, <3>2, <4>2, <4>7, <5>1, <5>2 DEF Values
      <4> QED
        BY Zenon, <4>4, <4>5, <4>6, <4>7
    <3> QED
      BY ZenonT(40), <3>1, <3>2
  <2> HIDE DEF t, maj
  <2>6. PICK v \in Values, lr \in -1..MaxRound, lb \in Blocks \cup {None},
             bl \in Blocks \cup {None}, pa \in Blocks \cup {None} :
          /\ t = Cast(v, lr, lb, bl, pa)
          /\ \/ /\ v # Nil /\ v \in ValidBlocks /\ HasPolka(s.prevotes, s.round, v)
                /\ lr = s.round /\ lb = v
             \/ v = Nil /\ lr = s.lockedRound /\ lb = s.lockedBlock
             \/ /\ v = Nil
                /\ \E w \in Values : w # s.lockedBlock /\ HasPolka(s.prevotes, s.round, w)
                /\ lr = -1 /\ lb = None
          /\ bl \in {None, pa}
    BY Zenon, <2>5
  <2> DEFINE q == Append(s.queue, VoteMsg("precommit", s.round, v))
  <2>7. q \in Seq(Messages)
    BY Zenon, <2>1, QueuePrecommit
  <2> HIDE DEF q
  <2>8. t = [s EXCEPT !.queue = q, !.round = s.round, !.step = Precommit,
                      !.lockedRound = lr, !.lockedBlock = lb, !.block = bl, !.parts = pa]
    BY Zenon, <2>6 DEF q
  <2>9. /\ t \in RoundState
        /\ t.queue = q /\ t.step = Precommit
        /\ t.prevotes = s.prevotes /\ t.precommits = s.precommits
        /\ t.lockedRound = lr /\ t.lockedBlock = lb
        /\ t.round = s.round /\ t.block = bl /\ t.parts = pa
        /\ t.hvsRound = s.hvsRound /\ t.sched = s.sched
        /\ t.validRound = s.validRound /\ t.validBlock = s.validBlock
    BY ZenonT(40), <1>1, <2>7, <2>8, StepsOrdered DEF RoundState
  <2>10. Leads(s, t)
    <3> HIDE DEF Cast
    <3> QED
      BY <2>1, <2>6, <2>9, CastPrecommit DEF q
  <2> QED
    BY Zenon, <2>9, <2>10 DEF t
<1> QED
  BY Zenon, <1>2, <1>3

\* A round state that differs from a good one in fields that promise nothing.
LEMMA SetFields ==
    ASSUME NEW s, Good(s), NEW t \in RoundState,
           t.queue = s.queue, t.prevotes = s.prevotes, t.precommits = s.precommits,
           t.lockedRound = s.lockedRound, t.lockedBlock = s.lockedBlock,
           t.round = s.round, t.step = s.step, t.hvsRound = s.hvsRound, t.sched = s.sched,
           t.block \in {None, t.parts},
           ValidSound(t.validRound, t.validBlock, t.prevotes)
    PROVE  Leads(s, t) /\ Good(t)
<1>1. s.step <= t.step
  BY Numbers
<1> QED
  BY Zenon, <1>1, Quiet DEF Good

\* enterPrecommitWait: the node has +2/3 precommits, so its assertion holds.
LEMMA EnterPrecommitWaitLeads ==
    ASSUME NEW s, Good(s), NEW r \in Rounds, r <= s.round,
           HasTwoThirdsAny(s.precommits, r)
    PROVE  Leads(s, EnterPrecommitWait(s, r))
<1> DEFINE s1 == ScheduleTimeout(s, s.round, PrecommitWait)
           s2 == AtStep(s1, s.round, PrecommitWait)
           t == [s2 EXCEPT !.triggered = TRUE]
<1>1. s \in RoundState /\ s.round \in Int /\ r \in Int
  BY Numbers, MaxRoundAssumption DEF Good, Rounds
<1>2. CASE r < s.round \/ (r = s.round /\ s.triggered)
  BY Zenon, <1>2, Stays DEF EnterPrecommitWait
<1>3. CASE ~(r < s.round \/ (r = s.round /\ s.triggered))
  <2>1. r = s.round
    BY <1>1, <1>3
  <2>2. Leads(s, s1) /\ s1 = [s EXCEPT !.sched = s1.sched]
    <3>1. PrecommitWait # NewRound
      BY DEF PrecommitWait, NewRound
    <3> QED
      BY Zenon, <3>1, Scheduled
  <2> HIDE DEF s1
  <2>3. s1.round = s.round /\ Good(s1)
    BY Zenon, <1>1, <2>2 DEF RoundState, Leads
  <2>4. Leads(s1, s2) /\ s2 \in RoundState
    BY <2>3, AtStepLeads, StepsOrdered DEF NewHeight, PrecommitWait, Precommit
  <2> HIDE DEF s2
  <2>5. Good(s2)
    BY Zenon, <2>4 DEF Leads
  <2>6. /\ t \in RoundState
        /\ t.queue = s2.queue /\ t.prevotes = s2.prevotes /\ t.precommits = s2.precommits
        /\ t.lockedRound = s2.lockedRound /\ t.lockedBlock = s2.lockedBlock
        /\ t.round = s2.round /\ t.step = s2.step /\ t.hvsRound = s2.hvsRound /\ t.sched = s2.sched
        /\ t.block = s2.block /\ t.parts = s2.parts
        /\ t.validRound = s2.validRound /\ t.validBlock = s2.validBlock
    BY ZenonT(40), <2>4 DEF RoundState
  <2> HIDE DEF t
  <2>7. Leads(s2, t)
    BY Zenon, <2>5, <2>6, SetFields DEF Good
  <2>8. t = EnterPrecommitWait(s, r)
    BY Zenon, <1>3, <2>1 DEF t, s2, s1, EnterPrecommitWait
  <2> QED
    BY Zenon, <2>2, <2>3, <2>4, <2>5, <2>7, <2>8, Then
<1> QED
  BY Zenon, <1>2, <1>3

\* The majority of the precommits of a round.
LEMMA CommitMajority ==
    ASSUME NEW s, Good(s), NEW r \in Rounds,
           TwoThirdsMajority(s.precommits, r) \notin {None, Nil}
    PROVE  /\ TwoThirdsMajority(s.precommits, r) \in ValidBlocks
           /\ TwoThirdsMajority(s.precommits, r) \in Blocks
<1> DEFINE maj == TwoThirdsMajority(s.precommits, r)
<1>1. s.precommits \in SUBSET Votes /\ "precommit" \in VoteTypes
  BY Zenon DEF Good, RoundState, VoteTypes
<1>2. maj \in Blocks /\ HasPolka(s.precommits, r, maj)
  BY Zenon, <1>1, MajorityIsPolka DEF Good, Values
<1> HIDE DEF maj
<1>3. maj \in ValidBlocks
  BY Zenon, <1>1, <1>2, PolkaIsValid DEF Good, Precommitted
<1> QED
  BY Zenon, <1>2, <1>3 DEF maj

\* finalizeCommit finds the parts of the block and a valid block.
LEMMA TryFinalizeCommitLeads ==
    ASSUME NEW s, Good(s)
    PROVE  Leads(s, TryFinalizeCommit(s))
<1> DEFINE maj == IF s.commitRound < 0 THEN None
                  ELSE TwoThirdsMajority(s.precommits, s.commitRound)
           t == [s EXCEPT !.status = "decided"]
<1>1. s \in RoundState
  BY Zenon DEF Good
<1>2. CASE maj \in {None, Nil} \/ s.block # maj \/ s.step # Commit
  BY Zenon, <1>2, Stays DEF TryFinalizeCommit
<1>3. CASE ~(maj \in {None, Nil} \/ s.block # maj \/ s.step # Commit)
  <2>1. s.commitRound \in Rounds
    <3>1. s.commitRound \in -1..MaxRound
      BY Zenon, <1>1 DEF RoundState
    <3> QED
      BY <1>3, <3>1, MaxRoundAssumption DEF Rounds
  <2>2. maj = TwoThirdsMajority(s.precommits, s.commitRound)
    BY Zenon, <1>3
  <2>3. maj \in ValidBlocks /\ maj \in Blocks
    <3> HIDE DEF maj
    <3> QED
      BY Zenon, <1>3, <2>1, <2>2, CommitMajority
  <2>4. s.parts = maj
    BY Zenon, <1>3, <2>3 DEF Good
  <2>5. t = TryFinalizeCommit(s)
    BY Zenon, <1>3, <2>3, <2>4 DEF TryFinalizeCommit
  <2>6. /\ t \in RoundState
        /\ t.queue = s.queue /\ t.prevotes = s.prevotes /\ t.precommits = s.precommits
        /\ t.lockedRound = s.lockedRound /\ t.lockedBlock = s.lockedBlock
        /\ t.round = s.round /\ t.step = s.step /\ t.hvsRound = s.hvsRound /\ t.sched = s.sched
        /\ t.block = s.block /\ t.parts = s.parts
        /\ t.validRound = s.validRound /\ t.validBlock = s.validBlock
    BY ZenonT(40), <1>1 DEF RoundState
  <2> HIDE DEF t
  <2>7. Leads(s, t)
    BY Zenon, <2>6, SetFields DEF Good
  <2> QED
    BY Zenon, <2>5, <2>7
<1> QED
  BY Zenon, <1>2, <1>3

\* enterCommit, with the tryFinalizeCommit that follows it.
LEMMA EnterCommitLeads ==
    ASSUME NEW s, Good(s), NEW r \in Rounds,
           TwoThirdsMajority(s.precommits, r) \notin {None, Nil}
    PROVE  Leads(s, EnterCommit(s, r))
<1> DEFINE maj == TwoThirdsMajority(s.precommits, r)
           s1 == IF s.lockedBlock = maj THEN [s EXCEPT !.block = maj, !.parts = maj] ELSE s
           s2 == IF s1.block = maj THEN s1 ELSE ExpectParts(s1, maj)
           s3 == AtStep(s2, s.round, Commit)
           s4 == [s3 EXCEPT !.commitRound = r]
<1>1. s \in RoundState
  BY Zenon DEF Good
<1>2. CASE Commit <= s.step
  BY Zenon, <1>2, Stays DEF EnterCommit
<1>3. CASE ~(Commit <= s.step)
  <2>1. maj \in Blocks /\ maj # None
    BY Zenon, CommitMajority
  <2>2. TryFinalizeCommit(s4) = EnterCommit(s, r)
    BY Zenon, <1>3, <2>1 DEF EnterCommit
  <2> HIDE DEF maj
  <2>3. Leads(s, s1) /\ s1 \in RoundState /\ s1.round = s.round
    <3>1. CASE s.lockedBlock = maj
      <4>1. /\ s1 \in RoundState
            /\ s1.queue = s.queue /\ s1.prevotes = s.prevotes /\ s1.precommits = s.precommits
            /\ s1.lockedRound = s.lockedRound /\ s1.lockedBlock = s.lockedBlock
            /\ s1.round = s.round /\ s1.step = s.step /\ s1.hvsRound = s.hvsRound
            /\ s1.sched = s.sched /\ s1.block = maj /\ s1.parts = maj
            /\ s1.validRound = s.validRound /\ s1.validBlock = s.validBlock
        BY ZenonT(40), <1>1, <2>1, <3>1 DEF RoundState
      <4> HIDE DEF s1
      <4> QED
        BY Zenon, <4>1, SetFields DEF Good
    <3>2. CASE s.lockedBlock # maj
      BY Zenon, <3>2, Stays
    <3> QED
      BY Zenon, <3>1, <3>2
  <2> HIDE DEF s1
  <2>4. Good(s1)
    BY Zenon, <2>3 DEF Leads
  <2>5. Leads(s1, s2) /\ s2 \in RoundState /\ s2.round = s.round
    <3>1. CASE s2 = s1
      BY Zenon, <2>3, <2>4, <3>1, Stays
    <3>2. CASE s2 = [s1 EXCEPT !.block = None, !.parts = maj]
      <4> HIDE DEF s2
      <4>1. /\ s2 \in RoundState
            /\ s2.queue = s1.queue /\ s2.prevotes = s1.prevotes /\ s2.precommits = s1.precommits
            /\ s2.lockedRound = s1.lockedRound /\ s2.lockedBlock = s1.lockedBlock
            /\ s2.round = s1.round /\ s2.step = s1.step /\ s2.hvsRound = s1.hvsRound
            /\ s2.sched = s1.sched /\ s2.block = None
            /\ s2.validRound = s1.validRound /\ s2.validBlock = s1.validBlock
        BY Zenon, <2>1, <2>3, <3>2 DEF RoundState
      <4> QED
        BY Zenon, <2>3, <2>4, <4>1, SetFields DEF Good
    <3> QED
      BY Zenon, <3>1, <3>2 DEF ExpectParts
  <2> HIDE DEF s2
  <2>6. Good(s2)
    BY Zenon, <2>5 DEF Leads
  <2>7. Leads(s2, s3) /\ s3 \in RoundState
    BY <2>5, <2>6, AtStepLeads, StepsOrdered DEF NewHeight, Commit, Precommit
  <2> HIDE DEF s3
  <2>8. Good(s3)
    BY Zenon, <2>7 DEF Leads
  <2>9. /\ s4 \in RoundState
        /\ s4.queue = s3.queue /\ s4.prevotes = s3.prevotes /\ s4.precommits = s3.precommits
        /\ s4.lockedRound = s3.lockedRound /\ s4.lockedBlock = s3.lockedBlock
        /\ s4.round = s3.round /\ s4.step = s3.step /\ s4.hvsRound = s3.hvsRound
        /\ s4.sched = s3.sched /\ s4.block = s3.block /\ s4.parts = s3.parts
        /\ s4.validRound = s3.validRound /\ s4.validBlock = s3.validBlock
    <3>1. r \in -1..MaxRound
      BY MaxRoundAssumption DEF Rounds
    <3> QED
      BY ZenonT(40), <2>7, <3>1 DEF RoundState
  <2> HIDE DEF s4
  <2>10. Leads(s3, s4) /\ Good(s4)
    BY Zenon, <2>8, <2>9, SetFields DEF Good
  <2>11. Leads(s4, TryFinalizeCommit(s4))
    BY Zenon, <2>10, TryFinalizeCommitLeads
  <2>12. Leads(s, s3)
    BY Zenon, <2>3, <2>4, <2>5, <2>6, <2>7, Then
  <2> QED
    BY Zenon, <2>2, <2>8, <2>10, <2>11, <2>12, Then
<1> QED
  BY Zenon, <1>2, <1>3

-----------------------------------------------------------------------------
(* The handlers *)

\* defaultSetProposal.
LEMMA SetProposalLeads ==
    ASSUME NEW s, Good(s), NEW m, m.pol \in -1..MaxRound, m.block \in Blocks
    PROVE  Leads(s, SetProposal(s, m))
<1> DEFINE p == [pol |-> m.pol, block |-> m.block]
           pa == IF s.parts = None THEN m.block ELSE s.parts
           t == [s EXCEPT !.proposal = p, !.parts = pa]
<1>1. s \in RoundState
  BY Zenon DEF Good
<1>2. CASE s.proposal # None \/ m.round # s.round \/ m.pol >= m.round
  BY Zenon, <1>2, Stays DEF SetProposal
<1>3. CASE ~(s.proposal # None \/ m.round # s.round \/ m.pol >= m.round)
  <2>1. t = SetProposal(s, m)
    BY Zenon, <1>3 DEF SetProposal
  <2>2. p \in [pol : -1..MaxRound, block : Blocks]
    BY Zenon
  <2>3. pa \in Blocks \cup {None} /\ s.block \in {None, pa}
    BY Zenon, <1>1 DEF RoundState, Good
  <2> HIDE DEF p, pa
  <2>4. /\ t \in RoundState
        /\ t.queue = s.queue /\ t.prevotes = s.prevotes /\ t.precommits = s.precommits
        /\ t.lockedRound = s.lockedRound /\ t.lockedBlock = s.lockedBlock
        /\ t.round = s.round /\ t.step = s.step /\ t.hvsRound = s.hvsRound /\ t.sched = s.sched
        /\ t.block = s.block /\ t.parts = pa
        /\ t.validRound = s.validRound /\ t.validBlock = s.validBlock
    BY ZenonT(40), <1>1, <2>2, <2>3 DEF RoundState
  <2> HIDE DEF t
  <2>5. Leads(s, t)
    BY Zenon, <2>3, <2>4, SetFields DEF Good
  <2> QED
    BY Zenon, <2>1, <2>5
<1> QED
  BY Zenon, <1>2, <1>3

\* addProposalBlockPart, with the handlers that a complete block leads to.
LEMMA AddProposalBlockPartLeads ==
    ASSUME NEW s, Good(s), s.round \in Rounds, NEW b \in Blocks
    PROVE  Leads(s, AddProposalBlockPart(s, b))
<1> DEFINE maj == TwoThirdsMajority(s.prevotes, s.round)
           s0 == [s EXCEPT !.block = b]
           s1 == CompleteBlock(s0, maj)
           s2 == EnterPrevote(s1, s1.round)
           t == IF s1.step <= Propose /\ IsProposalComplete(s1)
                THEN IF maj = None THEN s2 ELSE EnterPrecommit(s2, s2.round)
                ELSE IF s1.step = Commit THEN TryFinalizeCommit(s1)
                ELSE s1
<1>1. s \in RoundState
  BY Zenon DEF Good
<1>2. CASE s.parts # b \/ s.block = b
  BY Zenon, <1>2, Stays DEF AddProposalBlockPart
<1>3. CASE ~(s.parts # b \/ s.block = b)
  <2>1. t = AddProposalBlockPart(s, b)
    BY Zenon, <1>3 DEF AddProposalBlockPart
  <2>2. maj # None => maj \in Values /\ HasPolka(s.prevotes, s.round, maj)
    BY Zenon, <1>1, MajorityIsPolka DEF Good, RoundState
  <2> HIDE DEF maj
  <2>3. /\ s0 \in RoundState
        /\ s0.queue = s.queue /\ s0.prevotes = s.prevotes /\ s0.precommits = s.precommits
        /\ s0.lockedRound = s.lockedRound /\ s0.lockedBlock = s.lockedBlock
        /\ s0.round = s.round /\ s0.step = s.step /\ s0.hvsRound = s.hvsRound /\ s0.sched = s.sched
        /\ s0.block = b /\ s0.parts = s.parts
        /\ s0.validRound = s.validRound /\ s0.validBlock = s.validBlock
    BY Zenon, <1>1 DEF RoundState
  <2> HIDE DEF s0
  <2>4. Leads(s, s0) /\ Good(s0)
    BY Zenon, <1>3, <2>3, SetFields DEF Good
  <2>5. Leads(s0, s1) /\ s1.round = s.round
    <3>1. CASE s1 = s0
      BY Zenon, <2>3, <2>4, <3>1, Stays
    <3>2. CASE maj \notin {None, Nil} /\ s1 = [s0 EXCEPT !.validRound = s0.round, !.validBlock = maj]
      <4> HIDE DEF s1
      <4>1. s0.round \in -1..MaxRound /\ maj \in Blocks
        BY <2>2, <2>3, <3>2, MaxRoundAssumption DEF Rounds, Values
      <4>2. /\ s1 \in RoundState
            /\ s1.queue = s0.queue /\ s1.prevotes = s0.prevotes /\ s1.precommits = s0.precommits
            /\ s1.lockedRound = s0.lockedRound /\ s1.lockedBlock = s0.lockedBlock
            /\ s1.round = s0.round /\ s1.step = s0.step /\ s1.hvsRound = s0.hvsRound
            /\ s1.sched = s0.sched /\ s1.block = s0.block /\ s1.parts = s0.parts
            /\ s1.validRound = s0.round /\ s1.validBlock = maj
        BY ZenonT(40), <2>3, <3>2, <4>1 DEF RoundState
      <4>3. ValidSound(s1.validRound, s1.validBlock, s1.prevotes)
        BY <1>1, <2>2, <2>3, <3>2, <4>2, Numbers DEF ValidSound
      <4> QED
        BY Zenon, <2>3, <2>4, <4>2, <4>3, SetFields DEF Good
    <3> QED
      BY Zenon, <3>1, <3>2 DEF CompleteBlock
  <2> HIDE DEF s1
  <2>6. Good(s1) /\ s1.round \in Rounds
    BY Zenon, <2>5 DEF Leads
  <2>7. Leads(s1, t)
    <3>1. CASE s1.step <= Propose /\ IsProposalComplete(s1)
      <4>1. Leads(s1, s2) /\ s2.round = s1.round
        BY Zenon, <2>6, EnterPrevoteLeads
      <4> HIDE DEF s2
      <4>2. Good(s2) /\ s2.round \in Rounds
        BY Zenon, <2>6, <4>1 DEF Leads
      <4>3. Leads(s2, EnterPrecommit(s2, s2.round))
        BY Zenon, <4>2, EnterPrecommitLeads
      <4> QED
        BY Zenon, <2>6, <3>1, <4>1, <4>3, Then
    <3>2. CASE ~(s1.step <= Propose /\ IsProposalComplete(s1))
      BY Zenon, <2>6, <3>2, TryFinalizeCommitLeads, Stays
    <3> QED
      BY Zenon, <3>1, <3>2
  <2> HIDE DEF t
  <2>8. Leads(s, s1)
    BY Zenon, <2>4, <2>5, Then
  <2> QED
    BY Zenon, <2>1, <2>6, <2>7, <2>8, Then
<1> QED
  BY Zenon, <1>2, <1>3

\* A polka may unlock, and the block it is for becomes the valid block or the
\* one to wait for.
LEMMA PolkaLeads ==
    ASSUME NEW s, Good(s), NEW r \in Rounds, NEW v \in Values, HasPolka(s.prevotes, r, v)
    PROVE  Leads(s, Polka(s, r, v)) /\ Polka(s, r, v).round = s.round
<1> DEFINE s1 == IF s.lockedBlock # None /\ s.lockedRound < r /\ r <= s.round /\ s.lockedBlock # v
                 THEN Unlock(s) ELSE s
           t == IF v = Nil \/ s1.validRound >= r \/ r # s1.round THEN s1
                ELSE IF s1.block = v THEN [s1 EXCEPT !.validRound = r, !.validBlock = v, !.parts = v]
                ELSE [s1 EXCEPT !.block = None, !.parts = v]
<1>1. s \in RoundState
  BY Zenon DEF Good
<1>2. t = Polka(s, r, v)
  BY Zenon DEF Polka
<1>3. r \in -1..MaxRound /\ r \in Nat
  BY MaxRoundAssumption DEF Rounds
<1>4. Leads(s, s1) /\ s1 \in RoundState /\ s1.round = s.round /\ s1.prevotes = s.prevotes
  <2>1. CASE s1 = s
    BY Zenon, <1>1, <2>1, Stays
  <2>2. CASE /\ s.lockedBlock # None /\ s.lockedRound < r /\ r <= s.round /\ s.lockedBlock # v
             /\ s1 = Unlock(s)
    <3> HIDE DEF s1, t
    <3>1. -1 \in -1..MaxRound
      BY MaxRoundAssumption
    <3>2. /\ s1 \in RoundState
          /\ s1.queue = s.queue /\ s1.prevotes = s.prevotes /\ s1.precommits = s.precommits
          /\ s1.lockedRound = -1 /\ s1.lockedBlock = None
          /\ s1.round = s.round /\ s1.step = s.step /\ s1.hvsRound = s.hvsRound
          /\ s1.sched = s.sched /\ s1.block = s.block /\ s1.parts = s.parts
          /\ s1.validRound = s.validRound /\ s1.validBlock = s.validBlock
      BY ZenonT(40), <1>1, <2>2, <3>1 DEF Unlock, RoundState
    <3>3. Prevoted(s1) = Prevoted(s) /\ Precommitted(s1) = Precommitted(s)
      BY Zenon, <3>2 DEF Prevoted, Precommitted
    <3>4. s.round \in Nat /\ s.lockedRound \in Int /\ s.round <= s1.round
      BY <1>1, <3>2, Numbers
    <3>5. Kept(Precommitted(s), s.prevotes, s.round, s.lockedRound, s.lockedBlock)
      BY Zenon DEF Good
    <3>6. Kept(Precommitted(s), s.prevotes, s.round, -1, None)
      BY Zenon, <2>2, <3>4, <3>5, UnlockKept, OwnNumbers
    <3>7. LockSound(s1.lockedRound, s1.lockedBlock, s1.prevotes, Precommitted(s1))
      BY Zenon, <3>2 DEF LockSound
    <3>8. Good(s1)
      BY Zenon, <3>2, <3>3, <3>6, <3>7 DEF Good
    <3> QED
      BY Zenon, <3>2, <3>4, <3>8 DEF Leads
  <2> QED
    BY Zenon, <2>1, <2>2
<1> HIDE DEF s1
<1>5. Good(s1)
  BY Zenon, <1>4 DEF Leads
<1>6. Leads(s1, t) /\ t.round = s1.round
  <2>1. CASE t = s1
    BY Zenon, <1>5, <2>1, Stays
  <2>2. CASE v # Nil /\ s1.block = v /\ t = [s1 EXCEPT !.validRound = r, !.validBlock = v, !.parts = v]
    <3> HIDE DEF t
    <3>1. v \in Blocks
      BY Zenon, <2>2 DEF Values
    <3>2. /\ t \in RoundState
          /\ t.queue = s1.queue /\ t.prevotes = s1.prevotes /\ t.precommits = s1.precommits
          /\ t.lockedRound = s1.lockedRound /\ t.lockedBlock = s1.lockedBlock
          /\ t.round = s1.round /\ t.step = s1.step /\ t.hvsRound = s1.hvsRound
          /\ t.sched = s1.sched /\ t.block = v /\ t.parts = v
          /\ t.validRound = r /\ t.validBlock = v
      BY ZenonT(40), <1>3, <1>4, <2>2, <3>1 DEF RoundState
    <3>3. ValidSound(t.validRound, t.validBlock, t.prevotes)
      BY <1>3, <1>4, <3>1, <3>2, BlocksAssumption DEF ValidSound, Values
    <3> QED
      BY Zenon, <1>5, <3>2, <3>3, SetFields
  <2>3. CASE v # Nil /\ t = [s1 EXCEPT !.block = None, !.parts = v]
    <3> HIDE DEF t
    <3>1. v \in Blocks
      BY Zenon, <2>3 DEF Values
    <3>2. /\ t \in RoundState
          /\ t.queue = s1.queue /\ t.prevotes = s1.prevotes /\ t.precommits = s1.precommits
          /\ t.lockedRound = s1.lockedRound /\ t.lockedBlock = s1.lockedBlock
          /\ t.round = s1.round /\ t.step = s1.step /\ t.hvsRound = s1.hvsRound
          /\ t.sched = s1.sched /\ t.block = None
          /\ t.validRound = s1.validRound /\ t.validBlock = s1.validBlock
      BY ZenonT(40), <1>4, <2>3, <3>1 DEF RoundState
    <3> QED
      BY Zenon, <1>5, <3>2, SetFields DEF Good
  <2> QED
    BY Zenon, <2>1, <2>2, <2>3
<1> HIDE DEF t
<1>7. Leads(s, t)
  BY Zenon, <1>4, <1>5, <1>6, Then
<1> QED
  BY Zenon, <1>2, <1>4, <1>6, <1>7

\* addVote, once a prevote is added: unlock, valid block, and the steps it may lead to.
LEMMA AddedPrevoteLeads ==
    ASSUME NEW s, Good(s), s.round \in Rounds, NEW r \in Rounds
    PROVE  Leads(s, AddedPrevote(s, r))
<1> DEFINE maj == TwoThirdsMajority(s.prevotes, r)
           any == HasTwoThirdsAny(s.prevotes, r)
           s1 == IF maj = None THEN s ELSE Polka(s, r, maj)
           t == IF s1.round < r /\ any THEN EnterNewRound(s1, r)
                ELSE IF s1.round = r /\ Prevote <= s1.step
                     THEN IF maj # None /\ (IsProposalComplete(s1) \/ maj = Nil)
                          THEN EnterPrecommit(s1, r)
                          ELSE IF any THEN EnterPrevoteWait(s1, r) ELSE s1
                ELSE IF s1.proposal # None /\ s1.proposal.pol = r /\ IsProposalComplete(s1)
                     THEN EnterPrevote(s1, s1.round)
                ELSE s1
<1>1. s \in RoundState
  BY Zenon DEF Good
<1>2. t = AddedPrevote(s, r)
  BY Zenon DEF AddedPrevote
<1>3. maj # None => maj \in Values /\ HasPolka(s.prevotes, r, maj)
  BY Zenon, <1>1, MajorityIsPolka DEF Good, RoundState
<1> HIDE DEF maj
<1>4. Leads(s, s1) /\ s1.round = s.round
  BY Zenon, <1>3, PolkaLeads, Stays
<1> HIDE DEF s1
<1>5. Good(s1) /\ s1.round \in Rounds /\ s1.prevotes = s.prevotes
  BY Zenon, <1>4 DEF Leads
<1>6. r \in 0..(MaxRound + 1)
  BY MaxRoundAssumption DEF Rounds
<1>7. Leads(s1, t)
  <2>1. Leads(s1, EnterNewRound(s1, r))
    BY Zenon, <1>5, <1>6, EnterNewRoundLeads
  <2>2. s1.round = r => Leads(s1, EnterPrecommit(s1, r))
    BY Zenon, <1>5, EnterPrecommitLeads
  <2>3. s1.round = r /\ any => Leads(s1, EnterPrevoteWait(s1, r))
    BY Zenon, <1>5, EnterPrevoteWaitLeads
  <2>4. Leads(s1, EnterPrevote(s1, s1.round))
    BY Zenon, <1>5, EnterPrevoteLeads
  <2>5. Leads(s1, s1)
    BY Zenon, <1>5, Stays
  <2> HIDE DEF any
  <2> QED
    BY Zenon, <2>1, <2>2, <2>3, <2>4, <2>5
<1> HIDE DEF t
<1> QED
  BY Zenon, <1>2, <1>4, <1>5, <1>7, Then

\* addVote, once a precommit is added: the steps it may lead to.
LEMMA AddedPrecommitLeads ==
    ASSUME NEW s, Good(s), s.round \in Rounds, NEW r \in Rounds
    PROVE  Leads(s, AddedPrecommit(s, r))
<1> DEFINE maj == TwoThirdsMajority(s.precommits, r)
           any == HasTwoThirdsAny(s.precommits, r)
           s1 == EnterNewRound(s, r)
           s2 == EnterPrecommit(s1, r)
           t == IF maj = Nil THEN EnterPrecommitWait(s2, r)
                ELSE IF maj # None THEN EnterCommit(s2, r)
                ELSE IF s.round <= r /\ any THEN EnterPrecommitWait(s1, r)
                ELSE s
<1>1. s \in RoundState /\ s.round \in Nat /\ r \in Nat /\ r \in 0..(MaxRound + 1)
  BY Numbers, MaxRoundAssumption DEF Good, Rounds
<1>2. t = AddedPrecommit(s, r)
  BY Zenon DEF AddedPrecommit
<1>3. maj = Nil => any
  <2>1. s.precommits \in SUBSET Votes
    BY Zenon, <1>1 DEF RoundState
  <2>2. maj # None => HasPolka(s.precommits, r, maj)
    BY Zenon, <2>1, MajorityIsPolka DEF Good
  <2> HIDE DEF maj
  <2> QED
    BY Zenon, <2>1, <2>2, PolkaIsAny, BlocksAssumption DEF Values
<1>4. Leads(s, s1) /\ s1.round = IF r < s.round THEN s.round ELSE r
  BY Zenon, <1>1, EnterNewRoundLeads
<1> HIDE DEF s1
<1>5. Good(s1) /\ s1.precommits = s.precommits /\ s1.round \in Rounds /\ r <= s1.round
  BY <1>1, <1>4 DEF Leads
<1>6. Leads(s1, s2) /\ s2.round = s1.round
  <2>1. CASE r = s1.round
    BY Zenon, <1>5, <2>1, EnterPrecommitLeads
  <2>2. CASE r < s1.round
    <3>1. s2 = s1
      BY Zenon, <2>2 DEF EnterPrecommit, Past
    <3> QED
      BY Zenon, <1>5, <3>1, Stays
  <2> QED
    BY Zenon, <1>1, <1>4, <2>1, <2>2
<1> HIDE DEF s2
<1>7. Good(s2) /\ s2.precommits = s.precommits /\ r <= s2.round
  BY Zenon, <1>5, <1>6 DEF Leads
<1>8. Leads(s, s2)
  BY Zenon, <1>4, <1>5, <1>6, Then
<1>9. CASE maj = Nil
  <2>1. Leads(s2, EnterPrecommitWait(s2, r))
    BY Zenon, <1>3, <1>7, <1>9, EnterPrecommitWaitLeads
  <2>2. Leads(s, EnterPrecommitWait(s2, r))
    BY Zenon, <1>7, <1>8, <2>1, Then
  <2> QED
    BY Zenon, <1>2, <1>9, <2>2
<1>10. CASE maj \notin {None, Nil}
  <2>1. Leads(s2, EnterCommit(s2, r))
    BY Zenon, <1>7, <1>10, EnterCommitLeads
  <2>2. Leads(s, EnterCommit(s2, r))
    BY Zenon, <1>7, <1>8, <2>1, Then
  <2> QED
    BY Zenon, <1>2, <1>10, <2>2
<1>11. CASE maj = None
  <2>1. any => Leads(s1, EnterPrecommitWait(s1, r))
    BY Zenon, <1>5, EnterPrecommitWaitLeads
  <2>2. any => Leads(s, EnterPrecommitWait(s1, r))
    BY Zenon, <1>4, <1>5, <2>1, Then
  <2>3. maj # Nil
    BY Zenon, <1>11, BlocksAssumption DEF Values
  <2> HIDE DEF any, maj
  <2> QED
    BY Zenon, <1>2, <1>11, <2>2, <2>3, Stays
<1> QED
  BY Zenon, <1>9, <1>10, <1>11
-----------------------------------------------------------------------------
(* New votes *)

\* What was promised on a polka still holds when there are more prevotes.
LEMMA MorePrevotes ==
    ASSUME NEW votes, NEW more, votes \subseteq more
    PROVE  /\ \A precommitted : Justified(precommitted, votes) => Justified(precommitted, more)
           /\ \A precommitted, round, lr, lb :
                 Kept(precommitted, votes, round, lr, lb) => Kept(precommitted, more, round, lr, lb)
           /\ \A prevoted, precommitted :
                 Released(prevoted, precommitted, votes) => Released(prevoted, precommitted, more)
           /\ \A precommitted, lr, lb :
                 LockSound(lr, lb, votes, precommitted) => LockSound(lr, lb, more, precommitted)
           /\ \A vr, vb : ValidSound(vr, vb, votes) => ValidSound(vr, vb, more)
<1>1. \A r, v : HasPolka(votes, r, v) => HasPolka(more, r, v)
  BY Zenon, PolkaStays
<1>2. \A b, q, r : PolkaAgainst(votes, b, q, r) => PolkaAgainst(more, b, q, r)
  BY Zenon, <1>1 DEF PolkaAgainst
<1>3. \A precommitted : Justified(precommitted, votes) => Justified(precommitted, more)
  BY Zenon, <1>1 DEF Justified
<1>4. \A precommitted, round, lr, lb :
          Kept(precommitted, votes, round, lr, lb) => Kept(precommitted, more, round, lr, lb)
  BY Zenon, <1>2 DEF Kept
<1>5. \A prevoted, precommitted :
          Released(prevoted, precommitted, votes) => Released(prevoted, precommitted, more)
  BY Zenon, <1>2 DEF Released
<1>6. \A precommitted, lr, lb :
          LockSound(lr, lb, votes, precommitted) => LockSound(lr, lb, more, precommitted)
  BY Zenon, <1>1 DEF LockSound
<1>7. \A vr, vb : ValidSound(vr, vb, votes) => ValidSound(vr, vb, more)
  BY Zenon, <1>1 DEF ValidSound
<1> QED
  BY Zenon, <1>3, <1>4, <1>5, <1>6, <1>7

\* A round state with one more vote and the same own votes is good.
LEMMA MoreVotes ==
    ASSUME NEW s, Good(s), NEW t \in RoundState,
           s.prevotes \subseteq t.prevotes, s.precommits \subseteq t.precommits,
           Prevoted(t) = Prevoted(s), Precommitted(t) = Precommitted(s),
           VotesSound(t.prevotes, "prevote"), VotesSound(t.precommits, "precommit"),
           Ordered(t.queue, t.prevotes, t.precommits),
           t.lockedRound = s.lockedRound, t.lockedBlock = s.lockedBlock,
           t.round = s.round, t.step = s.step, t.hvsRound = s.hvsRound, t.sched = s.sched,
           t.block = s.block, t.parts = s.parts,
           t.validRound = s.validRound, t.validBlock = s.validBlock
    PROVE  Good(t)
<1>1. /\ Justified(Precommitted(t), t.prevotes)
      /\ Kept(Precommitted(t), t.prevotes, t.round, t.lockedRound, t.lockedBlock)
      /\ Released(Prevoted(t), Precommitted(t), t.prevotes)
      /\ LockSound(t.lockedRound, t.lockedBlock, t.prevotes, Precommitted(t))
      /\ ValidSound(t.validRound, t.validBlock, t.prevotes)
  BY Zenon, MorePrevotes DEF Good
<1> QED
  BY Zenon, <1>1 DEF Good

\* A vote that conflicts with none.
LEMMA NewVoteSound ==
    ASSUME NEW votes \in SUBSET Votes, NEW type \in VoteTypes, VotesSound(votes, type),
           NEW p \in Validators, NEW r \in Rounds, NEW v \in Values,
           \A n \in votes : n.val = p /\ n.round = r => n = Vote(p, r, v),
           p # Me => [kind |-> "vote", type |-> type, round |-> r, val |-> p, value |-> v] \in PeerVotes
    PROVE  /\ votes \cup {Vote(p, r, v)} \in SUBSET Votes
           /\ VotesSound(votes \cup {Vote(p, r, v)}, type)
<1> DEFINE new == Vote(p, r, v)
<1>1. new \in Votes /\ new.val = p /\ new.round = r /\ new.value = v
  BY Zenon DEF Vote, Votes
<1> HIDE DEF new
<1>2. \A m, n \in votes \cup {new} : m.val = n.val /\ m.round = n.round => m = n
  BY Zenon, <1>1 DEF VotesSound, new
<1>3. \A m \in votes \cup {new} : m.val # Me =>
          [kind |-> "vote", type |-> type, round |-> m.round, val |-> m.val,
           value |-> m.value] \in PeerVotes
  BY Zenon, <1>1 DEF VotesSound
<1>4. VotesSound(votes \cup {new}, type)
  BY Zenon, <1>2, <1>3 DEF VotesSound
<1> QED
  BY Zenon, <1>1, <1>4 DEF new

\* The own votes do not change with those of others.
LEMMA OthersVote ==
    ASSUME NEW votes, NEW queue, NEW type, NEW p, NEW r, NEW v, p # Me
    PROVE  Own(votes \cup {Vote(p, r, v)}, queue, type) = Own(votes, queue, type)
<1>1. \A o \in OwnVotes : Vote(Me, o.round, o.value) # Vote(p, r, v)
  BY Zenon DEF Vote
<1> QED
  BY Zenon, <1>1 DEF Own

\* tryAddVote with a vote from a peer.
LEMMA PeerVoteLeads ==
    ASSUME NEW s, Good(s), s.round \in Rounds, NEW m \in PeerVotes, ~Conflicts(s, m)
    PROVE  LET t == TryAddVote(s, m)
           IN  /\ Good(t) /\ s.round <= t.round
               /\ \/ t.prevotes = s.prevotes /\ t.precommits = s.precommits
                  \/ t.prevotes = s.prevotes \cup {VoteOf(m)} /\ t.precommits = s.precommits
                  \/ t.prevotes = s.prevotes /\ t.precommits = s.precommits \cup {VoteOf(m)}
<1> DEFINE new == VoteOf(m)
<1>1. /\ m.type \in VoteTypes /\ m.round \in Rounds /\ m.val \in Validators /\ m.val # Me
      /\ m.value \in Values
      /\ m = [kind |-> "vote", type |-> m.type, round |-> m.round, val |-> m.val, value |-> m.value]
  BY Zenon, PeerVotesAssumption
<1>2. s \in RoundState /\ s.prevotes \in SUBSET Votes /\ s.precommits \in SUBSET Votes
  BY Zenon DEF Good, RoundState
<1>3. new = Vote(m.val, m.round, m.value) /\ new.val # Me
  BY Zenon, <1>1 DEF VoteOf, Vote
<1>4. \A n \in VotesLike(s, m) : n.val = m.val /\ n.round = m.round => n = new
  BY Zenon DEF Conflicts, Voters
<1> HIDE DEF new
<1>5. CASE new \in VotesLike(s, m)
  <2>1. s.round <= s.round
    BY <1>2, Numbers
  <2> QED
    BY Zenon, <1>5, <2>1 DEF TryAddVote, new
<1>6. CASE new \notin VotesLike(s, m) /\ m.type = "prevote"
  <2> DEFINE votes == s.prevotes \cup {new}
             t == [s EXCEPT !.prevotes = votes]
             u == AddedPrevote(t, m.round)
  <2>1. u = TryAddVote(s, m)
    BY Zenon, <1>6 DEF TryAddVote, new
  <2>2. votes \in SUBSET Votes /\ VotesSound(votes, "prevote")
    <3>1. s.prevotes = VotesLike(s, m) /\ VotesSound(s.prevotes, "prevote")
      BY Zenon, <1>6 DEF VotesLike, Good
    <3>2. [kind |-> "vote", type |-> "prevote", round |-> m.round, val |-> m.val, value |-> m.value]
             \in PeerVotes
      BY Zenon, <1>1, <1>6
    <3>3. "prevote" \in VoteTypes
      BY Zenon DEF VoteTypes
    <3> QED
      BY SMTT(40), <1>1, <1>2, <1>3, <1>4, <3>1, <3>2, <3>3, NewVoteSound
  <2> HIDE DEF votes
  <2>3. /\ t \in RoundState
        /\ t.prevotes = votes /\ t.precommits = s.precommits /\ t.queue = s.queue
        /\ t.lockedRound = s.lockedRound /\ t.lockedBlock = s.lockedBlock
        /\ t.round = s.round /\ t.step = s.step /\ t.hvsRound = s.hvsRound /\ t.sched = s.sched
        /\ t.block = s.block /\ t.parts = s.parts
        /\ t.validRound = s.validRound /\ t.validBlock = s.validBlock
    BY ZenonT(40), <1>2, <2>2 DEF RoundState
  <2> HIDE DEF t
  <2>4. Prevoted(t) = Prevoted(s) /\ Precommitted(t) = Precommitted(s)
    BY <1>1, <1>3, <2>3, OthersVote DEF Prevoted, Precommitted, votes
  <2>5. Ordered(t.queue, t.prevotes, t.precommits)
    BY ZenonT(40), <1>3, <2>3 DEF Good, Ordered, votes
  <2>6. s.prevotes \subseteq t.prevotes /\ s.precommits \subseteq t.precommits
    BY Zenon, <2>3 DEF votes
  <2>7. Good(t)
    BY Zenon, <2>2, <2>3, <2>4, <2>5, <2>6, MoreVotes DEF Good
  <2>8. Leads(t, u)
    BY Zenon, <1>1, <2>3, <2>7, AddedPrevoteLeads
  <2> HIDE DEF u
  <2> QED
    BY Zenon, <2>1, <2>3, <2>8 DEF Leads, votes, new
<1>7. CASE new \notin VotesLike(s, m) /\ m.type = "precommit"
  <2> DEFINE votes == s.precommits \cup {new}
             t == [s EXCEPT !.precommits = votes]
             u == AddedPrecommit(t, m.round)
  <2>1. u = TryAddVote(s, m)
    BY Zenon, <1>7 DEF TryAddVote, new
  <2>2. votes \in SUBSET Votes /\ VotesSound(votes, "precommit")
    <3>1. s.precommits = VotesLike(s, m) /\ VotesSound(s.precommits, "precommit")
      BY Zenon, <1>7 DEF VotesLike, Good
    <3>2. [kind |-> "vote", type |-> "precommit", round |-> m.round, val |-> m.val, value |-> m.value]
             \in PeerVotes
      BY Zenon, <1>1, <1>7
    <3>3. "precommit" \in VoteTypes
      BY Zenon DEF VoteTypes
    <3> QED
      BY <1>1, <1>2, <1>3, <1>4, <3>1, <3>2, <3>3, NewVoteSound
  <2> HIDE DEF votes
  <2>3. /\ t \in RoundState
        /\ t.prevotes = s.prevotes /\ t.precommits = votes /\ t.queue = s.queue
        /\ t.lockedRound = s.lockedRound /\ t.lockedBlock = s.lockedBlock
        /\ t.round = s.round /\ t.step = s.step /\ t.hvsRound = s.hvsRound /\ t.sched = s.sched
        /\ t.block = s.block /\ t.parts = s.parts
        /\ t.validRound = s.validRound /\ t.validBlock = s.validBlock
    BY ZenonT(40), <1>2, <2>2 DEF RoundState
  <2> HIDE DEF t
  <2>4. Prevoted(t) = Prevoted(s) /\ Precommitted(t) = Precommitted(s)
    BY <1>1, <1>3, <2>3, OthersVote DEF Prevoted, Precommitted, votes
  <2>5. Ordered(t.queue, t.prevotes, t.precommits)
    BY ZenonT(40), <1>3, <2>3 DEF Good, Ordered, votes
  <2>6. s.prevotes \subseteq t.prevotes /\ s.precommits \subseteq t.precommits
    BY Zenon, <2>3 DEF votes
  <2>7. Good(t)
    BY Zenon, <2>2, <2>3, <2>4, <2>5, <2>6, MoreVotes DEF Good
  <2>8. Leads(t, u)
    BY Zenon, <1>1, <2>3, <2>7, AddedPrecommitLeads
  <2> HIDE DEF u
  <2> QED
    BY Zenon, <2>1, <2>3, <2>8 DEF Leads, votes, new
<1> QED
  BY Zenon, <1>1, <1>5, <1>6, <1>7 DEF VoteTypes

\* The queue without its first message.
LEMMA Dequeued ==
    ASSUME NEW queue \in Seq(Messages), queue # <<>>
    PROVE  /\ Tail(queue) \in Seq(Messages)
           /\ Len(queue) \in Nat /\ Len(queue) >= 1
           /\ DOMAIN queue = 1..Len(queue) /\ DOMAIN Tail(queue) = 1..(Len(queue) - 1)
           /\ \A i \in DOMAIN Tail(queue) : i + 1 \in DOMAIN queue /\ Tail(queue)[i] = queue[i + 1]
           /\ \A j \in DOMAIN queue : j # 1 => j - 1 \in DOMAIN Tail(queue) /\ Tail(queue)[j - 1] = queue[j]
           /\ 1 \in DOMAIN queue /\ Head(queue) = queue[1] /\ Head(queue) \in Messages
  OBVIOUS

\* The own votes that remain queued.
LEMMA OwnDequeued ==
    ASSUME NEW queue \in Seq(Messages), queue # <<>>, NEW type \in VoteTypes, NEW votes
    PROVE  /\ Head(queue) \in VoteMsgs /\ Head(queue).type = type =>
                Own(votes \cup {VoteOf(Head(queue))}, Tail(queue), type) = Own(votes, queue, type)
           /\ ~(Head(queue) \in VoteMsgs /\ Head(queue).type = type) =>
                Own(votes, Tail(queue), type) = Own(votes, queue, type)
<1> DEFINE m == Head(queue)
           q == Tail(queue)
<1>1. /\ \A i \in DOMAIN q : i + 1 \in DOMAIN queue /\ q[i] = queue[i + 1]
      /\ \A j \in DOMAIN queue : j # 1 => j - 1 \in DOMAIN q /\ q[j - 1] = queue[j]
      /\ 1 \in DOMAIN queue /\ m = queue[1]
  BY Zenon, Dequeued
<1> HIDE DEF m, q
<1>2. \A x : (\E j \in DOMAIN queue : queue[j] = x) <=> x = m \/ (\E i \in DOMAIN q : q[i] = x)
  BY Zenon, <1>1
<1>3. ASSUME m \in VoteMsgs, m.type = type
      PROVE  Own(votes \cup {VoteOf(m)}, q, type) = Own(votes, queue, type)
  <2>1. \A o \in OwnVotes : VoteMsg(type, o.round, o.value) = m <=> Vote(Me, o.round, o.value) = VoteOf(m)
    BY <1>3 DEF VoteMsg, VoteOf, Vote, VoteMsgs, OwnVotes
  <2> QED
    BY Zenon, <1>2, <2>1 DEF Own
<1>4. ASSUME ~(m \in VoteMsgs /\ m.type = type)
      PROVE  Own(votes, q, type) = Own(votes, queue, type)
  <2>1. \A o \in OwnVotes : VoteMsg(type, o.round, o.value) # m
    BY <1>4 DEF VoteMsg, VoteMsgs, OwnVotes
  <2> QED
    BY Zenon, <1>2, <2>1 DEF Own
<1> QED
  BY Zenon, <1>3, <1>4 DEF m, q

\* The order of the own votes, when the first is taken from the queue.
LEMMA OrderedDequeued ==
    ASSUME NEW queue \in Seq(Messages), queue # <<>>,
           NEW prevotes, NEW precommits, Ordered(queue, prevotes, precommits)
    PROVE  /\ Ordered(Tail(queue), prevotes, precommits)
           /\ Head(queue) \in VoteMsgs /\ Head(queue).type = "prevote" =>
                 Ordered(Tail(queue), prevotes \cup {VoteOf(Head(queue))}, precommits)
           /\ Head(queue) \in VoteMsgs /\ Head(queue).type = "precommit" =>
                 Ordered(Tail(queue), prevotes, precommits \cup {VoteOf(Head(queue))})
<1> DEFINE m == Head(queue)
           q == Tail(queue)
<1>1. /\ \A i \in DOMAIN q : i + 1 \in DOMAIN queue /\ q[i] = queue[i + 1]
      /\ \A i \in DOMAIN q : i \in Nat /\ i >= 1
      /\ 1 \in DOMAIN queue /\ m = queue[1]
  BY Dequeued
<1> HIDE DEF m, q
<1>2. Ordered(q, prevotes, precommits)
  <2>1. ASSUME NEW i \in DOMAIN q, NEW j \in DOMAIN q, i < j, q[i] \in VoteMsgs, q[j] \in VoteMsgs
        PROVE  /\ q[i].round <= q[j].round
               /\ q[i].type = q[j].type => q[i].round < q[j].round
    <3>1. i + 1 < j + 1
      BY <1>1, <2>1
    <3> QED
      BY Zenon, <1>1, <2>1, <3>1 DEF Ordered
  <2>2. ASSUME NEW i \in DOMAIN q, q[i] \in VoteMsgs
        PROVE  /\ \A x \in prevotes : x.val = Me =>
                     x.round <= q[i].round /\ (q[i].type = "prevote" => x.round < q[i].round)
               /\ \A x \in precommits : x.val = Me =>
                     x.round <= q[i].round /\ (q[i].type = "precommit" => x.round < q[i].round)
    BY Zenon, <1>1, <2>2 DEF Ordered
  <2> QED
    BY Zenon, <2>1, <2>2 DEF Ordered
<1>3. ASSUME m \in VoteMsgs, NEW i \in DOMAIN q, q[i] \in VoteMsgs
      PROVE  /\ VoteOf(m).round <= q[i].round
             /\ m.type = q[i].type => VoteOf(m).round < q[i].round
  <2>1. 1 < i + 1
    BY <1>1
  <2>2. VoteOf(m).round = m.round
    BY Zenon DEF VoteOf, Vote
  <2> QED
    BY Zenon, <1>1, <1>3, <2>1, <2>2 DEF Ordered
<1>4. ASSUME m \in VoteMsgs, m.type = "prevote"
      PROVE  Ordered(q, prevotes \cup {VoteOf(m)}, precommits)
  <2> HIDE DEF m, q
  <2> QED
    BY Zenon, <1>2, <1>3, <1>4 DEF Ordered
<1>5. ASSUME m \in VoteMsgs, m.type = "precommit"
      PROVE  Ordered(q, prevotes, precommits \cup {VoteOf(m)})
  BY Zenon, <1>2, <1>3, <1>5 DEF Ordered
<1> QED
  BY Zenon, <1>2, <1>4, <1>5 DEF m, q

\* An own vote comes after the ones the node has counted.
LEMMA OwnVoteIsNew ==
    ASSUME NEW s, Good(s), s.queue # <<>>, NEW m, m = Head(s.queue), m \in VoteMsgs
    PROVE  /\ \A n \in s.prevotes : n.val = Me =>
                 n.round <= m.round /\ (m.type = "prevote" => n.round # m.round)
           /\ \A n \in s.precommits : n.val = Me =>
                 n.round <= m.round /\ (m.type = "precommit" => n.round # m.round)
<1>1. s.queue \in Seq(Messages) /\ s.prevotes \subseteq Votes /\ s.precommits \subseteq Votes
  BY Zenon DEF Good, RoundState
<1>2. 1 \in DOMAIN s.queue /\ m = s.queue[1]
  BY Zenon, <1>1, Dequeued
<1>3. m.round \in Int /\ \A n \in Votes : n.round \in Int
  BY MaxRoundAssumption DEF VoteMsgs, Votes, Rounds
<1> QED
  BY <1>1, <1>2, <1>3 DEF Good, Ordered

\* handleMsg with the first of the node's own messages.  Its own votes never
\* conflict.
LEMMA OwnMessageLeads ==
    ASSUME NEW s, Good(s), s.round \in Rounds, s.queue # <<>>,
           NEW m, m = Head(s.queue),
           NEW t, t = HandleMsg([s EXCEPT !.queue = Tail(@)], m)
    PROVE  /\ Good(t) /\ s.round <= t.round
           /\ \/ t.prevotes = s.prevotes /\ t.precommits = s.precommits
              \/ /\ m \in VoteMsgs /\ m.type = "prevote"
                 /\ t.prevotes = s.prevotes \cup {VoteOf(m)} /\ t.precommits = s.precommits
              \/ /\ m \in VoteMsgs /\ m.type = "precommit"
                 /\ t.prevotes = s.prevotes /\ t.precommits = s.precommits \cup {VoteOf(m)}
<1> DEFINE q == Tail(s.queue)
           s0 == [s EXCEPT !.queue = q]
<1>1. s \in RoundState /\ s.queue \in Seq(Messages)
  BY Zenon DEF Good, RoundState
<1>2. q \in Seq(Messages) /\ m \in Messages
  BY Zenon, <1>1, Dequeued
<1>3. t = HandleMsg(s0, m)
  BY Zenon
<1> HIDE DEF q
<1>4. /\ s0 \in RoundState
      /\ s0.prevotes = s.prevotes /\ s0.precommits = s.precommits /\ s0.queue = q
      /\ s0.lockedRound = s.lockedRound /\ s0.lockedBlock = s.lockedBlock
      /\ s0.round = s.round /\ s0.step = s.step /\ s0.hvsRound = s.hvsRound /\ s0.sched = s.sched
      /\ s0.block = s.block /\ s0.parts = s.parts
      /\ s0.validRound = s.validRound /\ s0.validBlock = s.validBlock
  BY Zenon, <1>1, <1>2 DEF RoundState
<1> HIDE DEF s0
<1>5. "prevote" \in VoteTypes /\ "precommit" \in VoteTypes
  BY Zenon DEF VoteTypes
<1>6. CASE m \notin VoteMsgs
  <2>1. Prevoted(s0) = Prevoted(s) /\ Precommitted(s0) = Precommitted(s)
    BY Zenon, <1>1, <1>4, <1>5, <1>6, OwnDequeued DEF Prevoted, Precommitted, q
  <2>2. Ordered(s0.queue, s0.prevotes, s0.precommits)
    BY Zenon, <1>1, <1>4, OrderedDequeued DEF Good, q
  <2>3. Good(s0)
    BY Zenon, <1>4, <2>1, <2>2, MoreVotes DEF Good
  <2>4. Leads(s0, t)
    <3>1. CASE m.kind = "proposal" /\ m.pol \in -1..MaxRound /\ m.block \in Blocks
      <4>1. t = SetProposal(s0, m)
        BY Zenon, <1>3, <3>1 DEF HandleMsg
      <4> QED
        BY Zenon, <2>3, <3>1, <4>1, SetProposalLeads
    <3>2. CASE m.kind = "part" /\ m.block \in Blocks
      <4>1. t = AddProposalBlockPart(s0, m.block)
        BY Zenon, <1>3, <3>2 DEF HandleMsg
      <4> QED
        BY Zenon, <1>4, <2>3, <3>2, <4>1, AddProposalBlockPartLeads
    <3> QED
      BY Zenon, <1>2, <1>6, <3>1, <3>2 DEF Messages
  <2> QED
    BY Zenon, <1>4, <2>4 DEF Leads
<1>7. CASE m \in VoteMsgs
  <2> DEFINE new == VoteOf(m)
  <2>1. /\ m.kind = "vote" /\ m.type \in VoteTypes /\ m.round \in Rounds /\ m.val = Me
        /\ m.value \in Values /\ Me \in Validators
    BY Zenon, <1>7, MeAssumption DEF VoteMsgs
  <2>2. new = Vote(Me, m.round, m.value) /\ new.val = Me /\ new.round = m.round
    BY Zenon, <2>1 DEF VoteOf, Vote
  <2> HIDE DEF new
  <2>3. /\ \A n \in s.prevotes : n.val = Me => (m.type = "prevote" => n.round # m.round)
        /\ \A n \in s.precommits : n.val = Me => (m.type = "precommit" => n.round # m.round)
    BY Zenon, <1>7, OwnVoteIsNew
  <2>4. \A n \in VotesLike(s0, m) : ~(n.val = Me /\ n.round = m.round)
    BY Zenon, <1>4, <2>1, <2>3 DEF VotesLike, VoteTypes
  <2>5. new \notin VotesLike(s0, m) /\ ~Conflicts(s0, m)
    BY Zenon, <2>1, <2>2, <2>4 DEF Conflicts, Voters, new
  <2>6. t = TryAddVote(s0, m)
    BY Zenon, <1>3, <2>1 DEF HandleMsg
  <2>7. CASE m.type = "prevote"
    <3> DEFINE votes == s.prevotes \cup {new}
               u == [s0 EXCEPT !.prevotes = votes]
    <3>1. t = AddedPrevote(u, m.round)
      BY Zenon, <1>4, <2>5, <2>6, <2>7 DEF TryAddVote, new
    <3>2. votes \in SUBSET Votes /\ VotesSound(votes, "prevote")
      <4>1. s.prevotes \in SUBSET Votes /\ VotesSound(s.prevotes, "prevote")
        BY Zenon, <1>1 DEF Good, RoundState
      <4>2. \A n \in s.prevotes : n.val = Me /\ n.round = m.round => n = Vote(Me, m.round, m.value)
        BY Zenon, <2>3, <2>7
      <4>3. LET more == s.prevotes \cup {Vote(Me, m.round, m.value)}
            IN  more \in SUBSET Votes /\ VotesSound(more, "prevote")
        BY ZenonT(40), <1>5, <2>1, <4>1, <4>2, NewVoteSound
      <4> QED
        BY Zenon, <2>2, <4>3
    <3>3. /\ Own(votes, q, "prevote") = Prevoted(s)
          /\ Own(s.precommits, q, "precommit") = Precommitted(s)
          /\ Ordered(q, votes, s.precommits)
      BY Zenon, <1>1, <1>5, <1>7, <2>7, OwnDequeued, OrderedDequeued DEF Good, Prevoted, Precommitted, q, new
    <3> HIDE DEF votes
    <3>4. /\ u \in RoundState
          /\ u.prevotes = votes /\ u.precommits = s.precommits /\ u.queue = q
          /\ u.lockedRound = s.lockedRound /\ u.lockedBlock = s.lockedBlock
          /\ u.round = s.round /\ u.step = s.step /\ u.hvsRound = s.hvsRound /\ u.sched = s.sched
          /\ u.block = s.block /\ u.parts = s.parts
          /\ u.validRound = s.validRound /\ u.validBlock = s.validBlock
      BY Zenon, <1>4, <3>2 DEF RoundState
    <3> HIDE DEF u
    <3>5. Prevoted(u) = Prevoted(s) /\ Precommitted(u) = Precommitted(s)
      BY Zenon, <3>3, <3>4 DEF Prevoted, Precommitted
    <3>6. Good(u)
      <4>1. s.prevotes \subseteq u.prevotes /\ s.precommits \subseteq u.precommits
        BY Zenon, <3>4 DEF votes
      <4> QED
        BY ZenonT(40), <3>2, <3>3, <3>4, <3>5, <4>1, MoreVotes DEF Good
    <3>7. Leads(u, t)
      BY Zenon, <2>1, <3>1, <3>4, <3>6, AddedPrevoteLeads
    <3> QED
      BY Zenon, <1>7, <2>7, <3>4, <3>7 DEF Leads, votes, new
  <2>8. CASE m.type = "precommit"
    <3> DEFINE votes == s.precommits \cup {new}
               u == [s0 EXCEPT !.precommits = votes]
    <3>1. t = AddedPrecommit(u, m.round)
      BY Zenon, <1>4, <2>5, <2>6, <2>8 DEF TryAddVote, new
    <3>2. votes \in SUBSET Votes /\ VotesSound(votes, "precommit")
      <4>1. s.precommits \in SUBSET Votes /\ VotesSound(s.precommits, "precommit")
        BY Zenon, <1>1 DEF Good, RoundState
      <4>2. \A n \in s.precommits : n.val = Me /\ n.round = m.round => n = Vote(Me, m.round, m.value)
        BY Zenon, <2>3, <2>8
      <4>3. LET more == s.precommits \cup {Vote(Me, m.round, m.value)}
            IN  more \in SUBSET Votes /\ VotesSound(more, "precommit")
        BY ZenonT(40), <1>5, <2>1, <4>1, <4>2, NewVoteSound
      <4> QED
        BY Zenon, <2>2, <4>3
    <3>3. /\ Own(s.prevotes, q, "prevote") = Prevoted(s)
          /\ Own(votes, q, "precommit") = Precommitted(s)
          /\ Ordered(q, s.prevotes, votes)
      BY Zenon, <1>1, <1>5, <1>7, <2>8, OwnDequeued, OrderedDequeued DEF Good, Prevoted, Precommitted, q, new
    <3> HIDE DEF votes
    <3>4. /\ u \in RoundState
          /\ u.prevotes = s.prevotes /\ u.precommits = votes /\ u.queue = q
          /\ u.lockedRound = s.lockedRound /\ u.lockedBlock = s.lockedBlock
          /\ u.round = s.round /\ u.step = s.step /\ u.hvsRound = s.hvsRound /\ u.sched = s.sched
          /\ u.block = s.block /\ u.parts = s.parts
          /\ u.validRound = s.validRound /\ u.validBlock = s.validBlock
      BY ZenonT(40), <1>4, <3>2 DEF RoundState
    <3> HIDE DEF u
    <3>5. Prevoted(u) = Prevoted(s) /\ Precommitted(u) = Precommitted(s)
      BY Zenon, <3>3, <3>4 DEF Prevoted, Precommitted
    <3>6. Good(u)
      <4>1. s.prevotes \subseteq u.prevotes /\ s.precommits \subseteq u.precommits
        BY Zenon, <3>4 DEF votes
      <4> QED
        BY ZenonT(40), <3>2, <3>3, <3>4, <3>5, <4>1, MoreVotes DEF Good
    <3>7. Leads(u, t)
      BY Zenon, <2>1, <3>1, <3>4, <3>6, AddedPrecommitLeads
    <3> QED
      BY Zenon, <1>7, <2>8, <3>4, <3>7 DEF Leads, votes, new
  <2> QED
    BY Zenon, <2>1, <2>7, <2>8 DEF VoteTypes
<1> QED
  BY Zenon, <1>6, <1>7

-----------------------------------------------------------------------------
(* Timeouts *)

\* handleTimeout: a timeout that is not ignored is one of the current round.
LEMMA HandleTimeoutLeads ==
    ASSUME NEW s, Good(s), s.round \in Rounds, NEW ti, TickSound(ti, s.round)
    PROVE  Leads(s, HandleTimeout(s, ti))
<1>1. s.round \in Nat /\ ti.round \in Nat /\ ti \in Ticks
  BY MaxRoundAssumption, Numbers DEF Good, TickSound, Ticks
<1>2. CASE Ahead(s, ti)
  BY Zenon, <1>2, Stays DEF HandleTimeout
<1>3. CASE ~Ahead(s, ti)
  <2>1. ti.round = s.round
    BY <1>1, <1>3 DEF TickSound, Ahead
  <2>2. 0 \in 0..(MaxRound + 1) /\ s.round + 1 \in 0..(MaxRound + 1)
    BY <1>1, MaxRoundAssumption DEF Rounds
  <2> DEFINE t == HandleTimeout(s, ti)
  <2>3. CASE ti.step = NewHeight
    <3>1. t = EnterNewRound(s, 0)
      BY <1>3, <2>3 DEF HandleTimeout, NewHeight, NewRound, Propose, PrevoteWait, PrecommitWait
    <3> QED
      BY Zenon, <2>2, <3>1, EnterNewRoundLeads
  <2>4. CASE ti.step = NewRound
    <3>1. t = EnterPropose(s, 0)
      BY <1>3, <2>4 DEF HandleTimeout, NewHeight, NewRound, Propose, PrevoteWait, PrecommitWait
    <3>2. s.round = 0
      BY Zenon, <2>1, <2>4 DEF TickSound
    <3> QED
      BY Zenon, <3>1, <3>2, EnterProposeLeads
  <2>5. CASE ti.step = Propose
    <3>1. t = EnterPrevote(s, s.round)
      BY <1>3, <2>1, <2>5 DEF HandleTimeout, NewHeight, NewRound, Propose, PrevoteWait, PrecommitWait
    <3> QED
      BY Zenon, <3>1, EnterPrevoteLeads
  <2>6. CASE ti.step = PrevoteWait
    <3>1. t = EnterPrecommit(s, s.round)
      BY <1>3, <2>1, <2>6 DEF HandleTimeout, NewHeight, NewRound, Propose, PrevoteWait, PrecommitWait
    <3> QED
      BY Zenon, <3>1, EnterPrecommitLeads
  <2>7. CASE ti.step = PrecommitWait
    <3> DEFINE u == EnterPrecommit(s, s.round)
    <3>1. t = EnterNewRound(u, s.round + 1)
      BY <1>3, <2>1, <2>7 DEF HandleTimeout, NewHeight, NewRound, Propose, PrevoteWait, PrecommitWait
    <3>2. Leads(s, u)
      BY Zenon, EnterPrecommitLeads
    <3> HIDE DEF u
    <3>3. Good(u)
      BY Zenon, <3>2 DEF Leads
    <3>4. Leads(u, t)
      BY Zenon, <2>2, <3>1, <3>3, EnterNewRoundLeads
    <3> QED
      BY Zenon, <3>2, <3>3, <3>4, Then
  <2> QED
    BY Zenon, <1>1, <2>3, <2>4, <2>5, <2>6, <2>7 DEF Ticks
<1> QED
  BY Zenon, <1>2, <1>3

\* handleTxsAvailable.
LEMMA HandleTxsAvailableLeads ==
    ASSUME NEW s, Good(s)
    PROVE  Leads(s, HandleTxsAvailable(s))
<1>1. s.round = 0 => s.round \in Rounds
  BY MaxRoundAssumption DEF Rounds
<1>2. s.round = 0 => Leads(s, ScheduleTimeout(s, 0, NewRound))
  BY Zenon, Scheduled
<1>3. s.round = 0 => Leads(s, EnterPropose(s, 0))
  BY Zenon, <1>1, EnterProposeLeads
<1> QED
  BY Zenon, <1>2, <1>3, Stays DEF HandleTxsAvailable

-----------------------------------------------------------------------------
(* The specification *)

\* Between two handlers the pending timeouts are of rounds entered.
LEMMA BecomeKeeps ==
    ASSUME IInv, NEW s, Good(s), cs.round <= s.round,
           NEW old \in SUBSET pending, Become(s, old)
    PROVE  IInv' /\ cs' = s
<1>1. cs' = s
  BY Zenon DEF Become
<1>2. TickSound(s.sched, s.round)
  BY Zenon DEF Good
<1>3. \A ti \in pending' : ti \in pending \/ ti = s.sched
  BY Zenon DEF Become
<1>4. ASSUME NEW ti \in pending PROVE TickSound(ti, s.round)
  <2>1. s \in RoundState /\ cs \in RoundState /\ TickSound(ti, cs.round)
    BY Zenon DEF IInv, Good
  <2>2. s.round \in Nat /\ cs.round \in Nat
    BY Zenon, <2>1, Numbers
  <2>3. ti \in Ticks /\ ti.round \in Int
    BY <2>1, MaxRoundAssumption DEF TickSound, Ticks
  <2> QED
    BY <2>1, <2>2, <2>3 DEF TickSound
<1> QED
  BY Zenon, <1>1, <1>2, <1>3, <1>4 DEF IInv, Good, Prevoted, Precommitted

\* A height begins in a good round state.
LEMMA InitKeeps == Init => IInv
<1> SUFFICES ASSUME Init PROVE IInv
  BY Zenon
<1>1. /\ cs.round = 0 /\ cs.step = NewHeight /\ cs.status = "running"
      /\ cs.proposal = None /\ cs.block = None /\ cs.parts = None
      /\ cs.lockedRound = -1 /\ cs.lockedBlock = None
      /\ cs.validRound = -1 /\ cs.validBlock = None
      /\ cs.commitRound = -1 /\ cs.triggered = FALSE /\ cs.hvsRound = 0
      /\ cs.prevotes = {} /\ cs.precommits = {} /\ cs.queue = <<>>
      /\ cs.sched = [round |-> 0, step |-> NewHeight] /\ pending = {cs.sched}
  BY Zenon DEF Init
<1>2. TickSound(cs.sched, 0)
  BY <1>1, MaxRoundAssumption DEF TickSound, Ticks
<1>3. <<>> \in Seq(Messages) /\ DOMAIN <<>> = {}
  OBVIOUS
<1>4. cs.round \in 0..(MaxRound + 1) /\ cs.hvsRound \in 0..(MaxRound + 2) /\ -1 \in -1..MaxRound
  BY <1>1, MaxRoundAssumption
<1>5. cs.step \in NewHeight..Commit
  BY <1>1 DEF NewHeight, Commit
<1>6. cs \in RoundState
  BY Zenon, <1>1, <1>2, <1>3, <1>4, <1>5 DEF Init, RoundState, TickSound
<1>7. Prevoted(cs) = {} /\ Precommitted(cs) = {}
  BY Zenon, <1>1, <1>3 DEF Prevoted, Precommitted, Own
<1>8. Good(cs)
  <2>1. RoundsSound(cs.round, cs.step, cs.hvsRound)
    BY Zenon, <1>1 DEF RoundsSound
  <2>2. VotesSound(cs.prevotes, "prevote") /\ VotesSound(cs.precommits, "precommit")
    BY Zenon, <1>1 DEF VotesSound
  <2>3. Ordered(cs.queue, cs.prevotes, cs.precommits)
    BY Zenon, <1>1, <1>3 DEF Ordered
  <2>4. /\ Voted({}, {}, cs.round, cs.step) /\ Justified({}, cs.prevotes) /\ Accepted({})
        /\ Kept({}, cs.prevotes, cs.round, cs.lockedRound, cs.lockedBlock)
        /\ Released({}, {}, cs.prevotes)
    BY Zenon DEF Voted, Justified, Accepted, Kept, Released
  <2>5. LockSound(cs.lockedRound, cs.lockedBlock, cs.prevotes, {})
    BY Zenon, <1>1 DEF LockSound
  <2>6. ValidSound(cs.validRound, cs.validBlock, cs.prevotes)
    BY Zenon, <1>1 DEF ValidSound
  <2> QED
    BY ZenonT(40), <1>1, <1>2, <1>6, <1>7, <2>1, <2>2, <2>3, <2>4, <2>5, <2>6 DEF Good
<1> QED
  BY Zenon, <1>1, <1>2, <1>8 DEF IInv

\* A step of receiveRoutine leaves the votes as they are, or adds one: a peer's,
\* or the first of the node's own in the queue.
SameVotes == cs'.prevotes = cs.prevotes /\ cs'.precommits = cs.precommits
AddsPrevote(m) ==
    cs'.prevotes = cs.prevotes \cup {VoteOf(m)} /\ cs'.precommits = cs.precommits
AddsPrecommit(m) ==
    cs'.prevotes = cs.prevotes /\ cs'.precommits = cs.precommits \cup {VoteOf(m)}

VotesStep ==
    \/ SameVotes
    \/ \E m \in PeerVotes : AddsPrevote(m) \/ AddsPrecommit(m)
    \/ /\ cs.queue # <<>>
       /\ Head(cs.queue) \in VoteMsgs
       /\ \/ Head(cs.queue).type = "prevote" /\ AddsPrevote(Head(cs.queue))
          \/ Head(cs.queue).type = "precommit" /\ AddsPrecommit(Head(cs.queue))

\* A handler that leaves the votes alone.
LEMMA LeadsKeeps ==
    ASSUME IInv, NEW s, Leads(cs, s), NEW old \in SUBSET pending, Become(s, old)
    PROVE  IInv' /\ VotesStep
<1>1. Good(s) /\ cs.round <= s.round
  BY Zenon DEF Leads
<1>2. IInv' /\ cs' = s
  BY Zenon, <1>1, BecomeKeeps
<1> QED
  BY Zenon, <1>2 DEF Leads, VotesStep, SameVotes

\* Every action keeps the invariant, and casts at most one vote.
LEMMA NextKeeps ==
    ASSUME IInv, Next
    PROVE  IInv' /\ VotesStep
<1>1. Good(cs) /\ pending \in SUBSET pending
  BY Zenon DEF IInv
<1>2. Running => cs.round \in Rounds
  <2>1. cs.round \in Nat
    BY Zenon, <1>1, Numbers DEF Good
  <2> QED
    BY <2>1, MaxRoundAssumption DEF Running, Rounds
<1>3. ASSUME NEW b \in Blocks, NEW pol \in -1..(MaxRound - 1), PeerProposal(b, pol)
      PROVE  IInv' /\ VotesStep
  <2> DEFINE m == [kind |-> "proposal", round |-> cs.round, pol |-> pol, block |-> b]
  <2>1. m.kind = "proposal" /\ m.pol \in -1..MaxRound /\ m.block \in Blocks
    BY MaxRoundAssumption
  <2>2. Become(HandleMsg(cs, m), pending)
    BY Zenon, <1>3 DEF PeerProposal
  <2> HIDE DEF m
  <2>3. HandleMsg(cs, m) = SetProposal(cs, m)
    BY Zenon, <2>1 DEF HandleMsg
  <2>4. Leads(cs, SetProposal(cs, m))
    BY Zenon, <1>1, <2>1, SetProposalLeads
  <2> QED
    BY Zenon, <1>1, <2>2, <2>3, <2>4, LeadsKeeps
<1>4. ASSUME NEW b \in Blocks, PeerPart(b)
      PROVE  IInv' /\ VotesStep
  <2>1. Running /\ Become(HandleMsg(cs, [kind |-> "part", block |-> b]), pending)
    BY Zenon, <1>4 DEF PeerPart
  <2>2. HandleMsg(cs, [kind |-> "part", block |-> b]) = AddProposalBlockPart(cs, b)
    BY Zenon DEF HandleMsg
  <2>3. Leads(cs, AddProposalBlockPart(cs, b))
    BY Zenon, <1>1, <1>2, <2>1, AddProposalBlockPartLeads
  <2> QED
    BY Zenon, <1>1, <2>1, <2>2, <2>3, LeadsKeeps
<1>5. ASSUME NEW m \in PeerVotes, PeerVote(m)
      PROVE  IInv' /\ VotesStep
  <2> DEFINE t == TryAddVote(cs, m)
  <2>1. m.kind = "vote"
    BY Zenon, PeerVotesAssumption
  <2>2. Running /\ ~Conflicts(cs, m) /\ Become(t, pending)
    BY Zenon, <1>5, <2>1 DEF PeerVote, HandleMsg
  <2>3. /\ Good(t) /\ cs.round <= t.round
        /\ \/ t.prevotes = cs.prevotes /\ t.precommits = cs.precommits
           \/ t.prevotes = cs.prevotes \cup {VoteOf(m)} /\ t.precommits = cs.precommits
           \/ t.prevotes = cs.prevotes /\ t.precommits = cs.precommits \cup {VoteOf(m)}
    BY Zenon, <1>1, <1>2, <2>2, PeerVoteLeads
  <2> HIDE DEF t
  <2>4. IInv' /\ cs' = t
    BY Zenon, <1>1, <2>2, <2>3, BecomeKeeps
  <2> QED
    BY Zenon, <2>3, <2>4 DEF VotesStep, SameVotes, AddsPrevote, AddsPrecommit
<1>6. ASSUME OwnMessage
      PROVE  IInv' /\ VotesStep
  <2> DEFINE m == Head(cs.queue)
             t == HandleMsg([cs EXCEPT !.queue = Tail(@)], m)
  <2>1. Running /\ cs.queue # <<>> /\ Become(t, pending)
    BY Zenon, <1>6 DEF OwnMessage
  <2>2. /\ Good(t) /\ cs.round <= t.round
        /\ \/ t.prevotes = cs.prevotes /\ t.precommits = cs.precommits
           \/ /\ m \in VoteMsgs /\ m.type = "prevote"
              /\ t.prevotes = cs.prevotes \cup {VoteOf(m)} /\ t.precommits = cs.precommits
           \/ /\ m \in VoteMsgs /\ m.type = "precommit"
              /\ t.prevotes = cs.prevotes /\ t.precommits = cs.precommits \cup {VoteOf(m)}
    BY ZenonT(40), <1>1, <1>2, <2>1, OwnMessageLeads
  <2> HIDE DEF t
  <2>3. IInv' /\ cs' = t
    BY Zenon, <1>1, <2>1, <2>2, BecomeKeeps
  <2> QED
    BY Zenon, <2>1, <2>2, <2>3 DEF VotesStep, SameVotes, AddsPrevote, AddsPrecommit
<1>7. ASSUME TxsAvailable
      PROVE  IInv' /\ VotesStep
  BY Zenon, <1>1, <1>7, HandleTxsAvailableLeads, LeadsKeeps DEF TxsAvailable
<1>8. ASSUME NEW ti \in pending, Timeout(ti)
      PROVE  IInv' /\ VotesStep
  <2>1. Running /\ Become(HandleTimeout(cs, ti), pending \ {ti}) /\ TickSound(ti, cs.round)
    BY Zenon, <1>8 DEF Timeout, IInv
  <2>2. Leads(cs, HandleTimeout(cs, ti))
    BY Zenon, <1>1, <1>2, <2>1, HandleTimeoutLeads
  <2>3. pending \ {ti} \in SUBSET pending
    BY Zenon
  <2> QED
    BY Zenon, <2>1, <2>2, <2>3, LeadsKeeps
<1> QED
  BY Zenon, <1>3, <1>4, <1>5, <1>6, <1>7, <1>8 DEF Next

\* A stuttering step changes nothing the invariant is about.
LEMMA StutterKeeps ==
    ASSUME IInv, UNCHANGED vars
    PROVE  IInv' /\ SameVotes
<1>1. cs' = cs /\ pending' = pending
  BY Zenon DEF vars
<1> QED
  BY Zenon, <1>1 DEF IInv, Good, Prevoted, Precommitted, SameVotes

\* The round state of one height stays good, in whatever order proposals, parts,
\* votes, own messages and timeouts reach receiveRoutine.
THEOREM StaysGood == Spec => []IInv
<1>1. Init => IInv
  BY Zenon, InitKeeps
<1>2. IInv /\ [Next]_vars => IInv'
  BY Zenon, NextKeeps, StutterKeeps
<1> QED
  BY <1>1, <1>2, PTL DEF Spec

-----------------------------------------------------------------------------
(* What the invariant implies *)

\* What Good says of a value of its fields, in the words of TypeOK.
LEMMA GoodAsserts ==
    ASSUME IInv
    PROVE  AssertionsHold
<1>1. cs \in RoundState /\ Good(cs)
  BY Zenon DEF IInv, Good
<1>2. /\ cs.lockedRound = -1 <=> cs.lockedBlock = None
      /\ cs.validRound = -1 <=> cs.validBlock = None
  BY Zenon, <1>1 DEF Good, LockSound, ValidSound
<1>3. Ticks \subseteq [round : 0..(MaxRound + 1), step : NewHeight..PrecommitWait]
  BY DEF Ticks, NewHeight, NewRound, Propose, PrevoteWait, PrecommitWait
<1>4. pending \subseteq Ticks /\ cs.sched \in Ticks
  BY Zenon, <1>1 DEF IInv, TickSound, RoundState
<1>5. cs.status # "panic" /\ cs.block \in {None, cs.parts}
  BY Zenon, <1>1 DEF RoundState, Good
<1>6. /\ cs.round \in 0..(MaxRound + 1)
      /\ cs.step \in NewHeight..Commit
      /\ cs.status \in {"running", "decided", "panic"}
      /\ cs.proposal \in {None} \cup [pol : -1..MaxRound, block : Blocks]
      /\ {cs.block, cs.parts, cs.lockedBlock, cs.validBlock} \subseteq Blocks \cup {None}
      /\ {cs.lockedRound, cs.validRound, cs.commitRound} \subseteq -1..MaxRound
      /\ cs.triggered \in BOOLEAN
      /\ cs.hvsRound \in 0..(MaxRound + 2)
      /\ cs.prevotes \cup cs.precommits \subseteq [val : Validators, round : Rounds, value : Values]
  BY Zenon, <1>1 DEF RoundState, Votes
<1>7. TypeOK
  BY Zenon, <1>2, <1>3, <1>4, <1>6 DEF TypeOK
<1> QED
  BY Zenon, <1>5, <1>7 DEF AssertionsHold, NoPanic, BlockMatchesParts

\* An own vote in the votes or the queue is one of Prevoted or Precommitted.
LEMMA OwnIsOwn ==
    ASSUME NEW r \in Rounds, NEW v \in Values
    PROVE  /\ OwnVote("prevote", r, v) <=> [round |-> r, value |-> v] \in Prevoted(cs)
           /\ OwnVote("precommit", r, v) <=> [round |-> r, value |-> v] \in Precommitted(cs)
<1> DEFINE own == [round |-> r, value |-> v]
<1>1. own \in OwnVotes /\ own.round = r /\ own.value = v
  BY Zenon DEF OwnVotes
<1> HIDE DEF own
<1> QED
  BY Zenon, <1>1 DEF OwnVote, Prevoted, Precommitted, Own, VoteMsg, own

\* A polka the node has is the majority its vote set reports.
LEMMA GoodJustifies ==
    ASSUME IInv
    PROVE  PolkasJustify
<1>1. /\ cs.prevotes \in SUBSET Votes /\ VotesSound(cs.prevotes, "prevote")
      /\ cs.lockedBlock \in Blocks \cup {None} /\ cs.validBlock \in Blocks \cup {None}
      /\ cs.lockedRound \in -1..MaxRound
  BY Zenon DEF IInv, Good, RoundState
<1>2. LockSound(cs.lockedRound, cs.lockedBlock, cs.prevotes, Precommitted(cs))
  BY Zenon DEF IInv, Good
<1>3. ValidSound(cs.validRound, cs.validBlock, cs.prevotes)
  BY Zenon DEF IInv, Good
<1>4. LockIsJustified
  <2> SUFFICES ASSUME cs.lockedBlock # None
               PROVE  /\ cs.lockedBlock \in ValidBlocks
                      /\ TwoThirdsMajority(cs.prevotes, cs.lockedRound) = cs.lockedBlock
                      /\ OwnVote("precommit", cs.lockedRound, cs.lockedBlock)
    BY Zenon DEF LockIsJustified
  <2>1. cs.lockedBlock \in Values /\ cs.lockedRound \in Rounds
    BY <1>1, <1>2, MaxRoundAssumption DEF LockSound, Values, Rounds
  <2> QED
    BY Zenon, <1>1, <1>2, <2>1, MajorityIsPolka, OwnIsOwn DEF LockSound
<1>5. ValidIsJustified
  BY Zenon, <1>1, <1>3, MajorityIsPolka DEF ValidIsJustified, ValidSound, Values
<1> QED
  BY Zenon, <1>4, <1>5 DEF PolkasJustify

\* A block that the node votes for is a block it accepted.
LEMMA GoodAccepts ==
    ASSUME IInv
    PROVE  OwnVotesAreValid
<1> SUFFICES ASSUME NEW type \in {"prevote", "precommit"}, NEW r \in Rounds, NEW v \in Blocks,
                    OwnVote(type, r, v)
             PROVE  v \in ValidBlocks
  BY Zenon DEF OwnVotesAreValid
<1>1. v \in Values /\ v # Nil
  BY Zenon, BlocksAssumption DEF Values
<1>2. Accepted(Prevoted(cs)) /\ Accepted(Precommitted(cs))
  BY Zenon DEF IInv, Good
<1>3. [round |-> r, value |-> v] \in Prevoted(cs) \cup Precommitted(cs)
  BY Zenon, <1>1, OwnIsOwn
<1> QED
  BY Zenon, <1>1, <1>2, <1>3 DEF Accepted

\* AssertionsHold: no assertion of the handlers of state.go fails, and the
\* proposal block always matches its parts, for every validator set, set of
\* blocks and number of rounds.
THEOREM AssertionsNeverFail == Spec => []AssertionsHold
<1>1. IInv => AssertionsHold
  BY Zenon, GoodAsserts
<1> QED
  BY <1>1, StaysGood, PTL

\* PolkasJustify: the lock and the valid block rest on +2/3 prevotes that the
\* node has, and the lock on its own precommit.
THEOREM LocksAreJustified == Spec => []PolkasJustify
<1>1. IInv => PolkasJustify
  BY Zenon, GoodJustifies
<1> QED
  BY <1>1, StaysGood, PTL

\* OwnVotesAreValid: the node signs no vote for a block that ValidateBlock
\* rejects, provided that fewer than +2/3 of the power prevote for one.
THEOREM VotesOnlyForValid == Spec => []OwnVotesAreValid
<1>1. IInv => OwnVotesAreValid
  BY Zenon, GoodAccepts
<1> QED
  BY <1>1, StaysGood, PTL

-----------------------------------------------------------------------------
(* The voting discipline *)

\* A polka here is a polka there.
LEMMA PolkaThere ==
    ASSUME NEW r, NEW v, HasPolka(cs.prevotes, r, v)
    PROVE  A!Polka(v, r)
<1>1. VotersFor(cs.prevotes, r, v) \in Quorum
  BY Zenon DEF HasPolka
<1>2. \A p \in VotersFor(cs.prevotes, r, v) : A!Vote(p, r, v) \in cs.prevotes
  BY Zenon DEF VotersFor, Vote, A!Vote
<1> QED
  BY Zenon, <1>1, <1>2 DEF A!Polka

\* The node's own vote, when it leaves the queue, is one that a correct
\* validator may cast.
LEMMA OwnVoteAllowed ==
    ASSUME IInv, cs.queue # <<>>, NEW m, m = Head(cs.queue), m \in VoteMsgs
    PROVE  /\ A!NotBeyond(Me, m.round)
           /\ m.type = "prevote" =>
                 A!NotVoted(cs.prevotes, Me, m.round) /\ A!Released(Me, m.round, m.value)
           /\ m.type = "precommit" =>
                 /\ A!NotVoted(cs.precommits, Me, m.round)
                 /\ m.value # Nil => A!Polka(m.value, m.round)
<1>1. /\ Good(cs) /\ cs.queue \in Seq(Messages)
      /\ cs.prevotes \subseteq Votes /\ cs.precommits \subseteq Votes
  BY Zenon DEF IInv, Good, RoundState
<1>2. /\ \A n \in cs.prevotes : n.val = Me =>
            n.round <= m.round /\ (m.type = "prevote" => n.round # m.round)
      /\ \A n \in cs.precommits : n.val = Me =>
            n.round <= m.round /\ (m.type = "precommit" => n.round # m.round)
  BY Zenon, <1>1, OwnVoteIsNew
<1>3. 1 \in DOMAIN cs.queue /\ m = cs.queue[1]
  BY Zenon, <1>1, Dequeued
<1>4. m = VoteMsg(m.type, m.round, m.value) /\ m.round \in Rounds /\ m.value \in Values
  BY Zenon DEF VoteMsgs, VoteMsg
<1> DEFINE own == [round |-> m.round, value |-> m.value]
<1>5. own \in OwnVotes /\ own.round = m.round /\ own.value = m.value
  BY Zenon, <1>4 DEF OwnVotes
<1> HIDE DEF own
<1>6. /\ m.type = "prevote" => own \in Prevoted(cs)
      /\ m.type = "precommit" => own \in Precommitted(cs)
  BY Zenon, <1>3, <1>4, <1>5 DEF Prevoted, Precommitted, Own
<1>7. A!NotBeyond(Me, m.round)
  BY Zenon, <1>2 DEF A!NotBeyond
<1>8. ASSUME m.type = "prevote"
      PROVE  A!NotVoted(cs.prevotes, Me, m.round) /\ A!Released(Me, m.round, m.value)
  <2>1. ASSUME NEW n \in cs.precommits,
               n.val = Me /\ n.round < m.round /\ n.value # Nil /\ n.value # m.value
        PROVE  \E w \in Values, t \in Rounds :
                   w # n.value /\ n.round < t /\ t <= m.round /\ A!Polka(w, t)
    <3> DEFINE mine == [round |-> n.round, value |-> n.value]
    <3>1. n = Vote(Me, n.round, n.value) /\ n.round \in Rounds /\ n.value \in Values
      BY Zenon, <1>1, <2>1 DEF Votes, Vote
    <3>2. mine \in OwnVotes /\ mine.round = n.round /\ mine.value = n.value
      BY Zenon, <3>1 DEF OwnVotes
    <3> HIDE DEF mine
    <3>3. mine \in Precommitted(cs)
      BY Zenon, <3>1, <3>2 DEF Precommitted, Own
    <3>4. Released(Prevoted(cs), Precommitted(cs), cs.prevotes)
      BY Zenon, <1>1 DEF Good
    <3>5. PolkaAgainst(cs.prevotes, n.value, n.round, m.round)
      BY ZenonT(40), <1>5, <1>6, <1>8, <2>1, <3>2, <3>3, <3>4 DEF Released
    <3> QED
      BY Zenon, <3>5, PolkaThere DEF PolkaAgainst
  <2>2. A!Released(Me, m.round, m.value)
    BY Zenon, <2>1 DEF A!Released, A!Values, Values
  <2> QED
    BY Zenon, <1>2, <1>8, <2>2 DEF A!NotVoted
<1>9. ASSUME m.type = "precommit"
      PROVE  /\ A!NotVoted(cs.precommits, Me, m.round)
             /\ m.value # Nil => A!Polka(m.value, m.round)
  <2>1. Justified(Precommitted(cs), cs.prevotes)
    BY Zenon, <1>1 DEF Good
  <2> QED
    BY Zenon, <1>2, <1>5, <1>6, <1>9, <2>1, PolkaThere DEF A!NotVoted, Justified
<1> QED
  BY Zenon, <1>7, <1>8, <1>9

\* Every step casts at most one vote, by the rules of Agreement.
LEMMA StepDisciplined ==
    ASSUME IInv, VotesStep
    PROVE  [A!Next]_(A!vars)
<1>1. CASE SameVotes
  BY Zenon, <1>1 DEF SameVotes, A!vars
<1>2. ASSUME NEW m \in PeerVotes, AddsPrevote(m) \/ AddsPrecommit(m)
      PROVE  A!Next
  <2>1. /\ m.val \in Validators \ {Me} /\ m.round \in Rounds /\ m.value \in Values
        /\ VoteOf(m) = A!Vote(m.val, m.round, m.value)
    BY Zenon, PeerVotesAssumption DEF VoteOf, Vote, A!Vote
  <2>2. A!FaultyVote(m.val, m.round, m.value)
    BY Zenon, <1>2, <2>1 DEF A!FaultyVote, AddsPrevote, AddsPrecommit
  <2> QED
    BY Zenon, <2>1, <2>2 DEF A!Next, A!Values, Values
<1>3. ASSUME cs.queue # <<>>, NEW m, m = Head(cs.queue), m \in VoteMsgs,
             \/ m.type = "prevote" /\ AddsPrevote(m)
             \/ m.type = "precommit" /\ AddsPrecommit(m)
      PROVE  A!Next
  <2>1. /\ m.round \in Rounds /\ m.value \in Values
        /\ VoteOf(m) = A!Vote(Me, m.round, m.value)
    BY Zenon, <1>3 DEF VoteMsgs, VoteOf, Vote, A!Vote
  <2>2. /\ A!NotBeyond(Me, m.round)
        /\ m.type = "prevote" =>
              A!NotVoted(cs.prevotes, Me, m.round) /\ A!Released(Me, m.round, m.value)
        /\ m.type = "precommit" =>
              /\ A!NotVoted(cs.precommits, Me, m.round)
              /\ m.value # Nil => A!Polka(m.value, m.round)
    BY Zenon, <1>3, OwnVoteAllowed
  <2>3. A!Prevote(Me, m.round, m.value) \/ A!Precommit(Me, m.round, m.value)
    BY Zenon, <1>3, <2>1, <2>2 DEF A!Prevote, A!Precommit, AddsPrevote, AddsPrecommit
  <2> QED
    BY Zenon, <2>1, <2>3 DEF A!Next, A!Values, Values
<1> QED
  BY Zenon, <1>1, <1>2, <1>3 DEF VotesStep

\* VotingDiscipline: state.go implements the voting rules that Agreement derives
\* agreement from.  The votes of the node's own vote sets are cast by those
\* rules, those of the others arbitrarily.
THEOREM FollowsDiscipline == Spec => VotingDiscipline
<1>1. Init => A!Init
  BY DEF Init, A!Init
<1>2. IInv /\ [Next]_vars => [A!Next]_(A!vars)
  <2> SUFFICES ASSUME IInv, [Next]_vars PROVE [A!Next]_(A!vars)
    BY Zenon
  <2>1. VotesStep
    BY Zenon, NextKeeps, StutterKeeps DEF VotesStep
  <2> QED
    BY Zenon, <2>1, StepDisciplined
<1> QED
  BY <1>1, <1>2, StaysGood, PTL DEF Spec, VotingDiscipline, A!Spec
=============================================================================
