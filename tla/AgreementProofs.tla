-------------------------- MODULE AgreementProofs ---------------------------
(***************************************************************************)
(* Agreement for any number of validators, blocks and rounds.              *)
(*                                                                         *)
(* AgreementOK alone is not inductive.  The strengthening says, of every   *)
(* polka for w in round s, that no other block v can be committed in an    *)
(* earlier round r any more: each quorum has a correct member that did not *)
(* precommit v in r and never will (PolkaIsSafe).  A correct validator     *)
(* that did precommit v and later prevoted something else was released by  *)
(* such a polka (ReleasedVotes), which closes the induction.               *)
(***************************************************************************)
EXTENDS Agreement, TLAPS

\* Faulty validators hold less than 1/3 of the power, so two sets with more
\* than 2/3 of it have a correct validator in common.
ASSUME IntersectionAssumption ==
    \A Q1, Q2 \in Quorum : \E p \in Correct : p \in Q1 /\ p \in Q2

\* Correct p has precommitted v in round r, or may still do so.
CanPrecommit(p, v, r) ==
    \/ Vote(p, r, v) \in precommits
    \/ NotVoted(precommits, p, r) /\ NotBeyond(p, r)

\* No quorum can precommit v in round r.
CannotCommit(v, r) ==
    \A Q \in Quorum : \E p \in Q : p \in Correct /\ ~CanPrecommit(p, v, r)

PolkaIsSafe ==
    \A v \in Blocks, w \in Values, r, s \in Rounds :
        v # w /\ r < s /\ Polka(w, s) => CannotCommit(v, r)

\* A correct validator votes once per round and type.
VotesOnce ==
    /\ \A m1, m2 \in prevotes :
          m1.val \in Correct /\ m1.val = m2.val /\ m1.round = m2.round => m1 = m2
    /\ \A m1, m2 \in precommits :
          m1.val \in Correct /\ m1.val = m2.val /\ m1.round = m2.round => m1 = m2

\* A correct validator precommits a block only on a polka of the round.
PrecommitHasPolka ==
    \A m \in precommits : m.val \in Correct /\ m.value # Nil => Polka(m.value, m.round)

\* A correct validator that precommitted a block and later prevoted another
\* value was released by a polka in between.
ReleasedVotes ==
    \A m \in precommits, n \in prevotes :
        /\ m.val \in Correct /\ m.val = n.val /\ m.value # Nil
        /\ m.round < n.round /\ m.value # n.value
        => \E w \in Values, s \in Rounds :
              w # m.value /\ m.round < s /\ s <= n.round /\ Polka(w, s)

IInv ==
    /\ TypeOK
    /\ VotesOnce
    /\ PrecommitHasPolka
    /\ ReleasedVotes
    /\ PolkaIsSafe

-----------------------------------------------------------------------------

\* No votes at all satisfy the inductive invariant.
LEMMA InitIInv == Init => IInv
<1> SUFFICES ASSUME Init PROVE IInv
  OBVIOUS
<1> USE DEF Init
<1>1. \A v, r : ~Polka(v, r)
  BY IntersectionAssumption DEF Polka
<1> QED
  BY <1>1 DEF IInv, TypeOK, VotesOnce, PrecommitHasPolka, ReleasedVotes, PolkaIsSafe

\* Rounds are numbers.
LEMMA RoundsInt == \A r \in Rounds : r \in Int
  BY RoundsAssumption

\* Votes are never withdrawn, so a polka stays and a lost chance to commit
\* stays lost.
LEMMA Monotone ==
    ASSUME TypeOK, Next
    PROVE  /\ prevotes \subseteq prevotes' /\ precommits \subseteq precommits'
           /\ \A v, r : Polka(v, r) => Polka(v, r)'
           /\ \A p \in Correct, v \in Values, r \in Rounds :
                 CanPrecommit(p, v, r)' => CanPrecommit(p, v, r)
<1>1. prevotes \subseteq prevotes' /\ precommits \subseteq precommits'
  BY DEF Next, Prevote, Precommit, FaultyVote
<1>2. \A v, r : Polka(v, r) => Polka(v, r)'
  BY <1>1 DEF Polka
<1>3. ASSUME NEW p \in Correct, NEW v \in Values, NEW r \in Rounds,
             CanPrecommit(p, v, r)'
      PROVE  CanPrecommit(p, v, r)
  <2>1. CASE NotVoted(precommits, p, r)' /\ NotBeyond(p, r)'
    BY <1>1, <2>1 DEF CanPrecommit, NotVoted, NotBeyond
  <2>2. CASE Vote(p, r, v) \in precommits'
    <3>1. CASE Vote(p, r, v) \in precommits
      BY <3>1 DEF CanPrecommit
    <3>2. CASE Vote(p, r, v) \notin precommits
      <4>1. PICK q \in Correct, t \in Rounds, w \in Values : Precommit(q, t, w)
        BY <2>2, <3>2, CorrectAssumption DEF Next, Prevote, Precommit, FaultyVote, Vote
      <4>2. Vote(p, r, v) = Vote(q, t, w)
        BY <2>2, <3>2, <4>1 DEF Precommit
      <4>3. p = q /\ r = t
        BY <4>2 DEF Vote
      <4> QED
        BY <4>1, <4>3 DEF Precommit, CanPrecommit
    <3> QED
      BY <3>1, <3>2
  <2> QED
    BY <1>3, <2>1, <2>2 DEF CanPrecommit
<1> QED
  BY <1>1, <1>2, <1>3

\* A correct validator that voted in a later round can precommit v in round r
\* only if it already has.
LEMMA PastRound ==
    ASSUME TypeOK, NEW p \in Correct, NEW v \in Values, NEW r \in Rounds,
           NEW n \in prevotes \cup precommits, n.val = p, r < n.round,
           CanPrecommit(p, v, r)
    PROVE  Vote(p, r, v) \in precommits
<1>1. n.round \in Rounds
  BY DEF TypeOK, Votes
<1>2. r \in Int /\ n.round \in Int
  BY <1>1, RoundsInt
<1> QED
  BY <1>2 DEF CanPrecommit, NotBeyond

\* A new vote keeps the polkas safe.
LEMMA NextPolkaIsSafe == IInv /\ Next => PolkaIsSafe'
<1> SUFFICES ASSUME IInv, Next,
                    NEW v \in Blocks, NEW w \in Values,
                    NEW r \in Rounds, NEW s \in Rounds,
                    v # w, r < s, Polka(w, s)',
                    NEW Q \in Quorum
             PROVE  \E p \in Q : p \in Correct /\ ~CanPrecommit(p, v, r)'
  BY DEF PolkaIsSafe, CannotCommit
<1> USE DEF IInv
<1>1. v \in Values /\ v # Nil
  BY NilAssumption DEF Values
<1>2. CASE \E x \in Values, t \in Rounds : x # v /\ r < t /\ Polka(x, t)
  <2>1. PICK p \in Q : p \in Correct /\ ~CanPrecommit(p, v, r)
    BY <1>2 DEF PolkaIsSafe, CannotCommit
  <2> QED
    BY <1>1, <2>1, Monotone
<1>3. CASE ~\E x \in Values, t \in Rounds : x # v /\ r < t /\ Polka(x, t)
  <2>1. PICK Q2 \in Quorum : \A p \in Q2 : Vote(p, s, w) \in prevotes'
    BY DEF Polka
  <2>2. PICK p \in Correct : p \in Q /\ p \in Q2
    BY IntersectionAssumption
  <2> SUFFICES ASSUME CanPrecommit(p, v, r)' PROVE FALSE
    BY <2>2
  <2>3. CanPrecommit(p, v, r)
    BY <1>1, Monotone
  <2>4. Vote(p, s, w) \in prevotes'
    BY <2>1, <2>2
  <2>5. CASE Vote(p, s, w) \in prevotes
    <3>1. Vote(p, s, w).val = p /\ Vote(p, s, w).round = s /\ Vote(p, s, w).value = w
      BY DEF Vote
    <3>2. Vote(p, r, v) \in precommits
      BY <1>1, <2>3, <2>5, <3>1, PastRound
    <3>3. Vote(p, r, v).val = p /\ Vote(p, r, v).round = r /\ Vote(p, r, v).value = v
      BY DEF Vote
    <3>4. \E x \in Values, t \in Rounds : x # v /\ r < t /\ t <= s /\ Polka(x, t)
      BY <1>1, <2>5, <3>1, <3>2, <3>3 DEF ReleasedVotes
    <3> QED
      BY <1>3, <3>4
  <2>6. CASE Vote(p, s, w) \notin prevotes
    <3>1. PICK q \in Correct, t \in Rounds, x \in Values : Prevote(q, t, x)
      BY <2>4, <2>6 DEF Next, Prevote, Precommit, FaultyVote, Vote
    <3>2. Vote(p, s, w) = Vote(q, t, x)
      BY <2>4, <2>6, <3>1 DEF Prevote
    <3>3. p = q /\ s = t /\ w = x
      BY <3>2 DEF Vote
    <3>4. Released(p, s, w) /\ UNCHANGED precommits /\ Vote(p, s, w) \in prevotes'
      BY <2>4, <3>1, <3>3 DEF Prevote
    <3>5. TypeOK'
      BY <3>1, <3>3, CorrectAssumption DEF TypeOK, Prevote, Votes, Vote
    <3>6. Vote(p, r, v) \in precommits
      <4>1. Vote(p, s, w).val = p /\ Vote(p, s, w).round = s
        BY DEF Vote
      <4>2. r \in Int /\ s \in Int
        BY RoundsAssumption
      <4>3. ~NotBeyond(p, r)'
        BY <3>4, <4>1, <4>2 DEF NotBeyond
      <4> QED
        BY <3>4, <4>3 DEF CanPrecommit
    <3>7. Vote(p, r, v).val = p /\ Vote(p, r, v).round = r /\ Vote(p, r, v).value = v
      BY DEF Vote
    <3>8. \E y \in Values, u \in Rounds : y # v /\ r < u /\ u <= s /\ Polka(y, u)
      BY <1>1, <3>4, <3>6, <3>7 DEF Released
    <3> QED
      BY <1>3, <3>8
  <2> QED
    BY <2>5, <2>6
<1> QED
  BY <1>2, <1>3

\* Every vote preserves the inductive invariant.
LEMMA NextIInv == IInv /\ [Next]_vars => IInv'
<1> SUFFICES ASSUME IInv, [Next]_vars PROVE IInv'
  OBVIOUS
<1>1. CASE UNCHANGED vars
  BY <1>1 DEF vars, IInv, TypeOK, VotesOnce, PrecommitHasPolka, ReleasedVotes,
     PolkaIsSafe, Polka, CannotCommit, CanPrecommit, NotVoted, NotBeyond
<1>2. ASSUME NEW p \in Correct, NEW r \in Rounds, NEW v \in Values, Prevote(p, r, v)
      PROVE  TypeOK' /\ VotesOnce' /\ PrecommitHasPolka' /\ ReleasedVotes'
  <2> DEFINE new == Vote(p, r, v)
  <2>1. new.val = p /\ new.round = r /\ new.value = v /\ new \in Votes
    BY CorrectAssumption DEF Vote, Votes
  <2>2. prevotes' = prevotes \cup {new} /\ precommits' = precommits
    BY <1>2 DEF Prevote
  <2>3. TypeOK'
    BY <2>1, <2>2 DEF IInv, TypeOK
  <2>4. VotesOnce'
    BY <1>2, <2>1, <2>2 DEF IInv, VotesOnce, Prevote, NotVoted
  <2>5. Next
    BY <1>2 DEF Next
  <2>6. \A w, s : Polka(w, s) => Polka(w, s)'
    BY <2>5, Monotone DEF IInv
  <2>7. PrecommitHasPolka'
    BY <2>2, <2>6 DEF IInv, PrecommitHasPolka
  <2>8. ReleasedVotes'
    <3> SUFFICES ASSUME NEW m \in precommits, NEW n \in prevotes',
                        m.val \in Correct, m.val = n.val, m.value # Nil,
                        m.round < n.round, m.value # n.value
                 PROVE  \E w \in Values, s \in Rounds :
                           w # m.value /\ m.round < s /\ s <= n.round /\ Polka(w, s)
      BY <2>2, <2>6 DEF ReleasedVotes
    <3>1. CASE n \in prevotes
      BY <3>1 DEF IInv, ReleasedVotes
    <3>2. CASE n = new
      BY <1>2, <2>1, <3>2 DEF Prevote, Released
    <3> QED
      BY <2>2, <3>1, <3>2
  <2> QED
    BY <2>3, <2>4, <2>7, <2>8
<1>3. ASSUME NEW p \in Correct, NEW r \in Rounds, NEW v \in Values, Precommit(p, r, v)
      PROVE  TypeOK' /\ VotesOnce' /\ PrecommitHasPolka' /\ ReleasedVotes'
  <2> DEFINE new == Vote(p, r, v)
  <2>1. new.val = p /\ new.round = r /\ new.value = v /\ new \in Votes
    BY CorrectAssumption DEF Vote, Votes
  <2>2. precommits' = precommits \cup {new} /\ prevotes' = prevotes
    BY <1>3 DEF Precommit
  <2>3. TypeOK'
    BY <2>1, <2>2 DEF IInv, TypeOK
  <2>4. VotesOnce'
    BY <1>3, <2>1, <2>2 DEF IInv, VotesOnce, Precommit, NotVoted
  <2>5. \A w, s : Polka(w, s)' = Polka(w, s)
    BY <2>2 DEF Polka
  <2>6. PrecommitHasPolka'
    BY <1>3, <2>1, <2>2, <2>5 DEF IInv, PrecommitHasPolka, Precommit
  <2>7. ReleasedVotes'
    <3> SUFFICES ASSUME NEW m \in precommits', NEW n \in prevotes,
                        m.val \in Correct, m.val = n.val, m.value # Nil,
                        m.round < n.round, m.value # n.value
                 PROVE  \E w \in Values, s \in Rounds :
                           w # m.value /\ m.round < s /\ s <= n.round /\ Polka(w, s)
      BY <2>2, <2>5 DEF ReleasedVotes
    <3>1. CASE m \in precommits
      BY <3>1 DEF IInv, ReleasedVotes
    <3>2. CASE m = new
      <4>1. n.round <= r
        BY <1>3, <2>1, <3>2 DEF Precommit, NotBeyond
      <4>2. n.round \in Rounds /\ r \in Rounds
        BY DEF IInv, TypeOK, Votes
      <4>3. n.round \in Int /\ r \in Int
        BY <4>2, RoundsInt
      <4> QED
        BY <2>1, <3>2, <4>1, <4>3
    <3> QED
      BY <2>2, <3>1, <3>2
  <2> QED
    BY <2>3, <2>4, <2>6, <2>7
<1>4. ASSUME NEW p \in Validators \ Correct, NEW r \in Rounds, NEW v \in Values,
             FaultyVote(p, r, v)
      PROVE  TypeOK' /\ VotesOnce' /\ PrecommitHasPolka' /\ ReleasedVotes'
  <2> DEFINE new == Vote(p, r, v)
  <2>1. new.val = p /\ new.val \notin Correct /\ new \in Votes
    BY DEF Vote, Votes
  <2>2. prevotes' \subseteq prevotes \cup {new} /\ precommits' \subseteq precommits \cup {new}
    BY <1>4 DEF FaultyVote
  <2>3. Next
    BY <1>4 DEF Next
  <2>4. \A w, s : Polka(w, s) => Polka(w, s)'
    BY <2>3, Monotone DEF IInv
  <2>5. TypeOK' /\ VotesOnce'
    BY <2>1, <2>2 DEF IInv, TypeOK, VotesOnce
  <2>6. PrecommitHasPolka'
    BY <2>1, <2>2, <2>4 DEF IInv, PrecommitHasPolka
  <2>7. ReleasedVotes'
    <3> SUFFICES ASSUME NEW m \in precommits', NEW n \in prevotes',
                        m.val \in Correct, m.val = n.val, m.value # Nil,
                        m.round < n.round, m.value # n.value
                 PROVE  \E w \in Values, s \in Rounds :
                           w # m.value /\ m.round < s /\ s <= n.round /\ Polka(w, s)
      BY <2>4 DEF ReleasedVotes
    <3>1. m \in precommits /\ n \in prevotes
      BY <2>1, <2>2
    <3> QED
      BY <3>1 DEF IInv, ReleasedVotes
  <2> QED
    BY <2>5, <2>6, <2>7
<1>5. CASE Next
  <2>1. TypeOK' /\ VotesOnce' /\ PrecommitHasPolka' /\ ReleasedVotes'
    BY <1>2, <1>3, <1>4, <1>5 DEF Next
  <2> QED
    BY <1>5, <2>1, NextPolkaIsSafe DEF IInv
<1> QED
  BY <1>1, <1>5

\* The inductive invariant holds in every reachable state.
THEOREM Invariance == Spec => []IInv
  BY InitIInv, NextIInv, PTL DEF Spec

\* A block precommitted by a quorum had a polka in that round.
LEMMA CommitHasPolka ==
    ASSUME IInv, NEW v \in Blocks, NEW r \in Rounds, CommitQuorum(v, r)
    PROVE  Polka(v, r)
<1>1. PICK Q \in Quorum : \A p \in Q : Vote(p, r, v) \in precommits
  BY DEF CommitQuorum
<1>2. PICK p \in Correct : p \in Q
  BY IntersectionAssumption
<1>3. Vote(p, r, v).val = p /\ Vote(p, r, v).round = r /\ Vote(p, r, v).value = v
  BY DEF Vote
<1> QED
  BY <1>1, <1>2, <1>3, NilAssumption DEF IInv, PrecommitHasPolka

\* A committed block excludes a polka for anything else in a later round.
LEMMA CommittedIsStable ==
    ASSUME IInv, NEW v \in Blocks, NEW w \in Values,
           NEW r \in Rounds, NEW s \in Rounds,
           CommitQuorum(v, r), r < s, Polka(w, s)
    PROVE  v = w
<1> SUFFICES ASSUME v # w PROVE FALSE
  OBVIOUS
<1>1. PICK Q \in Quorum : \A p \in Q : Vote(p, r, v) \in precommits
  BY DEF CommitQuorum
<1>2. CannotCommit(v, r)
  BY DEF IInv, PolkaIsSafe
<1>3. PICK p \in Q : p \in Correct /\ ~CanPrecommit(p, v, r)
  BY <1>2 DEF CannotCommit
<1> QED
  BY <1>1, <1>3 DEF CanPrecommit

\* After a commit no later round has a polka for anything else.
THEOREM PolkaAfterCommit == Spec => []NoConflictingPolka
<1>1. IInv => NoConflictingPolka
  BY CommittedIsStable DEF NoConflictingPolka
<1> QED
  BY <1>1, Invariance, PTL

\* No two different blocks are committed at one height, whatever the number
\* of validators, blocks and rounds, if fewer than 1/3 are faulty.
THEOREM AgreementHolds == Spec => []AgreementOK
<1>1. IInv => AgreementOK
  <2> SUFFICES ASSUME IInv, NEW v \in Blocks, NEW w \in Blocks,
                      NEW r \in Rounds, NEW s \in Rounds,
                      CommitQuorum(v, r), CommitQuorum(w, s)
               PROVE  v = w
    BY DEF AgreementOK
  <2>1. v \in Values /\ w \in Values
    BY DEF Values
  <2>2. Polka(v, r) /\ Polka(w, s)
    BY CommitHasPolka
  <2>3. CASE r < s
    BY <2>1, <2>2, <2>3, CommittedIsStable
  <2>4. CASE s < r
    BY <2>1, <2>2, <2>4, CommittedIsStable
  <2>5. CASE r = s
    <3>1. PICK Q1 \in Quorum : \A p \in Q1 : Vote(p, r, v) \in precommits
      BY DEF CommitQuorum
    <3>2. PICK Q2 \in Quorum : \A p \in Q2 : Vote(p, s, w) \in precommits
      BY DEF CommitQuorum
    <3>3. PICK p \in Correct : p \in Q1 /\ p \in Q2
      BY IntersectionAssumption
    <3>4. Vote(p, r, v) = Vote(p, s, w)
      BY <2>5, <3>1, <3>2, <3>3 DEF IInv, VotesOnce, Vote
    <3> QED
      BY <3>4 DEF Vote
  <2>6. r \in Int /\ s \in Int
    BY RoundsAssumption
  <2> QED
    BY <2>3, <2>4, <2>5, <2>6
<1> QED
  BY <1>1, Invariance, PTL
=============================================================================
