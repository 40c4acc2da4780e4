---------------------------- MODULE ValidatorSet ----------------------------
(***************************************************************************)
(* The validator set (pkgs/bft/types/validator_set.go): the rotation of    *)
(* the proposer by priorities, changes of the set, and the sets that the   *)
(* state store (pkgs/bft/state/store.go) keeps for every height, of which  *)
(* it stores only some and computes the others.                            *)
(*                                                                         *)
(* A set has its validators in the order of their addresses, and the last  *)
(* proposer.                                                               *)
(* The integers are those of a machine whose int64 ends at MaxInt; they    *)
(* are clipped where the code clips them.                                  *)
(***************************************************************************)
EXTENDS Integers, Sequences, SequencesExt, FiniteSetsExt

CONSTANTS
    Genesis,        \* the validators of the genesis document, [addr, power]
    ChangeSets,     \* what EndBlock may answer: lists of the same
    MaxInt,
    Interval,       \* valSetCheckpointInterval
    MaxHeight,
    None

\* Mutant: no room for the priorities.
MaxTotalVotingPower_Unlimited == MaxInt

MaxTotalVotingPower == MaxInt \div 8
PriorityWindowSizeFactor == 2

VARIABLES
    state,      \* [height, validators, next, lastChanged] of the last block
    infos,      \* height -> [set or None, lastChanged], as saved
    actual      \* history: height -> the set that decides it

vars == <<state, infos, actual>>

-----------------------------------------------------------------------------
(* Priorities.                                                             *)

Clip(x) == IF x > MaxInt THEN MaxInt ELSE IF x < -MaxInt - 1 THEN -MaxInt - 1 ELSE x
Quo(x, y) == IF x >= 0 THEN x \div y ELSE -((-x) \div y)     \* Go's division

Total(vals) == FoldLeft(LAMBDA sum, v : Clip(sum + v.power), 0, vals)
Priorities(vals) == {vals[i].prio : i \in DOMAIN vals}
Diff(vals) == Max(Priorities(vals)) - Min(Priorities(vals))
SumOf(vals) == FoldLeft(LAMBDA sum, v : sum + v.prio, 0, vals)

RescalePriorities(vals) ==
    LET diffMax == PriorityWindowSizeFactor * Total(vals)
        ratio == (Diff(vals) + diffMax - 1) \div diffMax
    IN  IF Diff(vals) <= diffMax THEN vals
        ELSE [i \in DOMAIN vals |-> [vals[i] EXCEPT !.prio = Quo(@, ratio)]]

\* big.Int's Div rounds down.
ShiftByAvg(vals) ==
    LET avg == SumOf(vals) \div Len(vals) IN [i \in DOMAIN vals |-> [vals[i] EXCEPT !.prio = Clip(@ - avg)]]

\* Mutant: the comparison is reversed.
MostPriority_Least(vals) == Min({i \in DOMAIN vals : vals[i].prio = Min(Priorities(vals))})

\* CompareProposerPriority: of equal priorities the first address.
MostPriority(vals) == Min({i \in DOMAIN vals : vals[i].prio = Max(Priorities(vals))})

\* incrementProposerPriority: the proposer loses the total.
Increment(set) ==
    LET vals == set.vals
        more == [i \in DOMAIN vals |-> [vals[i] EXCEPT !.prio = Clip(@ + vals[i].power)]]
        most == MostPriority(more)
    IN  [vals |-> [more EXCEPT ![most].prio = Clip(@ - Total(vals))], proposer |-> vals[most].addr]

Normalised(set) == [set EXCEPT !.vals = ShiftByAvg(RescalePriorities(@))]

IncrementProposerPriority(set, times) ==
    LET step[i \in 0..times] == IF i = 0 THEN Normalised(set) ELSE LET before == step[i - 1] IN Increment(before)
    IN  step[times]

-----------------------------------------------------------------------------
(* Changes.                                                                *)

Index(vals, addr) == {i \in DOMAIN vals : vals[i].addr = addr}
PowerIn(vals, addr) == IF Index(vals, addr) = {} THEN 0 ELSE vals[CHOOSE i \in Index(vals, addr) : TRUE].power

Sorted(changes) == SortSeq(changes, LAMBDA a, b : a.addr < b.addr)
Updates(changes) == SelectSeq(Sorted(changes), LAMBDA c : c.power > 0)
Removals(changes) == SelectSeq(Sorted(changes), LAMBDA c : c.power = 0)

ProcessChangesFails(changes) ==
    \/ \E i, j \in DOMAIN changes : i # j /\ changes[i].addr = changes[j].addr
    \/ \E i \in DOMAIN changes : changes[i].power > MaxTotalVotingPower

\* verifyUpdates: the total after each of the updates, in their order.
Totals(vals, updates) ==
    LET after[i \in 0..Len(updates)] ==
          IF i = 0 THEN Total(vals) ELSE after[i - 1] + updates[i].power - PowerIn(vals, updates[i].addr)
    IN  after

ComputeNewPriorities(vals, updates, total) ==
    [i \in DOMAIN updates |->
        [addr |-> updates[i].addr, power |-> updates[i].power,
         prio |-> IF Index(vals, updates[i].addr) = {} THEN -(total + total \div 8)
                  ELSE vals[CHOOSE j \in Index(vals, updates[i].addr) : TRUE].prio]]

\* applyUpdates merges two sorted lists; an update takes the place of the old.
RECURSIVE ApplyUpdates(_, _)
ApplyUpdates(existing, updates) ==
    IF existing = <<>> \/ updates = <<>> THEN existing \o updates
    ELSE IF existing[1].addr < updates[1].addr
    THEN <<existing[1]>> \o ApplyUpdates(Tail(existing), updates)
    ELSE <<updates[1]>> \o ApplyUpdates(IF existing[1].addr = updates[1].addr THEN Tail(existing) ELSE existing, Tail(updates))

RECURSIVE ApplyRemovals(_, _)
ApplyRemovals(existing, deletes) ==
    IF deletes = <<>> THEN existing
    ELSE IF existing[1].addr = deletes[1].addr THEN ApplyRemovals(Tail(existing), Tail(deletes))
    ELSE <<existing[1]>> \o ApplyRemovals(Tail(existing), deletes)

\* The changed set, or None for an error. The proposer is left as it was.
UpdateWithChangeSet(set, changes, allowDeletes) ==
    LET vals == set.vals
        updates == Updates(changes)
        removals == Removals(changes)
        totals == Totals(vals, updates)
        added == {i \in DOMAIN updates : Index(vals, updates[i].addr) = {}}
        fails == \/ ProcessChangesFails(changes)
                 \/ ~allowDeletes /\ removals # <<>>
                 \/ \E i \in DOMAIN removals : Index(vals, removals[i].addr) = {}
                 \/ \E i \in DOMAIN updates : totals[i] > MaxTotalVotingPower
                 \/ added = {} /\ Len(vals) = Len(removals)
        new == ComputeNewPriorities(vals, updates, totals[Len(updates)])
    IN  IF changes = <<>> THEN set
        ELSE IF fails THEN None
        ELSE Normalised([set EXCEPT !.vals = ApplyRemovals(ApplyUpdates(vals, new), removals)])

NewValidatorSet(changes) ==
    IncrementProposerPriority(UpdateWithChangeSet([vals |-> <<>>, proposer |-> None], changes, FALSE), 1)

-----------------------------------------------------------------------------
(* The state and its store.                                                *)

SaveValidatorsInfo(saved, height, lastChanged, vals) ==
    [saved EXCEPT ![height] =
        [lastChanged |-> lastChanged, set |-> IF height = lastChanged \/ height % Interval = 0 THEN vals ELSE None]]

LastStoredHeightFor(height, lastChanged) == Max({height - (height % Interval), lastChanged})

\* Mutant: a set that was stored earlier is returned as it is.
LoadValidators_AsStored(height) ==
    infos[LastStoredHeightFor(height, infos[height].lastChanged)].set

LoadValidators(height) ==
    LET info == infos[height]
        stored == LastStoredHeightFor(height, info.lastChanged)
    IN  IF info.set # None THEN info.set
        ELSE IncrementProposerPriority(infos[stored].set, height - stored)

\* MakeGenesisState and SaveState.
Init ==
    LET vals == NewValidatorSet(Genesis)
        next == IncrementProposerPriority(vals, 1)
        none == [h \in 1..MaxHeight + 2 |-> None]
    IN  /\ state = [height |-> 0, validators |-> vals, next |-> next, lastChanged |-> 1]
        /\ infos = SaveValidatorsInfo(SaveValidatorsInfo(none, 1, 1, vals), 2, 1, next)
        /\ actual = [none EXCEPT ![1] = vals, ![2] = next]

\* A change applies to the height after the next.
ChangedAt(height) == height + 1 + 1

\* updateState and SaveState with what EndBlock answers at the next height.
EndBlock(changes) ==
    LET h == state.height + 1
        vals == UpdateWithChangeSet(state.next, changes, TRUE)
        next == IncrementProposerPriority(vals, 1)
        lastChanged == IF changes = <<>> THEN state.lastChanged ELSE ChangedAt(h)
    IN  /\ h <= MaxHeight
        /\ vals # None
        /\ state' = [height |-> h, validators |-> state.next, next |-> next, lastChanged |-> lastChanged]
        /\ infos' = SaveValidatorsInfo(infos, h + 2, lastChanged, next)
        /\ actual' = [actual EXCEPT ![h + 2] = next]

Next == \E changes \in ChangeSets : EndBlock(changes)

-----------------------------------------------------------------------------
(* Properties.                                                             *)

\* The set is sorted by address without duplicates, and its total power is
\* below the maximum, so that updateTotalVotingPower does not panic.
WellFormed ==
    /\ \A i, j \in DOMAIN state.next.vals : i < j => state.next.vals[i].addr < state.next.vals[j].addr
    /\ state.next.vals # <<>> /\ Total(state.next.vals) <= MaxTotalVotingPower

\* The priorities are centred: their sum is at least zero and less than the
\* number of validators, however the set was changed and scaled.
Centred == SumOf(state.next.vals) \in 0..Len(state.next.vals) - 1

\* The limit on the total leaves room for the next increment, as the comment on
\* MaxTotalVotingPower claims and leaves to its reader: no priority is clipped,
\* and the rounded-up quotient of RescalePriorities does not overflow.
NoClipping ==
    LET vals == state.next.vals
        total == Total(vals)
    IN  /\ \A i \in DOMAIN vals : vals[i].prio + vals[i].power < MaxInt /\ vals[i].prio - total > -MaxInt
        /\ Diff(vals) + PriorityWindowSizeFactor * total - 1 <= MaxInt

\* Where the priorities lie within the window, nothing is scaled.
InWindow(set) == Diff(set.vals) <= PriorityWindowSizeFactor * Total(set.vals)

\* The validators loaded for a height are those that decide it, with their
\* priorities and their proposer, although only some heights are stored and the
\* others computed, as long as no set in between leaves the window: the chain
\* would scale that one, LoadValidators scales the first only.
LoadedIsActual ==
    \A h \in 1..state.height + 2 :
        (\A g \in LastStoredHeightFor(h, infos[h].lastChanged) + 1..h - 1 : InWindow(actual[g]))
            => LoadValidators(h) = actual[h]

\* The proposer of a round does not depend on the rounds a node has entered on
\* its way there, which enterNewRound adds up, unless the set of a round on the
\* way is out of the window.
RoundsAgree ==
    \A a, b \in 1..2 :
        LET first == IncrementProposerPriority(state.validators, a)
        IN  InWindow(first) => IncrementProposerPriority(first, b) = IncrementProposerPriority(state.validators, a + b)

\* In as many rounds as the total power every validator proposes as often as it
\* has power, give or take one for where the rotation starts.
FairRotation ==
    LET total == Total(state.next.vals)
        turns[i \in 0..total] ==
          IF i = 0 THEN {Normalised(state.next)} ELSE {Increment(before) : before \in turns[i - 1]}
    IN  \A v \in ToSet(state.next.vals) :
            Quantify(1..total, LAMBDA i : \A set \in turns[i] : set.proposer = v.addr) \in v.power - 1..v.power + 1
=============================================================================
