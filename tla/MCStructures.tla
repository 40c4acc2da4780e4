---------------------------- MODULE MCStructures ----------------------------
(***************************************************************************)
(* The parts that the others are built from, each on an instance of its    *)
(* own: a behaviour picks one of them and runs it alone.                   *)
(***************************************************************************)
EXTENDS WAL

CONSTANTS None, Idle

VARIABLES
    which,
    state, infos, actual,
    round, roundVoteSets, peerCatchupRounds, sent, offered,
    tree, nodes, roots, lifetimes, pruning, committed, chain, stops, replayed, refused,
    base, stores, views, steps,
    outbound, adding, running, calls, dialing, list, lookup,
    peerMap, activeIDs, nextID, panicked, raced,
    tickChan, ti, armed, expired, ch, tockChan, received, ticks,
    coins, ledger

-----------------------------------------------------------------------------
(* Validators: a machine whose int64 ends at 191, so that the total power  *)
(* is at most 23; changes that add, remove, reweigh, exceed and repeat.    *)

C(a, p) == [addr |-> a, power |-> p]

VS == INSTANCE ValidatorSet WITH
    Genesis <- <<C(2, 14), C(1, 8)>>,
    ChangeSets <- {<<>>, <<C(3, 1)>>, <<C(2, 4)>>, <<C(1, 0)>>, <<C(3, 9), C(2, 0)>>,
                   <<C(2, 5), C(1, 1)>>, <<C(3, 0)>>, <<C(1, 180), C(3, 90)>>,
                   <<C(1, 2), C(1, 3)>>, <<C(2, 180)>>, <<C(1, 0), C(2, 0)>>},
    MaxInt <- 191, Interval <- 4, MaxHeight <- 4

(* Votes: three validators, one with half of the power, who vote for two   *)
(* blocks, and two peers; or votes for rounds ahead.                       *)

V(t, r, v, b, ok) == [type |-> t, round |-> r, val |-> v, block |-> b, valid |-> ok]
Tally ==
    {V("precommit", 0, v, b, TRUE) : v \in {"v1", "v2", "v3"}, b \in {"A", "B"}}
        \cup {V("precommit", 0, "v3", "nil", FALSE)}
Ahead == {V("prevote", r, "v1", "A", TRUE) : r \in {0, 2, 3}} \cup {V("precommit", 4, "v2", "A", FALSE)}

HV == INSTANCE HeightVoteSet WITH
    Power <- [v1 |-> 2, v2 |-> 1, v3 |-> 1],
    Peers <- {"p", "q"},
    Inputs <- {[votes |-> Tally, claims |-> [type : {"precommit"}, round : {0}, block : {"A", "B"}], rounds |-> 0],
               [votes |-> Ahead, claims |-> {}, rounds |-> 3]}

(* Trees: six keys, blocks that rotate either way, remove inner keys and   *)
(* do nothing; a store that keeps one version and one that keeps two and   *)
(* every second.                                                           *)

S(k) == [op |-> "set", key |-> k]
R(k) == [op |-> "remove", key |-> k]

IA == INSTANCE IAVL WITH
    Genesis <- <<S(1), S(4), S(2), S(5)>>,
    Blocks <- {<<S(3)>>, <<R(1)>>, <<S(2)>>, <<R(4), R(2)>>, <<R(5), S(6), S(5)>>, <<>>},
    Prunings <- {[recent |-> 0, every |-> 0], [recent |-> 1, every |-> 2]},
    MaxVersion <- 5, MaxStops <- 1, panicked <- refused

(* Caches: one store on another over a database with a hole.               *)

CS == INSTANCE CacheStore WITH
    Keys <- 1..3, Values <- {2}, Genesis <- <<1, None, 1>>,
    Ranges <- {<<0, 0>>, <<2, 0>>, <<1, 3>>}, MaxDepth <- 2, MaxSteps <- 6

(* Peers: two connections of one node, dialed or accepted, and one of      *)
(* another; the short ids are about to go round.                           *)

SW == INSTANCE Switch WITH
    Conns <- 1..3, IdOf <- <<1, 1, 2>>, Outbounds <- {{1}, {1, 2}}, MaxNumInboundPeers <- 1,
    IDSpace <- 4, FirstID <- 3, Disputed <- {1}

TT == INSTANCE Ticker WITH Timeouts <- 1..3, MaxTicks <- 5

(* Coins of four denominations and amounts of at most 3; amounts to add    *)
(* and subtract that are valid, zero, negative, unsorted or repeated.      *)

Coin(d, n) == [denom |-> d, amount |-> n]
ValidCoins ==
    {SelectSeq([d \in 1..4 |-> Coin(d, f[d])], LAMBDA c : c.amount > 0) : f \in [1..4 -> 0..2]}

CO == INSTANCE Coins WITH
    Denoms <- 1..4, MaxInt <- 3, Others <- ValidCoins,
    Amounts <- {<<Coin(d, n)>> : d \in 1..4, n \in 0..2}
                 \cup {<<Coin(1, 1), Coin(3, 2)>>, <<Coin(2, 1), Coin(3, 3), Coin(4, 1)>>,
                       <<Coin(2, 1), Coin(1, 1)>>, <<Coin(4, 1), Coin(4, 1)>>,
                       <<Coin(1, 1), Coin(2, -1)>>}

(* Logs: one own message and one of a peer for each height, and files of   *)
(* five entries, so that a file holds one, two or no meta lines (WAL, whose *)
(* constants are in the configuration).                                    *)

-----------------------------------------------------------------------------
validators == <<state, infos, actual>>
votes == <<round, roundVoteSets, peerCatchupRounds, sent, offered>>
trees == <<tree, nodes, roots, lifetimes, pruning, committed, chain, stops, replayed, refused>>
caches == <<base, stores, views, steps>>
switch == <<outbound, adding, running, calls, dialing, list, lookup, peerMap, activeIDs,
          nextID, panicked, raced>>
ticker == <<tickChan, ti, armed, expired, ch, tockChan, received, ticks>>
account == <<coins, ledger>>
log == vars
allVars == <<which, validators, votes, trees, caches, switch, ticker, account, log>>

NoVS ==
    state = Idle /\ infos = Idle /\ actual = Idle
NoHV ==
    round = Idle /\ roundVoteSets = Idle /\ peerCatchupRounds = Idle /\ sent = Idle
    /\ offered = Idle
NoIA ==
    tree = Idle /\ nodes = Idle /\ roots = Idle /\ lifetimes = Idle
    /\ pruning = Idle /\ committed = Idle /\ chain = Idle /\ stops = Idle
    /\ replayed = Idle /\ refused = Idle
NoCS ==
    base = Idle /\ stores = Idle /\ views = Idle /\ steps = Idle
NoSW ==
    outbound = Idle /\ adding = Idle /\ running = Idle /\ calls = Idle
    /\ dialing = Idle /\ list = Idle /\ lookup = Idle /\ peerMap = Idle
    /\ activeIDs = Idle /\ nextID = Idle /\ panicked = Idle /\ raced = Idle
NoTT ==
    tickChan = Idle /\ ti = Idle /\ armed = Idle /\ expired = Idle /\ ch = Idle
    /\ tockChan = Idle /\ received = Idle /\ ticks = Idle
NoCO ==
    coins = Idle /\ ledger = Idle
NoWL ==
    files = Idle /\ durable = Idle /\ height = Idle /\ stored = Idle /\ mem = Idle
    /\ handled = Idle /\ pc = Idle /\ cur = Idle /\ crashes = Idle

PartInit ==
    \/ which = "validators" /\ VS!Init /\ NoHV /\ NoIA /\ NoCS /\ NoSW /\ NoTT /\ NoCO /\ NoWL
    \/ which = "votes" /\ HV!Init /\ NoVS /\ NoIA /\ NoCS /\ NoSW /\ NoTT /\ NoCO /\ NoWL
    \/ which = "tree" /\ IA!Init /\ NoVS /\ NoHV /\ NoCS /\ NoSW /\ NoTT /\ NoCO /\ NoWL
    \/ which = "cache" /\ CS!Init /\ NoVS /\ NoHV /\ NoIA /\ NoSW /\ NoTT /\ NoCO /\ NoWL
    \/ which = "peers" /\ SW!Init /\ NoVS /\ NoHV /\ NoIA /\ NoCS /\ NoTT /\ NoCO /\ NoWL
    \/ which = "ticker" /\ TT!Init /\ NoVS /\ NoHV /\ NoIA /\ NoCS /\ NoSW /\ NoCO /\ NoWL
    \/ which = "coins" /\ CO!Init /\ NoVS /\ NoHV /\ NoIA /\ NoCS /\ NoSW /\ NoTT /\ NoWL
    \/ which = "log" /\ Init /\ NoVS /\ NoHV /\ NoIA /\ NoCS /\ NoSW /\ NoTT /\ NoCO

\* Only the part that was picked takes steps.
PartNext ==
    /\ UNCHANGED which
    /\ \/ which = "validators" /\ VS!Next /\ UNCHANGED <<votes, trees, caches, switch, ticker, account, log>>
       \/ which = "votes" /\ HV!Next /\ UNCHANGED <<validators, trees, caches, switch, ticker, account, log>>
       \/ which = "tree" /\ IA!Next /\ UNCHANGED <<validators, votes, caches, switch, ticker, account, log>>
       \/ which = "cache" /\ CS!Next /\ UNCHANGED <<validators, votes, trees, switch, ticker, account, log>>
       \/ which = "peers" /\ SW!Next /\ UNCHANGED <<validators, votes, trees, caches, ticker, account, log>>
       \/ which = "ticker" /\ TT!Next /\ UNCHANGED <<validators, votes, trees, caches, switch, account, log>>
       \/ which = "coins" /\ CO!Next /\ UNCHANGED <<validators, votes, trees, caches, switch, ticker, log>>
       \/ which = "log" /\ Next
          /\ UNCHANGED <<validators, votes, trees, caches, switch, ticker, account>>

PartSpec == PartInit /\ [][PartNext]_allVars

-----------------------------------------------------------------------------
(* Properties.                                                             *)

\* Whatever EndBlock answers, the validators stay sorted, without duplicates and
\* below the total that updateTotalVotingPower panics at; their priorities stay
\* centred and are never clipped at the ends of int64 (safeAddClip).
PrioritiesSound ==
    which = "validators" => VS!WellFormed /\ VS!Centred /\ VS!NoClipping

\* LoadValidators returns the set that decides a height, priorities and proposer
\* included, where it computes it from an earlier one, and a node that skips
\* rounds finds the same proposer as one that enters them all (enterNewRound);
\* sets that leave the window of priorities on the way excepted.
RotationsAgree == which = "validators" => VS!LoadedIsActual /\ VS!RoundsAgree

\* In as many rounds as the total power a validator proposes as often as it has
\* power, give or take one.
FairRotation == which = "validators" => VS!FairRotation

\* With validators that vote twice and peers that claim majorities, a vote set's
\* sums and bits are those of the votes it keeps, a majority is made of valid
\* votes, second votes for a claimed block count (SetPeerMaj23), and what can be
\* made to be tracked is bounded (peerCatchupRounds).
VotesAreCounted ==
    which = "votes" =>
        HV!TalliesMatch /\ HV!MajorityIsReal /\ HV!ClaimedCounts /\ HV!MemoryBounded

\* A quorum of validators that vote once is found, whatever the others sign and
\* whatever peers claim, and MakeCommit makes of it what VerifyCommit accepts.
QuorumCommits == which = "votes" => HV!QuorumIsFound /\ HV!CommitVerifies

\* Every version that is kept can be read as it was written and is a balanced
\* search tree, whatever was pruned around it and wherever commits stopped;
\* SaveVersion never refuses a replayed block; and pruning leaves no node but
\* those that recursiveRemove replaced by a child, replays excepted.
TreeKeepsVersions ==
    which = "tree" => IA!Balanced /\ IA!NoPanic /\ IA!VersionsReadable /\ IA!Reclaims

\* A cache store over a cache store reads what it should after any reads,
\* iterations, writes and drops, and its iterators yield the keys of their range
\* in order, each once, although the sorted list is brought up to date for ranges
\* only (dirtyItems, mergeiterator).
CacheIsView == which = "cache" => CS!ReadsView /\ CS!IteratesView

\* When nobody adds or stops a peer, the switch and the reactors know it exactly
\* when a connection to it runs, and every short id in use is that of a peer;
\* stops that raced excepted (stopAndRemovePeer).  The slice and the map of the
\* PeerSet always describe one set, with no more inbound peers than allowed, and
\* no two peers share a short id (nextPeerID).
PeersAgree ==
    which = "peers" =>
        /\ SW!BooksAgree /\ SW!IDsComeBack
        /\ SW!PeerSetConsistent /\ SW!InboundBounded /\ SW!IDsDistinct

\* However slow the receiver is, the timeout scheduled for the latest step is
\* received or on its way, none comes after one of a later step, and none comes
\* more than twice (timeoutRoutine).
TimeoutsKept == which = "ticker" => TT!NotLost /\ TT!InOrder /\ TT!AtMostTwice

\* The coins of an account own what integer arithmetic says after any additions
\* and subtractions, refused ones included (AddUnsafe, AmountOf, SubtractCoins),
\* and their comparisons are what they say of every denomination.
CoinsAreLedger == which = "coins" => CO!AccountIsLedger /\ CO!Compares

\* SearchForHeight finds every meta line of the group in its file, broken meta
\* lines and its panic on files without one excepted, because meta lines are
\* written in the order of their heights, each once, and before the messages of
\* their height, whatever crashes come between.
LogIsSearchable ==
    which = "log" => TypeOK /\ MetasIncrease /\ MessagesFollowMeta /\ SearchFinds

\* While the meta line of the height is readable in the head file, a restarted
\* node has every own message it has handled at this height.
LogKeepsOwnMessages == which = "log" => KeepsOwnMessages
=============================================================================
