----------------------------- MODULE BlockPool -----------------------------
(***************************************************************************)
(* Fast sync: the block pool of pkgs/bft/blockchain/pool.go with one       *)
(* goroutine per requested height, the poolRoutine of reactor.go that      *)
(* verifies and applies pairs of blocks, and the part of the p2p switch    *)
(* that stops peers for errors.                                            *)
(*                                                                         *)
(* Honest peers report the chain's height and answer each request before   *)
(* the timeout; when the switch stops one it reconnects.  Other peers      *)
(* answer with wrong blocks, late or not at all, report more than they     *)
(* have, and come back a bounded number of times.  A block is "good" (the  *)
(* chain's), "tail" (it is not, but carries the commit of the block before *)
(* it) or "junk" (neither).                                                *)
(***************************************************************************)
EXTENDS Integers, Sequences, FiniteSets, FiniteSetsExt

CONSTANTS
    Honest, Faulty,     \* peers
    Nobody,             \* the empty peer id
    N,                  \* height of the chain
    Reports,            \* heights faulty peers report
    MaxTotalRequesters, MaxPendingRequests, MaxPendingRequestsPerPeer,
    FaultyBlocks,       \* what they answer with, of good, tail and junk
    MaxConnects         \* bound on connections of faulty peers

Peers == Honest \cup Faulty

ASSUME PoolAssumption ==
    /\ Honest \cap Faulty = {} /\ Nobody \notin Peers
    /\ {N, MaxTotalRequesters, MaxPendingRequests, MaxPendingRequestsPerPeer,
        MaxConnects} \cup Reports \subseteq Nat
    /\ FaultyBlocks \subseteq {"good", "tail", "junk"}
    /\ N > 0
    /\ \E h \in Reports \cup {N} : \A r \in Reports \cup {N} : h >= r

VARIABLES
    conn,           \* the switch: down, up, or removed (only the message being
                    \* received is left of the connection)
    connects,
    peers,          \* pool.peers: the peer's record or NoPeer
    maxPeerHeight,
    requesters,     \* by height: the requester or NoRequester
    height,         \* the next height to sync
    numPending,
    asked,          \* requests a connected peer has not answered
    errorsCh,       \* peers to be stopped
    peeked,         \* poolRoutine: idle, the first block of a pair whose commit verified,
                    \* bad or redo (before and after the first redo of a pair that failed)
    applied,        \* what was verified and applied
    switched        \* poolRoutine ended: consensus takes over

pool == <<peers, maxPeerHeight, requesters, height, numPending>>
vars == <<conn, connects, pool, asked, errorsCh, peeked, applied, switched>>

MaxReport == Max(Reports \cup {N})
Heights == 1..MaxReport
\* A peer's timer is nil until something is pending with it.
NoPeer == [in |-> FALSE, height |-> 0, numPending |-> 0, timer |-> "nil", didTimeout |-> FALSE]
NoRequester == [pc |-> "none", picked |-> Nobody, peer |-> Nobody, block |-> "none", redo |-> Nobody]

Init ==
    /\ conn = [p \in Peers |-> "down"] /\ connects = 0
    /\ peers = [p \in Peers |-> NoPeer] /\ maxPeerHeight = 0
    /\ requesters = [h \in Heights |-> NoRequester]
    /\ height = 1 /\ numPending = 0
    /\ asked = [p \in Peers |-> {}] /\ errorsCh = {}
    /\ peeked = "idle" /\ applied = <<>> /\ switched = FALSE

In(ps) == {p \in Peers : ps[p].in}
Requested == {h \in Heights : requesters[h].pc # "none"}

\* What takes seconds (a reconnection, a peer's timeout) comes when the
\* goroutines have done what they could.
Quiet ==
    /\ \A h \in Requested : LET r == requesters[h] IN
                            r.pc = "pick" \/ (r.pc = "wait" /\ r.redo = Nobody)
    /\ errorsCh = {} /\ peeked = "idle"

-----------------------------------------------------------------------------
(* removePeer.                                                             *)

\* redo: does nothing if another redo waits in the channel.
Redo(r, p) == IF r.peer = p /\ r.redo = Nobody THEN [r EXCEPT !.redo = p] ELSE r

\* updateMaxPeerHeight, when the highest peer left.
MaxAfter(ps, p) ==
    IF peers[p].in /\ peers[p].height = maxPeerHeight
      THEN Max({0} \cup {ps[q].height : q \in In(ps)}) ELSE maxPeerHeight

\* The pool after the peers of a set were removed, one of which is p.
Without(ps) == [p \in Peers |-> IF p \in ps THEN NoPeer ELSE peers[p]]

RemovePeer(p) ==
    /\ requesters' = [h \in Heights |->
                        IF requesters[h].pc = "none" THEN requesters[h] ELSE Redo(requesters[h], p)]
    /\ peers' = Without({p})
    /\ maxPeerHeight' = MaxAfter(Without({p}), p)

-----------------------------------------------------------------------------
(* The switch.                                                             *)

Connect(p) ==
    /\ ~switched /\ Quiet /\ conn[p] \in {"down", "removed"}
    /\ p \in Faulty => connects < MaxConnects
    /\ connects' = IF p \in Faulty THEN connects + 1 ELSE connects
    /\ conn' = [conn EXCEPT ![p] = "up"] /\ asked' = [asked EXCEPT ![p] = {}]
    /\ UNCHANGED <<pool, errorsCh, peeked, applied, switched>>

\* StopPeerForError of a peer of the switch: it is stopped, RemovePeer of the
\* reactor is called, and it leaves the switch's set.
StopPeerForError(p) ==
    /\ conn' = [conn EXCEPT ![p] = IF p \in Faulty THEN "removed" ELSE "down"]
    /\ RemovePeer(p)

\* A peer leaves by itself.
Disconnect(p) ==
    /\ ~switched /\ p \in Faulty /\ conn[p] = "up"
    /\ StopPeerForError(p)
    /\ UNCHANGED <<connects, height, numPending, asked, errorsCh, peeked, applied, switched>>

\* The loop of poolRoutine that reads errorsCh.
HandleError(p) ==
    /\ ~switched /\ p \in errorsCh
    /\ errorsCh' = errorsCh \ {p}
    /\ IF conn[p] = "up" THEN StopPeerForError(p)
       ELSE UNCHANGED <<conn, peers, maxPeerHeight, requesters>>
    /\ UNCHANGED <<connects, height, numPending, asked, peeked, applied, switched>>

-----------------------------------------------------------------------------
(* Messages of peers.  A message being received when the peer is stopped   *)
(* is still handled, after the peer was removed if it comes to that.       *)

Received(c, p) == IF c[p] = "removed" THEN [c EXCEPT ![p] = "down"] ELSE c

\* SetPeerHeight after a status response; heights do not shrink.
SetPeerHeight(p, h) ==
    /\ ~switched /\ conn[p] # "down"
    /\ peers[p].in => h > peers[p].height
    /\ peers' = [peers EXCEPT ![p] = IF @.in THEN [@ EXCEPT !.height = h]
                                     ELSE [NoPeer EXCEPT !.in = TRUE, !.height = h]]
    /\ maxPeerHeight' = IF h > maxPeerHeight THEN h ELSE maxPeerHeight
    /\ conn' = Received(conn, p)
    /\ UNCHANGED <<connects, requesters, height, numPending, asked, errorsCh, peeked, applied, switched>>

\* setBlock: the peer matches and there is no block yet.
Takes(r, p) == r.block = "none" /\ r.peer = p

\* decrPending, if the pool has the peer.  A nil timer stays nil.
DecrPending(q) ==
    IF ~q.in THEN q
    ELSE [q EXCEPT !.numPending = @ - 1,
                   !.timer = IF q.timer = "nil" THEN "nil"
                             ELSE IF q.numPending = 1 THEN "stopped" ELSE "armed"]

\* AddBlock.  decrPending of a record made after the request was sent meets
\* its nil monitor: the connection recovers from the panic and ends, as it
\* does for an error.
AddBlock(p, h, b) ==
    LET r == requesters[h]
        nilMonitor == peers[p].in /\ peers[p].timer = "nil"
    IN
    /\ ~switched /\ conn[p] # "down" /\ h \in asked[p]
    /\ asked' = [asked EXCEPT ![p] = @ \ {h}]
    /\ IF r.pc # "none" /\ Takes(r, p)
         THEN /\ requesters' = [requesters EXCEPT ![h].block = b]
              /\ numPending' = numPending - 1
              /\ peers' = [peers EXCEPT ![p] = DecrPending(@)]
              /\ errorsCh' = IF nilMonitor THEN errorsCh \cup {p} ELSE errorsCh
              /\ UNCHANGED <<maxPeerHeight, height>>
         ELSE /\ errorsCh' = IF r.pc # "none" THEN errorsCh \cup {p} ELSE errorsCh
              /\ UNCHANGED pool
    /\ conn' = Received(conn, p)
    /\ UNCHANGED <<connects, peeked, applied, switched>>

\* onTimeout: nothing came for peerTimeout although something is pending.  An
\* honest peer has answered what it was asked by then.
OnTimeout(p) ==
    /\ ~switched /\ peers[p].in /\ peers[p].timer = "armed"
    /\ Quiet
    /\ p \in Honest => asked[p] = {} \/ conn[p] # "up"
    /\ peers' = [peers EXCEPT ![p].didTimeout = TRUE, ![p].timer = "stopped"]
    /\ errorsCh' = errorsCh \cup {p}
    /\ UNCHANGED <<conn, connects, maxPeerHeight, requesters, height, numPending, asked, peeked, applied, switched>>

-----------------------------------------------------------------------------
(* Requesters.                                                             *)

MakeNextRequester ==
    LET next == height + Cardinality(Requested) IN
    /\ ~switched
    /\ numPending < MaxPendingRequests /\ Cardinality(Requested) < MaxTotalRequesters
    /\ next <= maxPeerHeight
    /\ requesters' = [requesters EXCEPT ![next] = [NoRequester EXCEPT !.pc = "pick"]]
    /\ numPending' = numPending + 1
    /\ UNCHANGED <<conn, connects, peers, maxPeerHeight, height, asked, errorsCh, peeked, applied, switched>>

\* A timed-out peer is removed by the next goroutine that looks for a peer,
\* or by removeTimedoutPeers when the pool is at its limits.
DropTimedOut(p) ==
    /\ ~switched /\ peers[p].in /\ peers[p].didTimeout
    /\ \/ \E h \in Requested : requesters[h].pc = "pick"
       \/ numPending >= MaxPendingRequests
       \/ Cardinality(Requested) >= MaxTotalRequesters
    /\ RemovePeer(p)
    /\ UNCHANGED <<conn, connects, height, numPending, asked, errorsCh, peeked, applied, switched>>

Available(p, h) ==
    /\ peers[p].in /\ ~peers[p].didTimeout
    /\ peers[p].numPending < MaxPendingRequestsPerPeer
    /\ peers[p].height >= h

\* pickIncrAvailablePeer.
PickIncrAvailablePeer(h, p) ==
    /\ ~switched /\ requesters[h].pc = "pick" /\ Available(p, h)
    /\ peers' = [peers EXCEPT ![p].numPending = @ + 1,
                              ![p].timer = IF peers[p].numPending = 0 THEN "armed" ELSE @]
    /\ requesters' = [requesters EXCEPT ![h].pc = "assign", ![h].picked = p]
    /\ UNCHANGED <<conn, connects, maxPeerHeight, height, numPending, asked, errorsCh, peeked, applied, switched>>

\* The requester notes its peer, and the request goes out through requestsCh
\* if the switch still has the peer.
Assign(h) ==
    LET p == requesters[h].picked IN
    /\ ~switched /\ requesters[h].pc = "assign"
    /\ requesters' = [requesters EXCEPT ![h].pc = "wait", ![h].peer = p, ![h].picked = Nobody]
    /\ asked' = IF conn[p] = "up" THEN [asked EXCEPT ![p] = @ \cup {h}] ELSE asked
    /\ UNCHANGED <<conn, connects, peers, maxPeerHeight, height, numPending, errorsCh, peeked, applied, switched>>

\* WAIT_LOOP reads redoCh: another peer's redo is dropped.
ReadRedo(h) ==
    LET r == requesters[h] IN
    /\ ~switched /\ r.pc = "wait" /\ r.redo # Nobody
    /\ requesters' = [requesters EXCEPT ![h].redo = Nobody,
                                        ![h].pc = IF r.redo = r.peer THEN "reset" ELSE "wait"]
    /\ UNCHANGED <<conn, connects, peers, maxPeerHeight, height, numPending, asked, errorsCh, peeked, applied, switched>>

\* Mutant: the block that is thrown away is not pending again.
PendingAfterReset_Forgets(r) == numPending

\* What reset makes of pool.numPending.
PendingAfterReset(r) == numPending + (IF r.block # "none" THEN 1 ELSE 0)

Reset(h) ==
    /\ ~switched /\ requesters[h].pc = "reset"
    /\ numPending' = PendingAfterReset(requesters[h])
    /\ requesters' = [requesters EXCEPT ![h].pc = "pick", ![h].peer = Nobody, ![h].block = "none"]
    /\ UNCHANGED <<conn, connects, peers, maxPeerHeight, height, asked, errorsCh, peeked, applied, switched>>

-----------------------------------------------------------------------------
(* poolRoutine.                                                            *)

\* Mutant: the first block is not compared with what was signed.
VerifyCommit_SecondOnly(first, second) == second # "junk"

\* VerifyCommit of the first block with the second's LastCommit.
VerifyCommit(first, second) == first = "good" /\ second # "junk"

\* PeekTwoBlocks and VerifyCommit.
PeekTwoBlocks ==
    LET at(h) == IF h \in Heights THEN requesters[h].block ELSE "none" IN
    /\ ~switched /\ peeked = "idle"
    /\ at(height) # "none" /\ at(height + 1) # "none"
    /\ peeked' = IF VerifyCommit(at(height), at(height + 1)) THEN at(height) ELSE "bad"
    /\ UNCHANGED <<conn, connects, pool, asked, errorsCh, applied, switched>>

\* RedoRequest, and StopPeerForError of the peer it removed.
RedoRequest(h) ==
    LET p == requesters[h].peer IN
    IF p = Nobody THEN UNCHANGED <<conn, peers, maxPeerHeight, requesters>>
    ELSE IF conn[p] = "up" THEN StopPeerForError(p) ELSE RemovePeer(p) /\ UNCHANGED conn

RedoFirst ==
    /\ ~switched /\ peeked = "bad"
    /\ RedoRequest(height)
    /\ peeked' = "redo"
    /\ UNCHANGED <<connects, height, numPending, asked, errorsCh, applied, switched>>

RedoSecond ==
    /\ ~switched /\ peeked = "redo"
    /\ RedoRequest(height + 1)
    /\ peeked' = "idle"
    /\ UNCHANGED <<connects, height, numPending, asked, errorsCh, applied, switched>>

\* PopRequest, SaveBlock, ApplyBlock.  The requester's block may be gone.
PopRequest ==
    /\ ~switched /\ peeked \notin {"idle", "bad", "redo"}
    /\ requesters' = [requesters EXCEPT ![height] = NoRequester]
    /\ height' = height + 1
    /\ applied' = Append(applied, peeked)
    /\ peeked' = "idle"
    /\ UNCHANGED <<conn, connects, peers, maxPeerHeight, numPending, asked, errorsCh, switched>>

\* Mutant: forgets that the last block waits for the commit in the next one.
IsCaughtUp_WantsAll == In(peers) # {} /\ (maxPeerHeight = 0 \/ height > maxPeerHeight)

IsCaughtUp == In(peers) # {} /\ (maxPeerHeight = 0 \/ height >= maxPeerHeight - 1)

SwitchToConsensus ==
    /\ ~switched /\ peeked = "idle" /\ IsCaughtUp
    /\ switched' = TRUE
    /\ UNCHANGED <<conn, connects, pool, asked, errorsCh, peeked, applied>>

-----------------------------------------------------------------------------
Requester(h) ==
    \/ \E p \in Peers : PickIncrAvailablePeer(h, p)
    \/ Assign(h) \/ ReadRedo(h) \/ Reset(h)

PoolRoutine == PeekTwoBlocks \/ RedoFirst \/ RedoSecond \/ PopRequest \/ SwitchToConsensus

Next ==
    \/ \E p \in Peers : Connect(p) \/ Disconnect(p) \/ HandleError(p)
    \/ \E p \in Honest : SetPeerHeight(p, N)
    \/ \E p \in Faulty, h \in Reports : SetPeerHeight(p, h)
    \/ \E p \in Honest, h \in Heights : AddBlock(p, h, "good")
    \/ \E p \in Faulty, h \in Heights, b \in FaultyBlocks : AddBlock(p, h, b)
    \/ \E p \in Peers : OnTimeout(p) \/ DropTimedOut(p)
    \/ MakeNextRequester
    \/ \E h \in Heights : Requester(h)
    \/ PoolRoutine

\* Goroutines run, timers fire, honest peers connect, report and answer.
Fairness ==
    /\ \A p \in Peers : /\ WF_vars(HandleError(p))
                        /\ WF_vars(OnTimeout(p)) /\ WF_vars(DropTimedOut(p))
    /\ \A p \in Honest : /\ WF_vars(Connect(p)) /\ WF_vars(SetPeerHeight(p, N))
                         /\ WF_vars(\E h \in Heights : AddBlock(p, h, "good"))
    /\ WF_vars(MakeNextRequester) /\ WF_vars(PoolRoutine)
    /\ \A h \in Heights : WF_vars(Requester(h))

Spec == Init /\ [][Next]_vars /\ Fairness

-----------------------------------------------------------------------------
\* Types, and the limit on what is pending with a peer.
TypeOK ==
    /\ conn \in [Peers -> {"down", "up", "removed"}] /\ connects \in 0..MaxConnects
    /\ peers \in [Peers -> [in : BOOLEAN, height : 0..MaxReport, numPending : Int,
                            timer : {"nil", "stopped", "armed"}, didTimeout : BOOLEAN]]
    /\ maxPeerHeight \in 0..MaxReport
    /\ requesters \in [Heights -> [pc : {"none", "pick", "assign", "wait", "reset"},
                                   picked : Peers \cup {Nobody}, peer : Peers \cup {Nobody},
                                   block : {"none", "good", "tail", "junk"},
                                   redo : Peers \cup {Nobody}]]
    /\ \A p \in Peers : peers[p].numPending <= MaxPendingRequestsPerPeer
    /\ height \in 1..MaxReport /\ numPending \in Int
    /\ asked \in [Peers -> SUBSET Heights] /\ errorsCh \subseteq Peers
    /\ switched \in BOOLEAN

\* "height // the lowest key in requesters": the requesters cover the heights
\* from height on without a gap, so that next height is always free.
Contiguous ==
    Requested = height..(height + Cardinality(Requested) - 1)

\* Every block that was applied is the chain's, whatever happened to its
\* requester and its peer between PeekTwoBlocks and PopRequest.
AppliesTheChain ==
    Len(applied) = height - 1 /\ \A i \in DOMAIN applied : applied[i] = "good"

\* The limit on pending requests counts every requester that has no block:
\* numPending is never too small (a block that disappears under PopRequest
\* makes it too large).
CountsPending ==
    numPending >= Cardinality({h \in Requested : requesters[h].block = "none"})

\* maxPeerHeight is the largest height of the peers in the pool, so the node
\* switches to consensus only when no peer of the pool is two blocks ahead.
HighestPeer ==
    maxPeerHeight = Max({0} \cup {peers[p].height : p \in In(peers)})

\* A requester waits for a peer that no timer watches, and no redo is on its
\* way: the peer was removed between pickIncrAvailablePeer and the
\* assignment, or its redo was lost to an older one still in the channel.
Orphaned(h) ==
    LET r == requesters[h] IN
    /\ r.pc = "wait" /\ r.block = "none" /\ r.redo = Nobody
    /\ ~peers[r.peer].in \/ peers[r.peer].timer # "armed"

\* With an honest peer that keeps reconnecting the node catches up, whatever
\* the other peers do, unless a requester stays orphaned for ever.
CatchesUp == <>switched \/ <>[](\E h \in Heights : Orphaned(h))

\* The books of the pool hold through every removal, redo and pop: requesters
\* without a gap, no request uncounted, and the height of the highest peer.
Bookkeeping == TypeOK /\ Contiguous /\ CountsPending /\ HighestPeer
=============================================================================
