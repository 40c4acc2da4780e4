-------------------------- MODULE BlockPoolProofs --------------------------
(***************************************************************************)
(* The books of the block pool, for any peers, chain, reports and limits.  *)
(*                                                                         *)
(* Bookkeeping is inductive with two facts more (PInv): a height that has  *)
(* no requester has no block, and poolRoutine, between PeekTwoBlocks and   *)
(* PopRequest, stands on two heights that keep their requesters whatever   *)
(* the other goroutines do to them.                                        *)
(***************************************************************************)
EXTENDS BlockPool, FiniteSetTheorems, WellFoundedInduction, TLAPS

PeerRecords == [in : BOOLEAN, height : 0..MaxReport, numPending : Int,
                timer : {"nil", "stopped", "armed"}, didTimeout : BOOLEAN]
Requesters == [pc : {"none", "pick", "assign", "wait", "reset"},
               picked : Peers \cup {Nobody}, peer : Peers \cup {Nobody},
               block : {"none", "good", "tail", "junk"},
               redo : Peers \cup {Nobody}]

\* The requesters that still wait for their block.
Waiting == {h \in Requested : requesters[h].block = "none"}

\* The peers' records have their type and respect the limit per peer.
PeersOK ==
    /\ peers \in [Peers -> PeerRecords]
    /\ \A p \in Peers : peers[p].numPending <= MaxPendingRequestsPerPeer
    /\ maxPeerHeight \in 0..MaxReport
    /\ HighestPeer

\* The requesters, the heights they are for and the count of those pending.
RequestersOK ==
    /\ requesters \in [Heights -> Requesters]
    /\ \A h \in Heights : requesters[h].pc = "none" => requesters[h].block = "none"
    /\ height \in 1..MaxReport /\ numPending \in Int
    /\ Contiguous
    /\ CountsPending

\* poolRoutine: what it peeked at is still requested.
RoutineOK ==
    /\ peeked \in {"idle", "bad", "redo", "good"}
    /\ peeked # "idle" => height \in Requested /\ height + 1 \in Requested
    /\ applied \in Seq({"good"}) /\ Len(applied) = height - 1

NetworkOK ==
    /\ conn \in [Peers -> {"down", "up", "removed"}] /\ connects \in 0..MaxConnects
    /\ asked \in [Peers -> SUBSET Heights] /\ errorsCh \subseteq Peers
    /\ switched \in BOOLEAN

PInv == PeersOK /\ RequestersOK /\ RoutineOK /\ NetworkOK

-----------------------------------------------------------------------------
(* Numbers *)

\* A set of natural numbers has a least member.
LEMMA LeastExists ==
    ASSUME NEW T \in SUBSET Nat, T # {}
    PROVE  \E m \in T : \A y \in T : m <= y
<1> DEFINE R == {ss \in Nat \X Nat : ss[1] < ss[2]}
<1>1. IsWellFoundedOn(R, Nat)
  BY NatLessThanWellFounded DEF OpToRel
<1>2. PICK m \in T : \A y \in T : ~(<<y, m>> \in R)
  <2> HIDE DEF R
  <2> QED
    BY Zenon, <1>1, WFMin
<1>3. ASSUME NEW y \in T PROVE m <= y
  <2>1. <<y, m>> \in Nat \X Nat /\ <<y, m>>[1] = y /\ <<y, m>>[2] = m
    OBVIOUS
  <2>2. ~(y < m)
    BY <1>2, <2>1
  <2> QED
    BY <2>2
<1> QED
  BY <1>3

\* A bounded set of numbers has a greatest member.
LEMMA MaxExists ==
    ASSUME NEW n \in Nat, NEW S \in SUBSET (0..n), S # {}
    PROVE  Max(S) \in S /\ \A x \in S : x <= Max(S)
<1> DEFINE T == {m \in Nat : n - m \in S}
<1>1. T # {}
  <2>1. PICK x \in S : TRUE
    BY Zenon
  <2>2. n - x \in Nat /\ n - (n - x) = x
    OBVIOUS
  <2> QED
    BY Zenon, <2>2
<1>2. PICK m \in T : \A y \in T : m <= y
  <2>1. T \in SUBSET Nat
    OBVIOUS
  <2> HIDE DEF T
  <2> QED
    BY <1>1, <2>1, LeastExists
<1>3. \A y \in S : y <= n - m
  <2> SUFFICES ASSUME NEW y \in S PROVE y <= n - m
    OBVIOUS
  <2>1. n - y \in Nat /\ n - (n - y) = y
    OBVIOUS
  <2> QED
    BY <1>2, <2>1
<1> QED
  BY Zenon, <1>2, <1>3 DEF Max

\* The heights that can be reported have a greatest one.
LEMMA Reported ==
    /\ MaxReport \in Nat /\ MaxReport >= 1 /\ N \in 0..MaxReport
    /\ \A r \in Reports : r \in 0..MaxReport
<1>1. PICK h \in Reports \cup {N} : \A r \in Reports \cup {N} : h >= r
  BY PoolAssumption
<1>2. MaxReport \in Reports \cup {N} /\ \A r \in Reports \cup {N} : MaxReport >= r
  BY <1>1 DEF MaxReport, Max
<1>3. Reports \subseteq Nat /\ N \in Nat /\ N > 0
  BY PoolAssumption
<1> QED
  BY <1>2, <1>3

-----------------------------------------------------------------------------
(* The peers *)

\* The heights that updateMaxPeerHeight looks at.
HeightsOf(ps) == {0} \cup {ps[q].height : q \in In(ps)}

\* The greatest of them is the only one that none exceeds.
LEMMA Greatest ==
    ASSUME NEW ps \in [Peers -> PeerRecords]
    PROVE  /\ Max(HeightsOf(ps)) \in HeightsOf(ps) /\ Max(HeightsOf(ps)) \in 0..MaxReport
           /\ \A x \in HeightsOf(ps) : x <= Max(HeightsOf(ps))
           /\ \A m \in HeightsOf(ps) :
                 (\A x \in HeightsOf(ps) : x <= m) => m = Max(HeightsOf(ps))
<1> DEFINE S == HeightsOf(ps)
<1>1. \A q \in Peers : ps[q].height \in 0..MaxReport
  BY DEF PeerRecords
<1>2. S \in SUBSET (0..MaxReport) /\ S # {}
  BY <1>1, Reported DEF HeightsOf, In
<1> HIDE DEF S
<1>3. Max(S) \in S /\ \A x \in S : x <= Max(S)
  BY Zenon, <1>2, Reported, MaxExists
<1>4. ASSUME NEW m \in S, \A x \in S : x <= m
      PROVE  m = Max(S)
  <2>1. m <= Max(S) /\ Max(S) <= m
    BY <1>3, <1>4
  <2>2. m \in 0..MaxReport /\ Max(S) \in 0..MaxReport
    BY Zenon, <1>2, <1>3
  <2> QED
    BY <2>1, <2>2, Reported
<1> QED
  BY <1>2, <1>3, <1>4 DEF S

\* Answers and requests count, and arm or stop the timer.
LEMMA CountedPeer ==
    ASSUME NEW x \in PeerRecords, NEW d \in Int, NEW timer \in {"nil", "stopped", "armed"}
    PROVE  LET q == [x EXCEPT !.numPending = @ + d, !.timer = timer]
           IN  /\ q \in PeerRecords /\ q.in = x.in /\ q.height = x.height
               /\ q.numPending = x.numPending + d /\ x.numPending \in Int
<1>1. x.numPending \in Int /\ x.numPending + d \in Int
  BY DEF PeerRecords
<1> DEFINE n == x.numPending + d
<1> HIDE DEF n
<1>2. LET q == [x EXCEPT !.numPending = n, !.timer = timer]
      IN  q \in PeerRecords /\ q.in = x.in /\ q.height = x.height /\ q.numPending = n
  BY Zenon, <1>1 DEF PeerRecords, n
<1> QED
  BY <1>1, <1>2 DEF n

\* A step that changes no height and no membership.
LEMMA SamePeers ==
    ASSUME PeersOK, peers' \in [Peers -> PeerRecords], maxPeerHeight' = maxPeerHeight,
           \A p \in Peers : /\ peers'[p].in = peers[p].in /\ peers'[p].height = peers[p].height
                            /\ peers'[p].numPending <= MaxPendingRequestsPerPeer
    PROVE  PeersOK'
<1>1. In(peers') = In(peers)
  BY DEF In
<1>2. \A q \in In(peers) : peers'[q].height = peers[q].height
  BY DEF In
<1>3. {peers'[q].height : q \in In(peers')} = {peers[q].height : q \in In(peers)}
  BY <1>1, <1>2
<1>4. HighestPeer'
  BY Zenon, <1>3 DEF PeersOK, HighestPeer
<1> QED
  BY <1>4 DEF PeersOK

\* removePeer: the greatest height is looked for again only when the highest
\* peer leaves.
LEMMA RemovedPeer ==
    ASSUME PeersOK, NEW p \in Peers, RemovePeer(p)
    PROVE  PeersOK'
<1> DEFINE ps == Without({p})
<1>1. NoPeer \in PeerRecords /\ NoPeer.in = FALSE /\ NoPeer.numPending = 0
  BY Reported DEF NoPeer, PeerRecords
<1>2. /\ peers \in [Peers -> PeerRecords] /\ maxPeerHeight \in 0..MaxReport
      /\ maxPeerHeight = Max(HeightsOf(peers))
      /\ \A q \in Peers : peers[q].numPending <= MaxPendingRequestsPerPeer
  BY DEF PeersOK, HighestPeer, HeightsOf
<1>3. /\ ps \in [Peers -> PeerRecords]
      /\ \A q \in Peers : ps[q] = IF q = p THEN NoPeer ELSE peers[q]
  BY <1>1, <1>2 DEF Without
<1>4. peers' = ps /\ maxPeerHeight' = MaxAfter(ps, p)
  BY DEF RemovePeer
<1> HIDE DEF ps
<1>5. In(ps) = In(peers) \ {p}
  BY <1>1, <1>3 DEF In
<1>6. \A x \in HeightsOf(ps) : x \in HeightsOf(peers)
  BY <1>3, <1>5 DEF HeightsOf, In
<1>7. maxPeerHeight' = Max(HeightsOf(ps))
  <2>1. CASE peers[p].in /\ peers[p].height = maxPeerHeight
    BY <1>4, <2>1 DEF MaxAfter, HeightsOf
  <2>2. CASE ~(peers[p].in /\ peers[p].height = maxPeerHeight)
    <3>1. maxPeerHeight' = maxPeerHeight
      BY <1>4, <2>2 DEF MaxAfter
    <3>2. maxPeerHeight \in HeightsOf(peers) /\ \A x \in HeightsOf(peers) : x <= maxPeerHeight
      BY <1>2, Greatest
    <3>3. maxPeerHeight \in HeightsOf(ps)
      <4>1. CASE maxPeerHeight = 0
        BY <4>1 DEF HeightsOf
      <4>2. CASE maxPeerHeight # 0
        <5>1. PICK q \in In(peers) : maxPeerHeight = peers[q].height
          BY <3>2, <4>2 DEF HeightsOf
        <5>2. q # p /\ q \in Peers
          BY <2>2, <5>1 DEF In
        <5> QED
          BY <1>3, <1>5, <5>1, <5>2 DEF HeightsOf
      <4> QED
        BY <4>1, <4>2
    <3> QED
      BY <1>3, <1>6, <3>1, <3>2, <3>3, Greatest
  <2> QED
    BY <2>1, <2>2
<1>8. maxPeerHeight' \in 0..MaxReport
  BY <1>3, <1>7, Greatest
<1>9. \A q \in Peers : ps[q].numPending <= MaxPendingRequestsPerPeer
  BY <1>1, <1>2, <1>3, PoolAssumption
<1> QED
  BY <1>3, <1>4, <1>7, <1>8, <1>9 DEF PeersOK, HighestPeer, HeightsOf

\* SetPeerHeight: a peer appears or grows.
LEMMA HigherPeer ==
    ASSUME PeersOK, NEW p \in Peers, NEW h \in 0..MaxReport, SetPeerHeight(p, h)
    PROVE  PeersOK'
<1> DEFINE q == IF peers[p].in THEN [peers[p] EXCEPT !.height = h]
                ELSE [NoPeer EXCEPT !.in = TRUE, !.height = h]
<1>1. /\ peers \in [Peers -> PeerRecords] /\ maxPeerHeight \in 0..MaxReport
      /\ maxPeerHeight = Max(HeightsOf(peers))
      /\ \A x \in Peers : peers[x].numPending <= MaxPendingRequestsPerPeer
  BY DEF PeersOK, HighestPeer, HeightsOf
<1>2. peers' = [peers EXCEPT ![p] = q]
  BY DEF SetPeerHeight
<1>3. /\ q \in PeerRecords /\ q.in /\ q.height = h
      /\ q.numPending = IF peers[p].in THEN peers[p].numPending ELSE 0
  <2>1. CASE peers[p].in
    BY <1>1, <2>1 DEF PeerRecords
  <2>2. CASE ~peers[p].in
    <3>1. q = [in |-> TRUE, height |-> h, numPending |-> 0, timer |-> "nil", didTimeout |-> FALSE]
      BY Zenon, <2>2 DEF NoPeer
    <3> HIDE DEF q
    <3> QED
      BY <2>2, <3>1 DEF PeerRecords
  <2> QED
    BY <2>1, <2>2
<1> HIDE DEF q
<1>4. /\ peers' \in [Peers -> PeerRecords]
      /\ peers'[p] = q /\ \A x \in Peers \ {p} : peers'[x] = peers[x]
  BY <1>1, <1>2, <1>3
<1>5. \A x \in Peers : peers'[x].numPending <= MaxPendingRequestsPerPeer
  BY <1>1, <1>3, <1>4, PoolAssumption
<1>6. /\ maxPeerHeight' = IF h > maxPeerHeight THEN h ELSE maxPeerHeight
      /\ peers[p].in => h > peers[p].height
  BY DEF SetPeerHeight
<1>7. maxPeerHeight \in HeightsOf(peers) /\ \A x \in HeightsOf(peers) : x <= maxPeerHeight
  BY <1>1, Greatest
<1>8. In(peers') = In(peers) \cup {p}
  BY <1>3, <1>4 DEF In
<1>9. h \in HeightsOf(peers') /\ \A x \in HeightsOf(peers') : x = h \/ x \in HeightsOf(peers)
  BY <1>3, <1>4, <1>8 DEF HeightsOf, In
<1>10. h <= maxPeerHeight => maxPeerHeight \in HeightsOf(peers')
  <2> SUFFICES ASSUME h <= maxPeerHeight, maxPeerHeight # 0, maxPeerHeight # h
               PROVE  maxPeerHeight \in HeightsOf(peers')
    BY <1>9 DEF HeightsOf
  <2>1. PICK x \in In(peers) : maxPeerHeight = peers[x].height
    BY <1>7 DEF HeightsOf
  <2>2. x # p
    BY <1>1, <1>6, <2>1, Reported DEF In
  <2> QED
    BY <1>4, <1>8, <2>1, <2>2 DEF HeightsOf, In
<1>11. maxPeerHeight' \in HeightsOf(peers') /\ maxPeerHeight' \in 0..MaxReport
  BY <1>1, <1>6, <1>9, <1>10, Reported
<1>12. \A x \in HeightsOf(peers') : x <= maxPeerHeight'
  BY <1>1, <1>6, <1>7, <1>9, Reported
<1>13. maxPeerHeight' = Max(HeightsOf(peers'))
  BY <1>4, <1>11, <1>12, Greatest
<1> QED
  BY <1>4, <1>5, <1>11, <1>13 DEF PeersOK, HighestPeer, HeightsOf

-----------------------------------------------------------------------------
(* The requesters *)

\* There are finitely many requesters.
LEMMA FewRequested ==
    /\ IsFiniteSet(Requested) /\ Cardinality(Requested) \in Nat
    /\ \A S \in SUBSET Requested : IsFiniteSet(S) /\ Cardinality(S) \in Nat
<1>1. IsFiniteSet(Heights)
  BY Reported, FS_Interval DEF Heights
<1>2. \A S \in SUBSET Heights : IsFiniteSet(S) /\ Cardinality(S) \in Nat
  BY <1>1, FS_Subset, FS_CardinalityType
<1> QED
  BY <1>2 DEF Requested

\* The heights from height on, with no gap.
LEMMA Gapless ==
    ASSUME RequestersOK
    PROVE  /\ \A h \in Requested : height <= h /\ h < height + Cardinality(Requested)
           /\ \A h \in Int : height <= h /\ h < height + Cardinality(Requested) => h \in Requested
  BY FewRequested, Reported DEF RequestersOK, Contiguous

\* Steps that leave the requesters where they are, with or without blocks.
LEMMA SameRequesters ==
    ASSUME RequestersOK, UNCHANGED <<height, numPending>>,
           requesters' \in [Heights -> Requesters],
           \A h \in Heights :
               /\ requesters'[h].pc = "none" <=> requesters[h].pc = "none"
               /\ requesters'[h].block = requesters[h].block
    PROVE  RequestersOK' /\ Requested' = Requested
<1>1. Requested' = Requested
  BY DEF Requested
<1>2. Waiting' = Waiting
  BY <1>1 DEF Waiting, Requested
<1> QED
  BY Zenon, <1>1, <1>2 DEF RequestersOK, Contiguous, CountsPending, Waiting

\* n requests are pending, and m once requester r has become s.
Recounted(r, s, n, m) ==
    m = n + (IF s.block = "none" THEN 1 ELSE 0) - (IF r.block = "none" THEN 1 ELSE 0)

\* A step that changes only requester h, to r, which is still one.
LEMMA OneRequester ==
    ASSUME RequestersOK, UNCHANGED height, NEW h \in Heights, NEW r \in Requesters,
           requesters[h].pc # "none", r.pc # "none",
           requesters' = [requesters EXCEPT ![h] = r],
           Recounted(requesters[h], r, numPending, numPending')
    PROVE  RequestersOK' /\ Requested' = Requested
<1>1. /\ requesters \in [Heights -> Requesters] /\ numPending \in Int
      /\ numPending >= Cardinality(Waiting)
  BY DEF RequestersOK, CountsPending, Waiting
<1>2. /\ requesters' \in [Heights -> Requesters]
      /\ requesters'[h] = r /\ \A x \in Heights \ {h} : requesters'[x] = requesters[x]
  BY <1>1
<1>3. Requested' = Requested /\ h \in Requested
  BY <1>2 DEF Requested
<1>4. IsFiniteSet(Waiting) /\ Cardinality(Waiting) \in Nat
  BY FewRequested DEF Waiting
<1>5. h \in Waiting <=> requesters[h].block = "none"
  BY <1>3 DEF Waiting
<1>6. numPending' >= Cardinality(Waiting')
  <2>1. CASE r.block = "none"
    <3>1. Waiting' = Waiting \cup {h}
      BY <1>2, <1>3, <2>1 DEF Waiting, Requested
    <3>2. Cardinality(Waiting') = IF h \in Waiting THEN Cardinality(Waiting) ELSE Cardinality(Waiting) + 1
      BY Zenon, <1>4, <3>1, FS_AddElement
    <3> QED
      BY <1>1, <1>4, <1>5, <2>1, <3>2 DEF Recounted
  <2>2. CASE r.block # "none"
    <3>1. Waiting' = Waiting \ {h}
      BY <1>2, <1>3, <2>2 DEF Waiting, Requested
    <3>2. Cardinality(Waiting') = IF h \in Waiting THEN Cardinality(Waiting) - 1 ELSE Cardinality(Waiting)
      BY Zenon, <1>4, <3>1, FS_RemoveElement
    <3> QED
      BY <1>1, <1>4, <1>5, <2>2, <3>2 DEF Recounted
  <2> QED
    BY <2>1, <2>2
<1>7. \A x \in Heights : requesters'[x].pc = "none" => requesters'[x].block = "none"
  BY <1>2 DEF RequestersOK
<1>8. numPending' \in Int
  BY <1>1 DEF Recounted
<1> QED
  BY <1>2, <1>3, <1>6, <1>7, <1>8 DEF RequestersOK, Contiguous, CountsPending, Waiting

\* makeNextRequester: the next height has no requester yet.
LEMMA MoreRequesters ==
    ASSUME RequestersOK, PeersOK, MakeNextRequester
    PROVE  RequestersOK' /\ Requested \subseteq Requested'
<1> DEFINE next == height + Cardinality(Requested)
           r == [NoRequester EXCEPT !.pc = "pick"]
<1>1. /\ requesters \in [Heights -> Requesters] /\ numPending \in Int /\ height \in 1..MaxReport
      /\ Requested = height..(next - 1)
      /\ numPending >= Cardinality(Waiting)
  <2>1. height + Cardinality(Requested) - 1 = next - 1
    BY FewRequested, Reported DEF RequestersOK
  <2> QED
    BY <2>1 DEF RequestersOK, CountsPending, Contiguous, Waiting
<1>2. /\ next <= maxPeerHeight /\ requesters' = [requesters EXCEPT ![next] = r]
      /\ numPending' = numPending + 1 /\ height' = height
  BY DEF MakeNextRequester
<1>3. Cardinality(Requested) \in Nat /\ IsFiniteSet(Requested)
  BY FewRequested
<1>4. next \in Heights /\ next \notin Requested /\ next \in Int
  <2>1. maxPeerHeight \in 0..MaxReport
    BY DEF PeersOK
  <2>2. next \in Int /\ next >= height
    BY <1>1, <1>3, Reported
  <2> HIDE DEF next
  <2> QED
    BY <1>1, <1>2, <2>1, <2>2, Reported DEF Heights
<1>5. r \in Requesters /\ r.pc = "pick" /\ r.block = "none"
  BY DEF NoRequester, Requesters
<1>6. Cardinality(Requested \cup {next}) = Cardinality(Requested) + 1
  BY Zenon, <1>3, <1>4, FS_AddElement
<1> HIDE DEF r
<1>7. height..(height + Cardinality(Requested \cup {next}) - 1) = Requested \cup {next}
  <2>1. height + Cardinality(Requested \cup {next}) - 1 = next
    BY <1>1, <1>3, <1>6, Reported
  <2>2. height..next = (height..(next - 1)) \cup {next}
    <3>1. height \in Int /\ next \in Int /\ height <= next
      BY <1>1, <1>3, <1>4, Reported
    <3> HIDE DEF next
    <3> QED
      BY <3>1
  <2> HIDE DEF next
  <2> QED
    BY <1>1, <2>1, <2>2
<1> HIDE DEF next
<1>8. /\ requesters' \in [Heights -> Requesters]
      /\ requesters'[next] = r /\ \A x \in Heights \ {next} : requesters'[x] = requesters[x]
  BY <1>1, <1>2, <1>4, <1>5
<1>9. Requested' = Requested \cup {next}
  BY <1>4, <1>5, <1>8 DEF Requested
<1>10. Waiting' = Waiting \cup {next}
  BY Zenon, <1>4, <1>5, <1>8, <1>9 DEF Waiting, Requested
<1>11. numPending' >= Cardinality(Waiting') /\ numPending' \in Int
  <2>1. IsFiniteSet(Waiting) /\ Cardinality(Waiting) \in Nat
    BY FewRequested DEF Waiting
  <2>2. /\ IsFiniteSet(Waiting')
        /\ Cardinality(Waiting') = IF next \in Waiting THEN Cardinality(Waiting) ELSE Cardinality(Waiting) + 1
    BY <1>10, <2>1, FS_AddElement
  <2> QED
    BY <1>1, <1>2, <2>1, <2>2
<1>12. \A x \in Heights : requesters'[x].pc = "none" => requesters'[x].block = "none"
  BY <1>5, <1>8 DEF RequestersOK
<1> QED
  BY Zenon, <1>1, <1>2, <1>7, <1>8, <1>9, <1>11, <1>12 DEF RequestersOK, Contiguous, CountsPending, Waiting

\* PopRequest: the lowest height is the one that is dropped.
LEMMA FewerRequesters ==
    ASSUME RequestersOK, height \in Requested, height + 1 \in Requested,
           requesters' = [requesters EXCEPT ![height] = NoRequester],
           height' = height + 1, numPending' = numPending
    PROVE  RequestersOK'
<1> DEFINE n == Cardinality(Requested)
<1>1. /\ requesters \in [Heights -> Requesters] /\ numPending \in Int /\ height \in 1..MaxReport
      /\ Requested = height..(height + n - 1)
      /\ numPending >= Cardinality(Waiting)
  BY DEF RequestersOK, CountsPending, Contiguous, Waiting
<1>2. n \in Nat /\ IsFiniteSet(Requested)
  BY FewRequested
<1>3. NoRequester \in Requesters /\ NoRequester.pc = "none" /\ NoRequester.block = "none"
  BY DEF NoRequester, Requesters
<1>4. height \in Heights /\ height + 1 \in Heights
  BY DEF Requested
<1>5. /\ requesters' \in [Heights -> Requesters]
      /\ requesters'[height] = NoRequester
      /\ \A x \in Heights \ {height} : requesters'[x] = requesters[x]
  BY <1>1, <1>3, <1>4
<1>6. Requested' = Requested \ {height}
  BY <1>3, <1>5 DEF Requested
<1>7. Cardinality(Requested') = n - 1
  BY <1>2, <1>6, FS_RemoveElement
<1>8. height \in Int /\ n >= 1
  BY <1>1, <1>2, Reported
<1> HIDE DEF n
<1>9. Requested' = height'..(height' + Cardinality(Requested') - 1)
  BY <1>1, <1>2, <1>6, <1>7, <1>8
<1>10. numPending' >= Cardinality(Waiting')
  <2>1. Waiting' \in SUBSET Waiting
    BY <1>3, <1>5, <1>6 DEF Waiting, Requested
  <2>2. IsFiniteSet(Waiting) /\ Cardinality(Waiting) \in Nat
    BY FewRequested DEF Waiting
  <2>3. Cardinality(Waiting') <= Cardinality(Waiting) /\ Cardinality(Waiting') \in Nat
    BY <2>1, <2>2, FS_Subset, FS_CardinalityType
  <2> QED
    BY <1>1, <2>2, <2>3
<1>11. \A x \in Heights : requesters'[x].pc = "none" => requesters'[x].block = "none"
  BY <1>3, <1>5 DEF RequestersOK
<1>12. height' \in 1..MaxReport
  BY <1>4, Reported DEF Heights
<1> QED
  BY <1>1, <1>5, <1>9, <1>10, <1>11, <1>12 DEF RequestersOK, Contiguous, CountsPending, Waiting

-----------------------------------------------------------------------------
(* The steps *)

\* poolRoutine between two of its steps: heights keep their requesters.
LEMMA SameRoutine ==
    ASSUME RoutineOK, UNCHANGED <<height, applied>>, peeked' = peeked,
           Requested \subseteq Requested'
    PROVE  RoutineOK'
  BY DEF RoutineOK

\* removePeer leaves every requester its height and its block.
LEMMA RedoRequesters ==
    ASSUME RequestersOK, NEW p \in Peers, RemovePeer(p), UNCHANGED <<height, numPending>>
    PROVE  RequestersOK' /\ Requested' = Requested
<1>1. requesters \in [Heights -> Requesters]
  BY DEF RequestersOK
<1>2. ASSUME NEW r \in Requesters
      PROVE  Redo(r, p) \in Requesters /\ Redo(r, p).pc = r.pc /\ Redo(r, p).block = r.block
  BY DEF Redo, Requesters
<1>3. \A h \in Heights : requesters'[h] = IF requesters[h].pc = "none" THEN requesters[h] ELSE Redo(requesters[h], p)
  BY DEF RemovePeer
<1>4. /\ requesters' \in [Heights -> Requesters]
      /\ \A h \in Heights : /\ requesters'[h].pc = requesters[h].pc
                            /\ requesters'[h].block = requesters[h].block
  <2>1. DOMAIN requesters' = Heights /\ requesters' = [h \in Heights |-> requesters'[h]]
    BY DEF RemovePeer
  <2>2. ASSUME NEW h \in Heights
        PROVE  /\ requesters'[h] \in Requesters /\ requesters'[h].pc = requesters[h].pc
               /\ requesters'[h].block = requesters[h].block
    <3>1. requesters[h] \in Requesters
      BY <1>1
    <3> QED
      BY <1>2, <1>3, <3>1
  <2> QED
    BY <2>1, <2>2
<1> QED
  BY <1>4, SameRequesters

\* A peer is removed, by whoever it is.
LEMMA RemoveKeeps ==
    ASSUME PInv, NEW p \in Peers, RemovePeer(p), UNCHANGED <<height, numPending, applied>>,
           peeked' \in {peeked, "idle"} \/ (peeked = "bad" /\ peeked' = "redo"), NetworkOK'
    PROVE  PInv'
<1>1. PeersOK' /\ RequestersOK' /\ Requested' = Requested
  BY RemovedPeer, RedoRequesters DEF PInv
<1>2. RoutineOK'
  BY <1>1 DEF PInv, RoutineOK
<1> QED
  BY <1>1, <1>2 DEF PInv

\* Nothing but the network changes.
LEMMA NetworkKeeps ==
    ASSUME PInv, UNCHANGED <<pool, peeked, applied>>, NetworkOK'
    PROVE  PInv'
<1>1. /\ UNCHANGED <<peers, maxPeerHeight, requesters, height, numPending>>
      /\ UNCHANGED <<peeked, applied>>
  BY DEF pool
<1>2. Requested' = Requested
  BY <1>1 DEF Requested
<1>3. PeersOK'
  BY <1>1 DEF PInv, PeersOK, HighestPeer
<1>4. RequestersOK'
  BY <1>1, <1>2 DEF PInv, RequestersOK, Contiguous, CountsPending
<1> QED
  BY <1>1, <1>2, <1>3, <1>4 DEF PInv, RoutineOK

\* AddBlock, of whatever block.
LEMMA AddBlockKeeps ==
    ASSUME PInv, NEW p \in Peers, NEW h \in Heights, NEW b \in {"good", "tail", "junk"},
           AddBlock(p, h, b)
    PROVE  PInv'
<1> DEFINE r == requesters[h]
           s == [r EXCEPT !.block = b]
           q == DecrPending(peers[p])
<1>1. /\ r \in Requesters /\ peers \in [Peers -> PeerRecords] /\ peers[p] \in PeerRecords
      /\ asked \in [Peers -> SUBSET Heights] /\ conn \in [Peers -> {"down", "up", "removed"}]
      /\ errorsCh \subseteq Peers /\ numPending \in Int
  BY DEF PInv, RequestersOK, PeersOK, NetworkOK
<1>2. NetworkOK'
  <2>1. asked' \in [Peers -> SUBSET Heights]
    BY <1>1 DEF AddBlock
  <2>2. conn' \in [Peers -> {"down", "up", "removed"}]
    BY <1>1 DEF AddBlock, Received
  <2>3. errorsCh' \subseteq Peers
    BY <1>1 DEF AddBlock
  <2> QED
    BY <2>1, <2>2, <2>3 DEF AddBlock, NetworkOK, PInv
<1>3. CASE r.pc # "none" /\ Takes(r, p)
  <2>1. /\ requesters' = [requesters EXCEPT ![h].block = b] /\ numPending' = numPending - 1
        /\ peers' = [peers EXCEPT ![p] = q]
        /\ UNCHANGED <<maxPeerHeight, height>> /\ UNCHANGED <<peeked, applied>>
    BY <1>3 DEF AddBlock
  <2>2. requesters' = [requesters EXCEPT ![h] = s]
    BY <2>1
  <2>3. s \in Requesters /\ s.pc = r.pc /\ s.block = b
    BY <1>1 DEF Requesters
  <2>4. r.block = "none" /\ b # "none"
    BY <1>3 DEF Takes
  <2> HIDE DEF s
  <2>5. RequestersOK' /\ Requested' = Requested
    <3>1. Recounted(requesters[h], s, numPending, numPending')
      BY <1>1, <2>1, <2>3, <2>4 DEF Recounted
    <3> QED
      BY Zenon, <1>3, <2>1, <2>2, <2>3, <3>1, OneRequester DEF PInv
  <2>6. /\ q \in PeerRecords /\ q.in = peers[p].in /\ q.height = peers[p].height
        /\ q.numPending <= peers[p].numPending
    <3>1. CASE peers[p].in
      <4> DEFINE x == peers[p]
                 timer == IF x.timer = "nil" THEN "nil" ELSE IF x.numPending = 1 THEN "stopped" ELSE "armed"
                 d == -1
      <4>1. x \in PeerRecords /\ timer \in {"nil", "stopped", "armed"} /\ d \in Int
        BY <1>1 DEF PeerRecords
      <4>2. x.numPending - 1 = x.numPending + d /\ x.numPending + d <= x.numPending
        BY <1>1 DEF PeerRecords
      <4>3. q = [x EXCEPT !.numPending = x.numPending + d, !.timer = timer]
        BY Zenon, <3>1, <4>2 DEF DecrPending
      <4> HIDE DEF q, x, timer, d
      <4>4. /\ q \in PeerRecords /\ q.in = x.in /\ q.height = x.height
            /\ q.numPending = x.numPending + d
        BY ZenonT(40), <4>1, <4>3, CountedPeer
      <4> QED
        BY SMTT(40), <4>2, <4>4 DEF x
    <3>2. CASE ~peers[p].in
      <4>1. q = peers[p]
        BY <3>2 DEF DecrPending
      <4> QED
        BY <1>1, <4>1 DEF PeerRecords
    <3> QED
      BY <3>1, <3>2
  <2> HIDE DEF q
  <2>7. PeersOK'
    <3>1. /\ peers' \in [Peers -> PeerRecords]
          /\ peers'[p] = q /\ \A x \in Peers \ {p} : peers'[x] = peers[x]
      BY <1>1, <2>1, <2>6
    <3>2. \A x \in Peers : peers[x].numPending <= MaxPendingRequestsPerPeer
      BY DEF PInv, PeersOK
    <3>3. q.numPending \in Int /\ peers[p].numPending \in Int
      BY <1>1, <2>6 DEF PeerRecords
    <3>4. q.numPending <= MaxPendingRequestsPerPeer
      BY <2>6, <3>2, <3>3, PoolAssumption
    <3>5. \A x \in Peers : /\ peers'[x].in = peers[x].in /\ peers'[x].height = peers[x].height
                           /\ peers'[x].numPending <= MaxPendingRequestsPerPeer
      BY <2>6, <3>1, <3>2, <3>4
    <3> QED
      BY <2>1, <3>1, <3>5, SamePeers DEF PInv
  <2> QED
    BY <1>2, <2>1, <2>5, <2>7, SameRoutine DEF PInv
<1>4. CASE ~(r.pc # "none" /\ Takes(r, p))
  BY <1>2, <1>4, NetworkKeeps DEF AddBlock
<1> QED
  BY <1>3, <1>4

\* A goroutine of a requester: pick a peer, note it, read a redo, reset.
LEMMA RequesterKeeps ==
    ASSUME PInv, NEW h \in Heights, Requester(h)
    PROVE  PInv'
<1>1. /\ requesters[h] \in Requesters /\ requesters \in [Heights -> Requesters]
      /\ peers \in [Peers -> PeerRecords] /\ numPending \in Int
      /\ asked \in [Peers -> SUBSET Heights]
  BY DEF PInv, RequestersOK, PeersOK, NetworkOK
<1>2. ASSUME NEW p \in Peers, PickIncrAvailablePeer(h, p)
      PROVE  PInv'
  <2> DEFINE r == [requesters[h] EXCEPT !.pc = "assign", !.picked = p]
             q == [peers[p] EXCEPT !.numPending = @ + 1,
                                   !.timer = IF peers[p].numPending = 0 THEN "armed" ELSE @]
  <2>1. /\ requesters[h].pc = "pick" /\ requesters' = [requesters EXCEPT ![h] = r]
        /\ peers' = [peers EXCEPT ![p] = q] /\ peers[p].numPending < MaxPendingRequestsPerPeer
        /\ UNCHANGED <<maxPeerHeight, height, numPending, peeked, applied>>
        /\ UNCHANGED <<conn, connects, asked, errorsCh, switched>>
    BY Zenon, <1>2 DEF PickIncrAvailablePeer, Available
  <2>2. r \in Requesters /\ r.pc = "assign" /\ r.block = requesters[h].block
    BY Zenon, <1>1 DEF Requesters
  <2>3. /\ q \in PeerRecords /\ q.in = peers[p].in /\ q.height = peers[p].height
        /\ q.numPending = peers[p].numPending + 1 /\ peers[p].numPending \in Int
    <3> DEFINE x == peers[p]
               timer == IF x.numPending = 0 THEN "armed" ELSE x.timer
    <3>1. x \in PeerRecords /\ timer \in {"nil", "stopped", "armed"} /\ 1 \in Int
      BY <1>1 DEF PeerRecords
    <3>2. q = [x EXCEPT !.numPending = x.numPending + 1, !.timer = timer]
      BY SMTT(40)
    <3> HIDE DEF q, x, timer
    <3>3. /\ q \in PeerRecords /\ q.in = x.in /\ q.height = x.height
          /\ q.numPending = x.numPending + 1 /\ x.numPending \in Int
      BY ZenonT(40), <3>1, <3>2, CountedPeer
    <3> QED
      BY <3>3 DEF x
  <2> HIDE DEF r, q
  <2>4. RequestersOK' /\ Requested' = Requested
    <3>1. Recounted(requesters[h], r, numPending, numPending')
      BY <1>1, <2>1, <2>2 DEF Recounted
    <3> QED
      BY Zenon, <2>1, <2>2, <3>1, OneRequester DEF PInv
  <2>5. PeersOK'
    <3>1. /\ peers' \in [Peers -> PeerRecords]
          /\ peers'[p] = q /\ \A x \in Peers \ {p} : peers'[x] = peers[x]
      BY <1>1, <2>1, <2>3
    <3>2. q.numPending <= MaxPendingRequestsPerPeer
      BY <2>1, <2>3, PoolAssumption
    <3>3. \A x \in Peers : /\ peers'[x].in = peers[x].in /\ peers'[x].height = peers[x].height
                           /\ peers'[x].numPending <= MaxPendingRequestsPerPeer
      BY <2>3, <3>1, <3>2 DEF PInv, PeersOK
    <3> QED
      BY <2>1, <3>1, <3>3, SamePeers DEF PInv
  <2> QED
    BY <2>1, <2>4, <2>5, SameRoutine DEF PInv, NetworkOK
<1>3. ASSUME NEW r \in Requesters, requesters' = [requesters EXCEPT ![h] = r],
             requesters[h].pc # "none", r.pc # "none",
             Recounted(requesters[h], r, numPending, numPending'),
             UNCHANGED <<peers, maxPeerHeight, height, peeked, applied>>, NetworkOK'
      PROVE  PInv'
  <2>1. RequestersOK' /\ Requested' = Requested
    BY Zenon, <1>1, <1>3, OneRequester DEF PInv
  <2>2. PeersOK'
    BY <1>3 DEF PInv, PeersOK, HighestPeer
  <2> QED
    BY <1>3, <2>1, <2>2, SameRoutine DEF PInv
<1>4. CASE Assign(h)
  <2> DEFINE r == [requesters[h] EXCEPT !.pc = "wait", !.peer = requesters[h].picked, !.picked = Nobody]
  <2>1. /\ requesters[h].pc = "assign" /\ requesters' = [requesters EXCEPT ![h] = r]
        /\ UNCHANGED <<peers, maxPeerHeight, height, numPending, peeked, applied>>
    BY Zenon, <1>4 DEF Assign
  <2>2. r \in Requesters /\ r.pc = "wait" /\ r.block = requesters[h].block
    BY Zenon, <1>1 DEF Requesters
  <2>3. NetworkOK'
    BY Zenon, <1>1, <1>4 DEF Assign, PInv, NetworkOK
  <2>4. Recounted(requesters[h], r, numPending, numPending')
    BY <1>1, <2>1, <2>2 DEF Recounted
  <2> HIDE DEF r
  <2> QED
    BY Zenon, <1>3, <2>1, <2>2, <2>3, <2>4
<1>5. CASE ReadRedo(h)
  <2> DEFINE r == [requesters[h] EXCEPT !.redo = Nobody,
                                        !.pc = IF requesters[h].redo = requesters[h].peer THEN "reset" ELSE "wait"]
  <2>1. /\ requesters[h].pc = "wait" /\ requesters' = [requesters EXCEPT ![h] = r]
        /\ UNCHANGED <<peers, maxPeerHeight, height, numPending, peeked, applied>>
    BY Zenon, <1>5 DEF ReadRedo
  <2>2. r \in Requesters /\ r.pc \in {"reset", "wait"} /\ r.block = requesters[h].block
    BY Zenon, <1>1 DEF Requesters
  <2>3. NetworkOK'
    BY <1>5 DEF ReadRedo, PInv, NetworkOK
  <2>4. Recounted(requesters[h], r, numPending, numPending')
    BY <1>1, <2>1, <2>2 DEF Recounted
  <2> HIDE DEF r
  <2> QED
    BY Zenon, <1>3, <2>1, <2>2, <2>3, <2>4
<1>6. CASE Reset(h)
  <2> DEFINE r == [requesters[h] EXCEPT !.pc = "pick", !.peer = Nobody, !.block = "none"]
  <2>1. /\ requesters[h].pc = "reset" /\ requesters' = [requesters EXCEPT ![h] = r]
        /\ UNCHANGED <<peers, maxPeerHeight, height, peeked, applied>>
        /\ numPending' = numPending + (IF requesters[h].block # "none" THEN 1 ELSE 0)
    BY Zenon, <1>6 DEF Reset, PendingAfterReset
  <2>2. r \in Requesters /\ r.pc = "pick" /\ r.block = "none"
    BY Zenon, <1>1 DEF Requesters
  <2>3. NetworkOK'
    BY <1>6 DEF Reset, PInv, NetworkOK
  <2>4. Recounted(requesters[h], r, numPending, numPending')
    BY <1>1, <2>1, <2>2 DEF Recounted
  <2> HIDE DEF r
  <2> QED
    BY Zenon, <1>3, <2>1, <2>2, <2>3, <2>4
<1> QED
  BY <1>2, <1>4, <1>5, <1>6 DEF Requester

\* RedoRequest of a height that has a requester.
LEMMA RedoKeeps ==
    ASSUME PInv, NEW h \in Heights, RedoRequest(h),
           UNCHANGED <<connects, height, numPending, asked, errorsCh, applied, switched>>,
           peeked' = "idle" \/ (peeked = "bad" /\ peeked' = "redo")
    PROVE  PInv'
<1> DEFINE p == requesters[h].peer
<1>1. /\ p \in Peers \cup {Nobody} /\ conn \in [Peers -> {"down", "up", "removed"}] /\ NetworkOK
      /\ requesters \in [Heights -> Requesters]
  BY DEF PInv, RequestersOK, Requesters, NetworkOK
<1>2. CASE p = Nobody
  <2>1. UNCHANGED <<conn, peers, maxPeerHeight, requesters>>
    BY <1>2 DEF RedoRequest
  <2>2. NetworkOK'
    BY <1>1, <2>1 DEF NetworkOK
  <2>3. RequestersOK' /\ Requested' = Requested
    BY <1>1, <2>1, SameRequesters DEF PInv
  <2>4. PeersOK'
    BY <2>1 DEF PInv, PeersOK, HighestPeer
  <2> QED
    BY <2>2, <2>3, <2>4 DEF PInv, RoutineOK
<1>3. CASE p # Nobody
  <2>1. p \in Peers /\ RemovePeer(p)
    BY <1>1, <1>3 DEF RedoRequest, StopPeerForError
  <2>2. conn' \in [Peers -> {"down", "up", "removed"}]
    BY <1>1, <1>3 DEF RedoRequest, StopPeerForError
  <2>3. NetworkOK'
    BY <1>1, <2>2 DEF NetworkOK
  <2> HIDE DEF p
  <2> QED
    BY <2>1, <2>3, RemoveKeeps
<1> QED
  BY <1>2, <1>3

\* poolRoutine.
LEMMA PoolRoutineKeeps ==
    ASSUME PInv, PoolRoutine
    PROVE  PInv'
<1>1. CASE PeekTwoBlocks
  <2> DEFINE at(h) == IF h \in Heights THEN requesters[h].block ELSE "none"
  <2>1. /\ at(height) # "none" /\ at(height + 1) # "none"
        /\ peeked' = IF VerifyCommit(at(height), at(height + 1)) THEN at(height) ELSE "bad"
        /\ UNCHANGED <<conn, connects, pool, asked, errorsCh, applied, switched>>
    BY <1>1 DEF PeekTwoBlocks
  <2>2. peeked' \in {"good", "bad"}
    BY <2>1 DEF VerifyCommit
  <2>3. height \in Requested /\ height + 1 \in Requested
    BY <2>1 DEF Requested, PInv, RequestersOK
  <2>4. /\ UNCHANGED <<peers, maxPeerHeight, requesters, height, numPending>>
        /\ UNCHANGED <<conn, connects, asked, errorsCh, applied, switched>>
    BY <2>1 DEF pool
  <2>5. NetworkOK' /\ PeersOK'
    BY <2>4 DEF PInv, NetworkOK, PeersOK, HighestPeer
  <2>6. RequestersOK' /\ Requested' = Requested
    BY <2>4, SameRequesters DEF PInv, RequestersOK
  <2> QED
    BY <2>2, <2>3, <2>4, <2>5, <2>6 DEF PInv, RoutineOK
<1>2. CASE RedoFirst
  <2>1. height \in Heights
    BY <1>2 DEF RedoFirst, PInv, RoutineOK, Requested
  <2> QED
    BY <1>2, <2>1, RedoKeeps DEF RedoFirst
<1>3. CASE RedoSecond
  <2>1. height + 1 \in Heights
    BY <1>3 DEF RedoSecond, PInv, RoutineOK, Requested
  <2> QED
    BY <1>3, <2>1, RedoKeeps DEF RedoSecond
<1>4. CASE PopRequest
  <2>1. /\ peeked \notin {"idle", "bad", "redo"} /\ peeked' = "idle"
        /\ requesters' = [requesters EXCEPT ![height] = NoRequester]
        /\ height' = height + 1 /\ applied' = Append(applied, peeked)
        /\ UNCHANGED <<conn, connects, peers, maxPeerHeight, numPending, asked, errorsCh, switched>>
    BY <1>4 DEF PopRequest
  <2>2. /\ peeked = "good" /\ height \in Requested /\ height + 1 \in Requested
        /\ applied \in Seq({"good"}) /\ Len(applied) = height - 1
        /\ height \in 1..MaxReport
    BY <2>1 DEF PInv, RoutineOK, RequestersOK
  <2>3. RequestersOK'
    BY <2>1, <2>2, FewerRequesters DEF PInv
  <2>4. applied' \in Seq({"good"}) /\ Len(applied') = height' - 1
    BY <2>1, <2>2, Reported
  <2>5. NetworkOK' /\ PeersOK'
    BY <2>1 DEF PInv, NetworkOK, PeersOK, HighestPeer
  <2> QED
    BY <2>1, <2>3, <2>4, <2>5 DEF PInv, RoutineOK
<1>5. CASE SwitchToConsensus
  <2>1. NetworkOK' /\ UNCHANGED <<pool, peeked, applied>>
    BY <1>5 DEF SwitchToConsensus, PInv, NetworkOK
  <2> QED
    BY <2>1, NetworkKeeps
<1> QED
  BY <1>1, <1>2, <1>3, <1>4, <1>5 DEF PoolRoutine

\* Every action keeps the books.
LEMMA BooksNext ==
    ASSUME PInv, Next
    PROVE  PInv'
<1>1. /\ conn \in [Peers -> {"down", "up", "removed"}] /\ NetworkOK
      /\ asked \in [Peers -> SUBSET Heights] /\ errorsCh \subseteq Peers
  BY DEF PInv, NetworkOK
<1>2. Honest \subseteq Peers /\ Faulty \subseteq Peers
  BY DEF Peers
<1>3. ASSUME NEW p \in Peers, Connect(p) PROVE PInv'
  <2>1. connects' \in 0..MaxConnects
    BY <1>3, PoolAssumption DEF Connect, PInv, NetworkOK
  <2>2. conn' \in [Peers -> {"down", "up", "removed"}] /\ asked' \in [Peers -> SUBSET Heights]
    BY <1>1, <1>3 DEF Connect
  <2>3. NetworkOK'
    BY <1>1, <1>3, <2>1, <2>2 DEF Connect, NetworkOK
  <2> QED
    BY <1>3, <2>3, NetworkKeeps DEF Connect
<1>4. ASSUME NEW p \in Peers, Disconnect(p) PROVE PInv'
  <2>1. conn' \in [Peers -> {"down", "up", "removed"}]
    BY <1>1, <1>4 DEF Disconnect, StopPeerForError
  <2>2. NetworkOK'
    BY <1>1, <1>4, <2>1 DEF Disconnect, NetworkOK
  <2> QED
    BY <1>4, <2>2, RemoveKeeps DEF Disconnect, StopPeerForError
<1>5. ASSUME NEW p \in Peers, HandleError(p) PROVE PInv'
  <2>1. conn' \in [Peers -> {"down", "up", "removed"}]
    BY <1>1, <1>5 DEF HandleError, StopPeerForError
  <2>2. NetworkOK'
    BY <1>1, <1>5, <2>1 DEF HandleError, NetworkOK
  <2>3. CASE conn[p] = "up"
    BY <1>5, <2>2, <2>3, RemoveKeeps DEF HandleError, StopPeerForError
  <2>4. CASE conn[p] # "up"
    <3>1. UNCHANGED <<pool, peeked, applied>>
      BY <1>5, <2>4 DEF HandleError, pool
    <3> QED
      BY <2>2, <3>1, NetworkKeeps
  <2> QED
    BY <2>3, <2>4
<1>6. ASSUME NEW p \in Peers, NEW h \in 0..MaxReport, SetPeerHeight(p, h) PROVE PInv'
  <2>1. PeersOK'
    BY <1>6, HigherPeer DEF PInv
  <2>2. conn' \in [Peers -> {"down", "up", "removed"}]
    BY <1>1, <1>6 DEF SetPeerHeight, Received
  <2>3. NetworkOK' /\ UNCHANGED <<requesters, height, numPending>> /\ UNCHANGED <<peeked, applied>>
    BY <1>1, <1>6, <2>2 DEF SetPeerHeight, NetworkOK
  <2>4. RequestersOK' /\ Requested' = Requested
    BY <2>3, SameRequesters DEF PInv, RequestersOK
  <2> QED
    BY <2>1, <2>3, <2>4, SameRoutine DEF PInv
<1>7. ASSUME NEW p \in Peers, OnTimeout(p) PROVE PInv'
  <2> DEFINE q == [peers[p] EXCEPT !.didTimeout = TRUE, !.timer = "stopped"]
  <2>1. /\ peers' = [peers EXCEPT ![p] = q] /\ errorsCh' = errorsCh \cup {p}
        /\ UNCHANGED <<conn, connects, asked, switched>>
        /\ UNCHANGED <<maxPeerHeight, requesters, height, numPending, peeked, applied>>
    BY Zenon, <1>7 DEF OnTimeout
  <2>2. peers \in [Peers -> PeerRecords] /\ peers[p] \in PeerRecords
    BY DEF PInv, PeersOK
  <2>3. /\ q \in PeerRecords /\ q.in = peers[p].in /\ q.height = peers[p].height
        /\ q.numPending = peers[p].numPending
    BY Zenon, <2>2 DEF PeerRecords
  <2> HIDE DEF q
  <2>4. /\ peers' \in [Peers -> PeerRecords]
        /\ \A x \in Peers : /\ peers'[x].in = peers[x].in /\ peers'[x].height = peers[x].height
                            /\ peers'[x].numPending <= MaxPendingRequestsPerPeer
    BY <2>1, <2>2, <2>3 DEF PInv, PeersOK
  <2>5. PeersOK'
    BY <2>1, <2>4, SamePeers DEF PInv
  <2>6. RequestersOK' /\ Requested' = Requested
    BY <2>1, SameRequesters DEF PInv, RequestersOK
  <2>7. NetworkOK'
    BY <1>1, <2>1 DEF NetworkOK
  <2> QED
    BY <2>1, <2>5, <2>6, <2>7, SameRoutine DEF PInv
<1>8. ASSUME NEW p \in Peers, DropTimedOut(p) PROVE PInv'
  <2>1. NetworkOK'
    BY <1>1, <1>8 DEF DropTimedOut, NetworkOK
  <2> QED
    BY <1>8, <2>1, RemoveKeeps DEF DropTimedOut
<1>9. CASE MakeNextRequester
  <2>1. RequestersOK' /\ Requested \subseteq Requested'
    BY <1>9, MoreRequesters DEF PInv
  <2>2. /\ UNCHANGED <<peers, maxPeerHeight, height, peeked, applied>>
        /\ UNCHANGED <<conn, connects, asked, errorsCh, switched>>
    BY <1>9 DEF MakeNextRequester
  <2>3. PeersOK' /\ NetworkOK'
    BY <2>2 DEF PInv, PeersOK, HighestPeer, NetworkOK
  <2> QED
    BY <2>1, <2>2, <2>3, SameRoutine DEF PInv
<1>10. ASSUME NEW p \in Peers, NEW h \in Heights, NEW b \in {"good", "tail", "junk"}, AddBlock(p, h, b)
       PROVE  PInv'
  BY <1>10, AddBlockKeeps
<1>11. FaultyBlocks \subseteq {"good", "tail", "junk"}
  BY PoolAssumption
<1>12. CASE \E p \in Peers : Connect(p) \/ Disconnect(p) \/ HandleError(p)
  BY <1>3, <1>4, <1>5, <1>12
<1>13. CASE \/ \E p \in Honest : SetPeerHeight(p, N)
            \/ \E p \in Faulty, h \in Reports : SetPeerHeight(p, h)
  BY <1>2, <1>6, <1>13, Reported
<1>14. CASE \/ \E p \in Honest, h \in Heights : AddBlock(p, h, "good")
            \/ \E p \in Faulty, h \in Heights, b \in FaultyBlocks : AddBlock(p, h, b)
  BY <1>2, <1>10, <1>11, <1>14
<1>15. CASE \E p \in Peers : OnTimeout(p) \/ DropTimedOut(p)
  BY <1>7, <1>8, <1>15
<1> QED
  BY <1>9, <1>12, <1>13, <1>14, <1>15, RequesterKeeps, PoolRoutineKeeps DEF Next

\* Fast sync begins with an empty pool.
LEMMA BooksInit == Init => PInv
<1> SUFFICES ASSUME Init PROVE PInv
  OBVIOUS
<1>1. NoPeer \in PeerRecords /\ NoPeer.numPending = 0 /\ ~NoPeer.in
  BY Reported DEF NoPeer, PeerRecords
<1>2. NoRequester \in Requesters /\ NoRequester.pc = "none" /\ NoRequester.block = "none"
  BY DEF NoRequester, Requesters
<1>3. PeersOK
  <2>1. /\ peers \in [Peers -> PeerRecords] /\ maxPeerHeight = 0
        /\ \A p \in Peers : peers[p] = NoPeer
    BY <1>1 DEF Init
  <2>2. HeightsOf(peers) = {0}
    BY <1>1, <2>1 DEF HeightsOf, In
  <2>3. 0 = Max(HeightsOf(peers))
    BY <2>1, <2>2, Greatest
  <2> QED
    BY <1>1, <2>1, <2>3, Reported, PoolAssumption DEF PeersOK, HighestPeer, HeightsOf
<1>4. RequestersOK
  <2>1. requesters \in [Heights -> Requesters] /\ \A h \in Heights : requesters[h] = NoRequester
    BY <1>2 DEF Init
  <2>2. Requested = {} /\ Waiting = {}
    BY <1>2, <2>1 DEF Requested, Waiting
  <2>3. Cardinality({}) = 0
    BY FS_EmptySet
  <2>4. height = 1 /\ numPending = 0
    BY DEF Init
  <2>5. Contiguous
    BY <2>2, <2>3, <2>4 DEF Contiguous
  <2>6. CountsPending
    BY <2>2, <2>3, <2>4 DEF CountsPending, Waiting
  <2> QED
    BY <1>2, <2>1, <2>4, <2>5, <2>6, Reported DEF RequestersOK
<1>5. RoutineOK
  BY DEF Init, RoutineOK
<1>6. NetworkOK
  <2>1. MaxConnects \in Nat
    BY PoolAssumption
  <2>2. connects = 0 /\ errorsCh = {} /\ switched = FALSE
    BY DEF Init
  <2>3. conn \in [Peers -> {"down", "up", "removed"}] /\ asked \in [Peers -> SUBSET Heights]
    BY DEF Init
  <2>4. connects \in 0..MaxConnects
    BY <2>1, <2>2
  <2>5. errorsCh \subseteq Peers /\ switched \in BOOLEAN
    BY Zenon, <2>2
  <2> QED
    BY <2>3, <2>4, <2>5 DEF NetworkOK
<1> QED
  BY <1>3, <1>4, <1>5, <1>6 DEF PInv

\* The books hold, and poolRoutine keeps its two requesters, whatever peers
\* connect, report, answer, time out and leave in between.
THEOREM BooksAreKept == Spec => []PInv
<1>1. Init => PInv
  BY BooksInit
<1>2. PInv /\ [Next]_vars => PInv'
  <2> SUFFICES ASSUME PInv, [Next]_vars PROVE PInv'
    OBVIOUS
  <2>1. CASE UNCHANGED vars
    <3>1. UNCHANGED <<pool, peeked, applied>> /\ UNCHANGED <<conn, connects, asked, errorsCh, switched>>
      BY <2>1 DEF vars
    <3>2. NetworkOK'
      BY <3>1 DEF PInv, NetworkOK
    <3> QED
      BY <3>1, <3>2, NetworkKeeps
  <2> QED
    BY <2>1, BooksNext
<1> QED
  BY <1>1, <1>2, PTL DEF Spec

\* Bookkeeping: requesters without a gap, no pending request uncounted, and
\* the height of the highest peer, for any peers, reports and limits.
THEOREM PoolKeepsItsBooks == Spec => []Bookkeeping
<1>1. PInv => Bookkeeping
  <2> SUFFICES ASSUME PInv PROVE Bookkeeping
    OBVIOUS
  <2>1. PeersOK /\ RequestersOK /\ NetworkOK
    BY DEF PInv
  <2>2. TypeOK
    BY <2>1 DEF TypeOK, PeersOK, RequestersOK, NetworkOK, PeerRecords, Requesters
  <2> QED
    BY <2>1, <2>2 DEF Bookkeeping, PeersOK, RequestersOK
<1> QED
  BY <1>1, BooksAreKept, PTL

\* AppliesTheChain: every block that poolRoutine applies is the chain's, one
\* per height, whatever became of its requester after PeekTwoBlocks.
THEOREM OnlyTheChainIsApplied == Spec => []AppliesTheChain
<1>1. PInv => AppliesTheChain
  <2> SUFFICES ASSUME PInv PROVE AppliesTheChain
    OBVIOUS
  <2>1. applied \in Seq({"good"}) /\ Len(applied) = height - 1
    BY DEF PInv, RoutineOK
  <2> QED
    BY <2>1 DEF AppliesTheChain
<1> QED
  BY <1>1, BooksAreKept, PTL
=============================================================================
