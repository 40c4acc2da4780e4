------------------------------- MODULE Switch -------------------------------
(***************************************************************************)
(* The life of a connection in the p2p switch (p2p/switch.go): it is       *)
(* accepted or dialed, filtered, started, put into the PeerSet             *)
(* (p2p/peer_set.go) and handed to the reactors; it is stopped by its own  *)
(* multiplexer on an error or by a reactor that complains, and the         *)
(* goroutines that do so run beside the one that still adds it.  The       *)
(* reactor with state per peer is the mempool's, which gives every peer a  *)
(* short id (mempool/reactor.go, mempoolIDs).                              *)
(*                                                                         *)
(* A connection is added once and, when it has ended, comes back as        *)
(* another connection of the same ID.                                      *)
(***************************************************************************)
EXTENDS Integers, Sequences, FiniteSets, Functions

CONSTANTS
    Conns,              \* the connections
    IdOf,               \* the ID of the node at the other end
    Outbounds,          \* choices of those this node dials; the others are accepted
    MaxNumInboundPeers, \* config.MaxNumInboundPeers
    IDSpace,            \* the short ids are 0..IDSpace-1 (2^16 in the code)
    FirstID,            \* the next short id: 1, or further on when peers came and went
    Disputed            \* bound: the connections a reactor may complain about

VARIABLES
    outbound,  \* the connections this node dials
    adding,    \* how far addPeer has come with the connection
    running,   \* its multiplexer runs
    calls,     \* the calls of stopAndRemovePeer, by who made them
    dialing,   \* sw.dialing
    list, lookup,                 \* the PeerSet: connections; ID -> index
    peerMap, activeIDs, nextID,   \* mempoolIDs
    panicked,  \* no short id was left
    raced      \* the IDs with a stop that met another stop or the adding

peerSet == <<list, lookup>>
ids == <<peerMap, activeIDs, nextID, panicked>>
vars == <<outbound, adding, running, calls, dialing, peerSet, ids, raced>>

Callers == {"mconn", "reactor"}
IDs == {IdOf[c] : c \in Conns}

Init ==
    /\ outbound \in Outbounds
    /\ adding = [c \in Conns |-> "none"] /\ running = [c \in Conns |-> FALSE]
    /\ calls = [c \in Conns |-> [w \in Callers |-> "none"]]
    /\ dialing = {} /\ list = <<>> /\ lookup = <<>>
    /\ peerMap = <<>> /\ activeIDs = {0} /\ nextID = FirstID /\ panicked = FALSE
    /\ raced = {}

-----------------------------------------------------------------------------
(* PeerSet                                                                 *)

Has(id) == id \in DOMAIN lookup

Listed(c) == Has(IdOf[c]) /\ list[lookup[IdOf[c]]] = c

\* Add: refused (Has) is the caller's case.
PeerSetAdd(c) ==
    /\ list' = Append(list, c)
    /\ lookup' = [i \in DOMAIN lookup \cup {IdOf[c]} |->
                    IF i = IdOf[c] THEN Len(list) + 1 ELSE lookup[i]]

\* The last peer takes the place of the removed one, and its index changes.
PeerSetRemove(id) ==
    IF ~Has(id) THEN UNCHANGED peerSet
    ELSE LET index == lookup[id]
             moved == IdOf[list[Len(list)]]
         IN  /\ list' = [i \in 1..(Len(list) - 1) |->
                           IF i = index THEN list[Len(list)] ELSE list[i]]
             /\ lookup' = [i \in DOMAIN lookup \ {id} |->
                             IF i = moved THEN index ELSE lookup[i]]

NumInbound == Cardinality({i \in DOMAIN list : list[i] \notin outbound})

-----------------------------------------------------------------------------
(* mempoolIDs                                                              *)

\* The first id from nextID on, around the end of uint16, that is not in use.
NextPeerID ==
    LET Next_(n) == (nextID + n) % IDSpace
        n == CHOOSE n \in 0..(IDSpace - 1) :
               /\ Next_(n) \notin activeIDs
               /\ \A k \in 0..(n - 1) : Next_(k) \in activeIDs
    IN  Next_(n)

ReserveForPeer(id) ==
    IF Cardinality(activeIDs) = IDSpace - 1
    THEN panicked' = TRUE /\ UNCHANGED <<peerMap, activeIDs, nextID>>
    ELSE /\ peerMap' = [i \in DOMAIN peerMap \cup {id} |->
                          IF i = id THEN NextPeerID ELSE peerMap[i]]
         /\ activeIDs' = activeIDs \cup {NextPeerID}
         /\ nextID' = (NextPeerID + 1) % IDSpace
         /\ UNCHANGED panicked

Reclaim(id) ==
    /\ peerMap' = Restrict(peerMap, DOMAIN peerMap \ {id})
    /\ activeIDs' = activeIDs \ {peerMap[i] : i \in DOMAIN peerMap \cap {id}}
    /\ UNCHANGED <<nextID, panicked>>

-----------------------------------------------------------------------------
(* Adding a connection                                                     *)

Become(c, step) == adding' = [adding EXCEPT ![c] = step]

\* addOutboundPeerWithConfig and the accept loop are through with c.
Finish(c, step) ==
    /\ Become(c, step)
    /\ dialing' = IF c \in outbound THEN dialing \ {IdOf[c]} ELSE dialing

InProgress(c) == adding[c] \in {"offered", "filtered", "started", "refused", "listed"}

\* One goroutine accepts, and adds what it accepted before it accepts again.
Accept(c) ==
    /\ c \notin outbound /\ adding[c] = "none"
    /\ \A d \in Conns \ outbound : ~InProgress(d)
    /\ Become(c, IF NumInbound >= MaxNumInboundPeers THEN "over" ELSE "offered")
    /\ UNCHANGED <<running, calls, dialing, peerSet, ids, raced>>

\* DialPeerWithAddress looks into the dialing map and the PeerSet, then
\* enters the ID: two goroutines may both pass the look.
Dial(c) ==
    /\ c \in outbound /\ adding[c] = "none"
    /\ Become(c, IF IdOf[c] \in dialing \/ Has(IdOf[c]) THEN "over" ELSE "checked")
    /\ UNCHANGED <<running, calls, dialing, peerSet, ids, raced>>

SetDialing(c) ==
    /\ adding[c] = "checked" /\ Become(c, "offered")
    /\ dialing' = dialing \cup {IdOf[c]}
    /\ UNCHANGED <<running, calls, peerSet, ids, raced>>

FilterPeer(c) ==
    /\ adding[c] = "offered"
    /\ IF Has(IdOf[c]) THEN Finish(c, "over")
       ELSE Become(c, "filtered") /\ UNCHANGED dialing
    /\ UNCHANGED <<running, calls, peerSet, ids, raced>>

\* InitPeer of the reactors (state of this connection only), then Start.
StartPeer(c) ==
    /\ adding[c] = "filtered" /\ Become(c, "started")
    /\ running' = [running EXCEPT ![c] = TRUE]
    /\ UNCHANGED <<calls, dialing, peerSet, ids, raced>>

\* peers.Add; refused, the connection is closed while it still runs.
AddToPeerSet(c) ==
    /\ adding[c] = "started"
    /\ IF Has(IdOf[c]) THEN Become(c, "refused") /\ UNCHANGED peerSet
       ELSE Become(c, "listed") /\ PeerSetAdd(c)
    /\ UNCHANGED <<running, calls, dialing, ids, raced>>

StopRefused(c) ==
    /\ adding[c] = "refused" /\ Finish(c, "over")
    /\ running' = [running EXCEPT ![c] = FALSE]
    /\ UNCHANGED <<calls, peerSet, ids, raced>>

\* AddPeer of the reactors.
AddToReactors(c) ==
    /\ adding[c] = "listed" /\ Finish(c, "added")
    /\ ReserveForPeer(IdOf[c])
    /\ UNCHANGED <<running, calls, peerSet, raced>>

-----------------------------------------------------------------------------
(* Stopping a connection                                                   *)

Call(c, who, step) == calls' = [calls EXCEPT ![c][who] = step]

Begin(c, who, step) ==
    /\ calls[c][who] = "none" /\ Call(c, who, step)
    /\ raced' = IF adding[c] # "added" \/ \E w \in Callers \ {who} : calls[c][w] # "none"
                THEN raced \cup {IdOf[c]} ELSE raced
    /\ UNCHANGED <<adding, dialing, peerSet, ids>>

\* The multiplexer meets an error while it runs (the other side went away,
\* or this side closed the connection): it stops and, once, reports it.
\* (The Stop of stopAndRemovePeer finds it stopped.)
Fail(c) ==
    /\ running[c] /\ Begin(c, "mconn", "remove")
    /\ running' = [running EXCEPT ![c] = FALSE]

\* A reactor complains about the peer it received from, or looked up.
Complain(c) ==
    /\ c \in Disputed /\ (running[c] \/ Listed(c))
    /\ Begin(c, "reactor", "stop") /\ UNCHANGED running

\* stopAndRemovePeer: Cleanup and Stop, RemovePeer of the reactors, and the
\* PeerSet last.
StopPeer(c, who) ==
    /\ calls[c][who] = "stop" /\ Call(c, who, "remove")
    /\ running' = [running EXCEPT ![c] = FALSE]
    /\ UNCHANGED <<adding, dialing, peerSet, ids, raced>>

\* Mutant: the reactors are not told.
RemoveFromReactors_Skipped(c, who) ==
    /\ calls[c][who] = "remove" /\ Call(c, who, "unlist")
    /\ UNCHANGED <<adding, running, dialing, peerSet, ids, raced>>

RemoveFromReactors(c, who) ==
    /\ calls[c][who] = "remove" /\ Call(c, who, "unlist")
    /\ Reclaim(IdOf[c])
    /\ UNCHANGED <<adding, running, dialing, peerSet, raced>>

RemoveFromPeerSet(c, who) ==
    /\ calls[c][who] = "unlist" /\ Call(c, who, "over")
    /\ PeerSetRemove(IdOf[c])
    /\ UNCHANGED <<adding, running, dialing, ids, raced>>

Next ==
    /\ ~panicked /\ UNCHANGED outbound
    /\ \E c \in Conns :
          \/ Accept(c) \/ Dial(c) \/ SetDialing(c) \/ FilterPeer(c) \/ StartPeer(c)
          \/ AddToPeerSet(c) \/ StopRefused(c) \/ AddToReactors(c)
          \/ Fail(c) \/ Complain(c)
          \/ \E who \in Callers :
                StopPeer(c, who) \/ RemoveFromReactors(c, who) \/ RemoveFromPeerSet(c, who)

Spec == Init /\ [][Next]_vars

-----------------------------------------------------------------------------
(* Properties                                                              *)

\* The slice and the map of the PeerSet describe one set, whatever was added
\* and removed in between (peer_set.go: Remove moves the last peer into the
\* gap and has to correct that peer's index).
PeerSetConsistent ==
    /\ Len(list) = Cardinality(DOMAIN lookup)
    /\ \A i \in DOMAIN lookup : lookup[i] \in DOMAIN list /\ IdOf[list[lookup[i]]] = i

\* Never more inbound peers than configured, although the accept loop counts
\* them before it adds one and peers come and go in between (switch.go:
\* acceptRoutine).
InboundBounded == NumInbound <= MaxNumInboundPeers

\* Two peers never share a short id and none has the id of "unknown", so that
\* a transaction is never held back from a peer that did not send it; the
\* search goes round the end of the id space (mempool/reactor.go).
IDsDistinct ==
    /\ IsInjective(peerMap)
    /\ \A i \in DOMAIN peerMap : peerMap[i] # 0 /\ peerMap[i] \in activeIDs

Busy(i) == \E c \in Conns :
    /\ IdOf[c] = i
    /\ InProgress(c) \/ \E w \in Callers : calls[c][w] \in {"stop", "remove", "unlist"}

Live(i) == {c \in Conns : IdOf[c] = i /\ adding[c] = "added" /\ running[c]}

\* When nobody adds or stops a peer of an ID, the switch and the reactors know
\* that ID exactly when a connection to it runs: a peer that comes back while
\* it is removed does not lose what the reactors keep for it (switch.go:
\* "Removing a peer should go last ...").  Except for the IDs of which a stop
\* met another stop, or the goroutine that was still adding the connection,
\* and of a node that ran out of short ids and went down.
BooksAgree ==
    \A i \in IDs \ raced : ~Busy(i) /\ ~panicked =>
        /\ Cardinality(Live(i)) <= 1
        /\ Has(i) <=> Live(i) # {}
        /\ Has(i) => list[lookup[i]] \in Live(i)
        /\ i \in DOMAIN peerMap <=> Has(i)

\* Short ids come back when their peers leave: as long as no stop raced, the
\* ids in use are those of the peers, and no node runs out of them (the panic
\* of nextPeerID).
IDsComeBack ==
    raced = {} => activeIDs = {0} \cup Range(peerMap) /\ ~panicked

=============================================================================
