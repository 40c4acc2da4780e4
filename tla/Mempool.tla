------------------------------ MODULE Mempool ------------------------------
(***************************************************************************)
(* The transaction pool of pkgs/bft/mempool: CListMempool, its LRU cache   *)
(* of seen transactions, the TxsAvailable notification to consensus, the   *)
(* recheck after a commit, and the reactor that gives each peer a short id *)
(* and a goroutine that walks the list and sends what the peer lacks.      *)
(*                                                                         *)
(* CheckTx runs under the pool's mutex and the only ABCI client (local)    *)
(* answers before CheckTxAsync returns, so a CheckTx is one step.  Update  *)
(* holds the mutex from the Commit of the application on, but the sending  *)
(* goroutines take no lock: each removal and each recheck is a step of its *)
(* own.  The application (external) is what pkgs/sdk does with a check     *)
(* state: it accepts a transaction that is good on the committed state and *)
(* not yet in the check state, which a commit resets.                      *)
(***************************************************************************)
EXTENDS Integers, FiniteSets, CList

CONSTANTS
    Txs, TxLen(_), TxGas(_),    \* transactions, their bytes and gasWanted
    PeerTxs,    \* the transactions peers send
    Peers,      \* the ids of the peers connected at the start
    Size, MaxPendingTxsBytes, CacheSize,    \* config
    Configs,        \* which of broadcasting and TxsAvailable are enabled
    MaxTxBytes,     \* values ConsensusParams.Block.MaxTxBytes may take
    MaxElems,       \* bound on the number of accepted transactions
    FirstHeight, MaxHeight      \* bounds on the number of commits

ASSUME MempoolAssumption ==
    /\ {Size, MaxPendingTxsBytes, CacheSize, MaxElems, FirstHeight, MaxHeight} \subseteq Nat
    /\ MaxTxBytes # {} /\ MaxTxBytes \subseteq Nat \ {0}
    /\ Configs \subseteq [broadcast : BOOLEAN, txsAvailable : BOOLEAN]
    /\ PeerTxs \subseteq Txs
    /\ Size > 0 /\ Peers \subseteq Nat \ {0}
    /\ \A t \in Txs : TxLen(t) \in Nat \ {0} /\ TxGas(t) \in Nat

VARIABLES
    txs, txsMap, txsBytes, senders, seenAt,     \* the list; senders and height of each element
    config,
    cache,                                      \* the LRU list, oldest first
    height, maxTxBytes, notified,
    txsAvailable, told,     \* the channel; consensus was told since the last Update
    good, checked,          \* the application: committed state, check state
    update,                 \* what is left of the Update that holds the mutex
    recheckCursor, recheckEnd, panicked,
    up, peerHeight,         \* the peer is connected; its height (-1: not known yet)
    routine, sent           \* broadcastTxRoutine and what it sent

pool == <<txs, txsMap, txsBytes, senders, seenAt, cache>>
app == <<good, checked, config>>
notice == <<notified, txsAvailable, told>>
recheck == <<update, recheckCursor, recheckEnd>>
peers == <<up, peerHeight, routine, sent>>
vars == <<pool, app, notice, recheck, peers, height, maxTxBytes, panicked>>

Idle == [phase |-> "idle", block |-> <<>>, ok |-> {}, at |-> 0]
Off == [pc |-> "off", next |-> 0, gen |-> 0]
UnknownPeerID == 0

Init ==
    /\ txs = New /\ txsMap = [t \in Txs |-> 0] /\ txsBytes = 0
    /\ senders = <<>> /\ seenAt = <<>> /\ cache = <<>>
    /\ height = FirstHeight /\ maxTxBytes \in MaxTxBytes
    /\ notified = FALSE /\ txsAvailable = FALSE /\ told = FALSE
    /\ good = Txs /\ checked = {}
    /\ update = Idle /\ recheckCursor = 0 /\ recheckEnd = 0 /\ panicked = FALSE
    /\ config \in Configs
    /\ up = [p \in Peers |-> TRUE] /\ peerHeight = [p \in Peers |-> -1]
    /\ routine = [p \in Peers |-> [Off EXCEPT !.pc = IF config.broadcast THEN "run" ELSE "off"]] /\ sent = [p \in Peers |-> {}]

-----------------------------------------------------------------------------
(* mapTxCache.                                                             *)

CacheRemove(c, t) == SelectSeq(c, LAMBDA u : u # t)

\* The new order; the transaction moves to the back or evicts the front.
CachePush(c, t) ==
    LET d == CacheRemove(c, t)
    IN IF CacheSize = 0 THEN c
       ELSE IF Contains(c, t) \/ Len(c) < CacheSize THEN Append(d, t) ELSE Append(Tail(c), t)

Cached(c, t) == CacheSize > 0 /\ Contains(c, t)

-----------------------------------------------------------------------------
(* Adding and removing.                                                    *)

Tx(e) == txs.elems[e].value
LiveTxs == {Tx(e) : e \in Live(txs)}

\* notifyTxsAvailable, when the pool is not empty.
NotifyTxsAvailable ==
    /\ notified' = (notified \/ config.txsAvailable)
    /\ txsAvailable' = (txsAvailable \/ (config.txsAvailable /\ ~notified))
    /\ UNCHANGED told

AddTx(t, id) ==
    /\ txs' = PushBack(txs, t)
    /\ txsMap' = [txsMap EXCEPT ![t] = Len(txs.elems) + 1]
    /\ txsBytes' = txsBytes + TxLen(t)
    /\ senders' = Append(senders, {id})
    /\ seenAt' = Append(seenAt, height)

RemoveTx(e) ==
    /\ txs' = RemoveElement(txs, e)
    /\ txsMap' = [txsMap EXCEPT ![Tx(e)] = 0]
    /\ txsBytes' = txsBytes - TxLen(Tx(e))
    /\ UNCHANGED <<senders, seenAt>>

Full(t) == txs.len >= Size \/ TxLen(t) + txsBytes > MaxPendingTxsBytes

\* The answer of the application to CheckTx.
Accepts(t) == t \in good \ checked

\* CheckTxWithInfo of a transaction in the cache: only its sender is noted.
CheckTxCached(t, id) ==
    /\ cache' = CachePush(cache, t)
    /\ senders' = IF txsMap[t] = 0 THEN senders ELSE [senders EXCEPT ![txsMap[t]] = @ \cup {id}]
    /\ UNCHANGED <<txs, txsMap, txsBytes, seenAt, app, notice, panicked>>

\* CheckTxAsync answers at once.  globalCb comes first and would take the
\* answer for one of a recheck that never ended.
CheckTxNew(t, id) ==
    IF recheckCursor # 0
      THEN /\ panicked' = TRUE /\ cache' = CachePush(cache, t)
           /\ UNCHANGED <<txs, txsMap, txsBytes, senders, seenAt, app, notice>>
      ELSE /\ UNCHANGED <<good, config, panicked>>
           /\ IF Accepts(t)
                THEN /\ checked' = checked \cup {t} /\ cache' = CachePush(cache, t)
                     /\ AddTx(t, id) /\ NotifyTxsAvailable
                ELSE /\ cache' = CacheRemove(CachePush(cache, t), t)
                     /\ UNCHANGED <<txs, txsMap, txsBytes, senders, seenAt, checked, notice>>

CheckTxWithInfo(t, id) ==
    /\ ~panicked /\ update = Idle
    /\ ~Full(t) /\ TxLen(t) <= maxTxBytes
    /\ Len(txs.elems) < MaxElems
    /\ IF Cached(cache, t) THEN CheckTxCached(t, id) ELSE CheckTxNew(t, id)
    /\ UNCHANGED <<recheck, peers, height, maxTxBytes>>

\* CheckTx of the RPC server.
CheckTx(t) == CheckTxWithInfo(t, UnknownPeerID)

\* Reactor.Receive.
Receive(p, t) == up[p] /\ CheckTxWithInfo(t, p)

\* Flush of the RPC server (unsafe_flush_mempool).
Flush ==
    /\ ~panicked /\ update = Idle /\ txs.len > 0
    /\ txs' = FoldLeft(RemoveElement, txs, Walk(txs))
    /\ txsMap' = [t \in Txs |-> 0] /\ txsBytes' = 0 /\ cache' = <<>>
    /\ UNCHANGED <<senders, seenAt, app, notice, recheck, peers, height, maxTxBytes, panicked>>

-----------------------------------------------------------------------------
(* Commit and Update.                                                      *)

\* BlockExecutor.Commit takes the mutex and commits the application, whose
\* check state starts again from the committed one; Update begins.  A
\* transaction of the block fails if it is not good; afterwards those that
\* were executed and some others (bad) are not.
Commit(block, bad, max) ==
    LET ok == ToSet(block) \cap good IN
    /\ ~panicked /\ update = Idle /\ height < MaxHeight
    /\ good' = Txs \ (ok \cup bad) /\ checked' = {} /\ UNCHANGED config
    /\ height' = height + 1 /\ notified' = FALSE /\ told' = FALSE /\ maxTxBytes' = max
    /\ update' = [Idle EXCEPT !.phase = "remove", !.block = block, !.ok = ok]
    /\ UNCHANGED <<pool, txsAvailable, recheckCursor, recheckEnd, peers, panicked>>

\* One transaction of the block.
UpdateRemove ==
    /\ update.phase = "remove" /\ update.block # <<>>
    /\ LET t == Head(update.block)
       IN /\ cache' = IF t \in update.ok THEN CachePush(cache, t) ELSE CacheRemove(cache, t)
          /\ IF txsMap[t] # 0 THEN RemoveTx(txsMap[t])
             ELSE UNCHANGED <<txs, txsMap, txsBytes, senders, seenAt>>
    /\ update' = [update EXCEPT !.block = Tail(@)]
    /\ UNCHANGED <<app, notice, recheckCursor, recheckEnd, peers, height, maxTxBytes, panicked>>

\* The block is done: recheckTxs starts at the front, or Update returns.
RecheckTxs ==
    /\ update.phase = "remove" /\ update.block = <<>>
    /\ IF txs.len = 0
         THEN update' = Idle /\ UNCHANGED <<recheckCursor, recheckEnd>>
         ELSE /\ update' = [update EXCEPT !.phase = "recheck", !.at = txs.head]
              /\ recheckCursor' = txs.head /\ recheckEnd' = txs.tail
    /\ UNCHANGED <<pool, app, notice, peers, height, maxTxBytes, panicked>>

\* Mutant: the last callback does not notify.
ResCbRecheck_Silent(e) ==
    /\ IF Accepts(Tx(e))
         THEN checked' = checked \cup {Tx(e)} /\ UNCHANGED pool
         ELSE /\ RemoveTx(recheckCursor) /\ cache' = CacheRemove(cache, Tx(e))
              /\ UNCHANGED checked
    /\ recheckCursor' = IF recheckCursor = recheckEnd THEN 0 ELSE txs'.elems[recheckCursor].next
    /\ UNCHANGED notice

\* Mutant: a transaction that became invalid stays pooled.
ResCbRecheck_KeepsInvalid(e) ==
    /\ checked' = IF Accepts(Tx(e)) THEN checked \cup {Tx(e)} ELSE checked
    /\ recheckCursor' = IF recheckCursor = recheckEnd THEN 0 ELSE txs.elems[recheckCursor].next
    /\ IF recheckCursor' = 0 THEN NotifyTxsAvailable ELSE UNCHANGED notice
    /\ UNCHANGED pool

\* resCbRecheck after the transaction of element e was answered.
ResCbRecheck(e) ==
    LET cursor == IF recheckCursor = recheckEnd THEN 0 ELSE txs'.elems[recheckCursor].next
    IN /\ IF Accepts(Tx(e))
            THEN checked' = checked \cup {Tx(e)} /\ UNCHANGED pool
            ELSE /\ RemoveTx(recheckCursor) /\ cache' = CacheRemove(cache, Tx(e))
                 /\ UNCHANGED checked
       /\ recheckCursor' = cursor
       /\ IF cursor = 0 /\ txs'.len > 0 THEN NotifyTxsAvailable ELSE UNCHANGED notice

\* One turn of the loop of recheckTxs.  A transaction that is too large now
\* is removed without an answer, so the cursor does not move with it.
RecheckStep ==
    LET e == update.at
        next == txs.elems[e].next
    IN /\ ~panicked /\ update.phase = "recheck"
       /\ update' = IF next = 0 THEN Idle ELSE [update EXCEPT !.at = next]
       /\ IF TxLen(Tx(e)) > maxTxBytes
            THEN RemoveTx(e) /\ UNCHANGED <<cache, app, notice, recheckCursor, panicked>>
          ELSE IF Tx(e) # Tx(recheckCursor)
            THEN panicked' = TRUE /\ UNCHANGED <<pool, app, notice, recheckCursor>>
          ELSE ResCbRecheck(e) /\ UNCHANGED <<good, config, panicked>>
       /\ UNCHANGED <<recheckEnd, peers, height, maxTxBytes>>

\* Consensus reads the channel.
ReadTxsAvailable ==
    /\ txsAvailable
    /\ txsAvailable' = FALSE /\ told' = TRUE
    /\ UNCHANGED <<pool, app, notified, recheck, peers, height, maxTxBytes, panicked>>

-----------------------------------------------------------------------------
(* Reaping a proposal.                                                     *)

\* ReapMaxBytesMaxGas: state of the loop is the transactions taken so far,
\* their totals and whether it returned.
Reap(maxDataBytes, maxGas) ==
    LET Turn(acc, e) ==
            LET bytes == acc.bytes + TxLen(Tx(e))
                gas == acc.gas + TxGas(Tx(e))
            IN IF acc.done \/ (maxDataBytes > -1 /\ bytes > maxDataBytes)
                 THEN [acc EXCEPT !.done = TRUE]
               ELSE IF maxGas > -1 /\ gas > maxGas
                 THEN [acc EXCEPT !.done = TRUE]
               ELSE [acc EXCEPT !.txs = Append(@, Tx(e)), !.bytes = bytes, !.gas = gas]
    IN FoldLeft(Turn, [txs |-> <<>>, bytes |-> 0, gas |-> 0, done |-> FALSE], Walk(txs)).txs

-----------------------------------------------------------------------------
(* The reactor: ids and broadcastTxRoutine.                                *)

\* The switch removes the peer: the goroutine sees it on its Quit channel.
RemovePeer(p) ==
    /\ up[p]
    /\ up' = [up EXCEPT ![p] = FALSE] /\ routine' = [routine EXCEPT ![p] = Off]
    /\ UNCHANGED <<pool, app, notice, recheck, peerHeight, sent, height, maxTxBytes, panicked>>

\* The consensus reactor learns the peer's height (or sets its state).
PeerAdvances(p) ==
    /\ up[p]
    /\ \E h \in (peerHeight[p] + 1)..height : peerHeight' = [peerHeight EXCEPT ![p] = h]
    /\ UNCHANGED <<pool, app, notice, recheck, up, routine, sent, height, maxTxBytes, panicked>>

Goes(p, r) ==
    /\ routine' = [routine EXCEPT ![p] = r]
    /\ UNCHANGED <<pool, app, notice, recheck, up, peerHeight, height, maxTxBytes, panicked>>

\* next is nil: wait for the list's channel and take the front.
RoutineFront(p) ==
    /\ routine[p].pc = "run" /\ routine[p].next = 0
    /\ txs.closed
    /\ Goes(p, [routine[p] EXCEPT !.next = txs.head])
    /\ UNCHANGED sent

\* The peer is close enough: send, unless it is a sender, and take the
\* element's channel.
RoutineSend(p) ==
    LET r == routine[p] IN
    /\ r.pc = "run" /\ r.next # 0
    /\ peerHeight[p] > -1 /\ peerHeight[p] >= seenAt[r.next] - 1
    /\ sent' = IF p \in senders[r.next] THEN sent ELSE [sent EXCEPT ![p] = @ \cup {r.next}]
    /\ Goes(p, [r EXCEPT !.pc = "wait", !.gen = txs.elems[r.next].gen])

\* Mutant: only a successor wakes the goroutine.
RoutineNext_OnlySuccessor(p) ==
    LET r == routine[p] IN
    /\ r.pc = "wait" /\ txs.elems[r.next].next # 0
    /\ Goes(p, [r EXCEPT !.pc = "run", !.gen = 0, !.next = txs.elems[r.next].next])
    /\ UNCHANGED sent

\* Released: go on to the next element, or to the front if there is none.
RoutineNext(p) ==
    LET r == routine[p] IN
    /\ r.pc = "wait" /\ Released(txs, r.next, r.gen)
    /\ Goes(p, [r EXCEPT !.pc = "run", !.gen = 0, !.next = txs.elems[r.next].next])
    /\ UNCHANGED sent

Routine(p) == RoutineFront(p) \/ RoutineSend(p) \/ RoutineNext(p)

-----------------------------------------------------------------------------
\* The blocks: committed transactions, pooled here or not, in some order.
Blocks == {SetToSeq(b) : b \in {b \in SUBSET Txs : Cardinality(b) <= 2}}

Next ==
    \/ \E t \in Txs : CheckTx(t)
    \/ \E p \in Peers, t \in PeerTxs : Receive(p, t)
    \/ Flush
    \/ \E b \in Blocks, bad \in kSubset(1, Txs) \cup {{}}, m \in MaxTxBytes : Commit(b, bad, m)
    \/ UpdateRemove \/ RecheckTxs \/ RecheckStep
    \/ ReadTxsAvailable
    \/ \E p \in Peers : RemovePeer(p) \/ PeerAdvances(p) \/ Routine(p)

\* Goroutines run, a commit in progress goes on, and a peer that stays
\* connected is eventually heard of and has room for a message.
Fairness ==
    /\ WF_vars(UpdateRemove) /\ WF_vars(RecheckTxs) /\ WF_vars(RecheckStep)
    /\ \A p \in Peers : WF_vars(Routine(p)) /\ WF_vars(PeerAdvances(p))

Spec == Init /\ [][Next]_vars /\ Fairness

-----------------------------------------------------------------------------
(* Properties.                                                             *)

\* Types of the variables.
TypeOK ==
    /\ txs.len \in 0..MaxElems /\ Len(senders) = Len(txs.elems) /\ Len(seenAt) = Len(txs.elems)
    /\ txsMap \in [Txs -> 0..MaxElems] /\ txsBytes \in Nat
    /\ \A e \in DOMAIN senders : senders[e] \subseteq Peers \cup {UnknownPeerID}
    /\ IsInjective(cache) /\ ToSet(cache) \subseteq Txs /\ Len(cache) <= CacheSize
    /\ height \in FirstHeight..MaxHeight /\ maxTxBytes \in MaxTxBytes
    /\ {notified, txsAvailable, told, panicked} \subseteq BOOLEAN
    /\ good \subseteq Txs /\ checked \subseteq Txs
    /\ update.phase \in {"idle", "remove", "recheck"}
    /\ \A p \in Peers : routine[p].pc \in {"off", "run", "wait"}

SumOf(Op(_), s) == FoldLeft(LAMBDA acc, t : acc + Op(t), 0, s)

\* The list every goroutine walks without a lock is well formed whatever was
\* added, committed, invalidated and flushed; the key map and the byte count,
\* kept beside it, describe exactly its live elements.
PoolConsistent ==
    /\ WellFormed(txs)
    /\ \A t \in Txs : txsMap[t] # 0 => txsMap[t] \in Live(txs) /\ Tx(txsMap[t]) = t
    /\ \A e \in Live(txs) : txsMap[Tx(e)] # 0
    /\ txsBytes = SumOf(TxLen, [i \in 1..txs.len |-> Tx(Walk(txs)[i])])

\* No panic of the pool, the list or the id table is reached: a recheck has
\* one answer for each element it sent, and Remove is called on members.
NoPanic ==
    /\ ~panicked
    /\ update.phase = "recheck" => ~RemovePanics(txs, update.at)
    /\ update.phase = "idle" => recheckCursor = 0

\* No transaction is pooled twice, however small the cache of seen ones is:
\* what the cache forgot the application's check state refuses, and between
\* blocks everything pooled is valid on top of the committed state.
PooledOnceAndValid ==
    /\ \A d, e \in Live(txs) : Tx(d) = Tx(e) => d = e
    /\ update = Idle => LiveTxs \subseteq good \cap checked

\* Outside Update a pool with transactions has notified consensus: it was told
\* since the last Update or finds the channel full.
ConsensusIsTold ==
    config.txsAvailable /\ update = Idle /\ txs.len > 0 => notified /\ (told \/ txsAvailable)

\* ReapMaxBytesMaxGas takes the longest front part of the list that fits.
ReapsWhatFits ==
    LET all == [i \in 1..txs.len |-> Tx(Walk(txs)[i])]
        Fits(n, b, g) ==
            /\ b > -1 => SumOf(TxLen, SubSeq(all, 1, n)) <= b
            /\ g > -1 => SumOf(TxGas, SubSeq(all, 1, n)) <= g
    IN \A b \in {-1, 1, 3}, g \in {-1, 2} :
          Reap(b, g) = SubSeq(all, 1, CHOOSE n \in 0..txs.len :
                          Fits(n, b, g) /\ \A m \in 0..txs.len : Fits(m, b, g) => m <= n)

\* The list, the key map, the byte count and the recheck cursor stay in step
\* through commits, rechecks and flushes, and nothing panics on the way.
PoolSound == TypeOK /\ PoolConsistent /\ NoPanic

\* A proposal is made of valid transactions, none twice, as many as fit: what
\* is pooled, and what ReapMaxBytesMaxGas takes of it.
ProposalsAreSound == PooledOnceAndValid /\ ReapsWhatFits

\* A transaction that stays pooled reaches every peer that stays connected,
\* unless the peer is known to have it: no goroutine is left asleep on an
\* element that was removed or on a channel that was replaced.
Gossiped ==
    \A p \in Peers, e \in 1..MaxElems :
        (config.broadcast /\ e \in Live(txs) /\ up[p]) ~>
            \/ e \notin Live(txs) \/ ~up[p]
            \/ e \in sent[p] \/ p \in senders[e]
=============================================================================
