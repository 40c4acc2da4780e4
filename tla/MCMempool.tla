----------------------------- MODULE MCMempool -----------------------------
(* Transactions of one and two bytes, a cache that holds one of them and a *)
(* pool that holds both, so that eviction, a full pool and resubmission    *)
(* all happen.                                                             *)
EXTENDS Mempool, TLC
CONSTANTS t1, t2
MCTxs == {t1, t2}
MCConfigs == {[broadcast |-> b, txsAvailable |-> ~b] : b \in BOOLEAN}
MCTxLen(t) == IF t = t2 THEN 2 ELSE 1
MCTxGas(t) == IF t = t1 THEN 2 ELSE 1
=============================================================================
