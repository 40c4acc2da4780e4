-------------------------------- MODULE App --------------------------------
(***************************************************************************)
(* The application of a gnoland node: BaseApp (pkgs/sdk/baseapp.go) with   *)
(* the ante handler, accounts, coins and gas, on a multistore of a main    *)
(* store (iavl, versioned) and a base store (the objects of the virtual    *)
(* machine, written straight to the database).                             *)
(*                                                                         *)
(* Consensus calls InitChain, and BeginBlock, DeliverTx, EndBlock, Commit  *)
(* for every block; the mempool calls CheckTx in between.  The process may *)
(* crash at any moment, also between the writes of Commit; it is then      *)
(* restarted, and consensus replays the block after the last version.      *)
(***************************************************************************)
EXTENDS Integers, Sequences, Functions

CONSTANTS
    Addrs, FeeCollector,    \* addresses
    Genesis,                \* [addr, coins] : the balances of the genesis file
    Txs,                    \* [from, seq, fee, gas, msgs] : what was signed
    Submitted,              \* those the mempool asks about
    Blocks,                 \* the blocks consensus may decide
    AnteGas,                \* gas of the ante handler
    MaxGas,                 \* consensus parameter: gas of a block, or -1
    MinGasPrices,           \* [gas, amount] or NoPrice
    NoPrice, None,          \* no value
    KeepRecents,            \* pruning options to consider
    MaxHeight, MaxCrashes   \* bounds

NoAccount == [coins |-> -1, seq |-> 0, num |-> 0]

ASSUME AppAssumption ==
    /\ FeeCollector \in Addrs /\ Genesis \in Seq([addr : Addrs, coins : Nat])
    /\ Submitted \subseteq Txs /\ Blocks \subseteq Seq(Txs)
    /\ AnteGas \in Nat /\ MaxGas \in Nat \cup {-1}
    /\ KeepRecents \subseteq Nat /\ MaxHeight \in Nat /\ MaxCrashes \in Nat

ASSUME TxAssumption ==
    \A tx \in Txs :
        /\ tx.from \in Addrs /\ {tx.seq, tx.fee, tx.gas, Len(tx.msgs)} \subseteq Nat
        /\ \A i \in 1..Len(tx.msgs) :
              /\ tx.msgs[i].gas \in Nat
              /\ tx.msgs[i].type = "send" => tx.msgs[i].to \in Addrs /\ tx.msgs[i].amount \in Nat

\* Values of the stores.
Account == [coins : Nat, seq : Nat, num : Nat]
MainStore == [accs : [Addrs -> Account \cup {NoAccount}], next : Nat, hash : Nat, log : Seq(Txs)]
Store == [main : MainStore, base : Nat]

ASSUME NoneAssumption ==
    /\ None \notin MainStore \cup Store
    /\ None \notin {"coins", "route", "gas", "ante", "no block gas", "block gas"}

VARIABLES
    keepRecent,     \* PruningOptions.KeepRecent; KeepEvery is 0
    disk,           \* what the database holds
    tree,           \* the working tree of the main store
    deliverState, checkState,   \* cache-wrapped stores, or None
    pc,             \* down, idle, deliver, and the steps of Commit
    blockGas,       \* consumed by the block
    index,          \* transactions of the block delivered so far
    response,       \* of the last DeliverTx
    chain,          \* the blocks consensus decided, and (history) what executing them gives
    crashes, interrupted    \* history: crashes, and one within the writes of Commit

vars == <<keepRecent, disk, tree, deliverState, checkState, pc, blockGas, index, response,
          chain, crashes, interrupted>>

-----------------------------------------------------------------------------
(* Stores.  The main store holds the accounts, the next account number and *)
(* the hash of the object; log is a history of the transactions whose fee  *)
(* was taken.  The base store holds the object.                            *)

EmptyMain == [accs |-> [a \in Addrs |-> NoAccount], next |-> 0, hash |-> 0, log |-> <<>>]
Empty == [main |-> EmptyMain, base |-> 0]

\* The member of a singleton.  A recursion whose previous value is bound in a
\* singleton is evaluated once.
The(S) == CHOOSE x \in S : TRUE

Exists(st, a) == st.main.accs[a] # NoAccount
GetCoins(st, a) == IF Exists(st, a) THEN st.main.accs[a].coins ELSE 0

\* SetCoins, with NewAccountWithAddress for an address without an account.
SetCoins(st, a, n) ==
    IF Exists(st, a) THEN [st EXCEPT !.main.accs[a].coins = n]
    ELSE [st EXCEPT !.main.accs[a] = [coins |-> n, seq |-> 0, num |-> st.main.next],
                    !.main.next = @ + 1]

\* Mutant: the receiver's balance was read before the sender's was written.
SendCoins_Stale(st, from, to, n) ==
    LET old == GetCoins(st, to) IN SetCoins(SetCoins(st, from, GetCoins(st, from) - n), to, old + n)

\* SubtractCoins and AddCoins of SendCoins, for a sender who has enough.
SendCoins(st, from, to, n) ==
    LET sent == SetCoins(st, from, GetCoins(st, from) - n)
    IN  SetCoins(sent, to, GetCoins(sent, to) + n)

\* A balance of the genesis file: NewAccountWithAddress, SetAccount, SetCoins.
AddBalance(st, bal) ==
    [st EXCEPT !.main.accs[bal.addr] = [coins |-> bal.coins, seq |-> 0, num |-> st.main.next],
               !.main.next = @ + 1]

\* InitChainer: the balances, in the order of the genesis file.
GenesisState ==
    LET after[i \in 0..Len(Genesis)] ==
          IF i = 0 THEN Empty ELSE The({AddBalance(st, Genesis[i]) : st \in {after[i - 1]}})
    IN  after[Len(Genesis)]

-----------------------------------------------------------------------------
(* runTx.  A result is the state, whether the fee was taken, the error and *)
(* the gas that counts for the block.                                      *)

\* EnsureSufficientMempoolFees.
SufficientFees(tx) ==
    MinGasPrices = NoPrice \/ tx.fee * MinGasPrices.gas >= tx.gas * MinGasPrices.amount

\* What makes the ante handler abort.
AnteAborts(st, tx, mode) ==
    \/ MaxGas # -1 /\ tx.gas > MaxGas
    \/ mode = "check" /\ ~SufficientFees(tx)
    \/ AnteGas > tx.gas
    \/ ~Exists(st, tx.from)
    \/ tx.fee > GetCoins(st, tx.from)
    \/ tx.seq # st.main.accs[tx.from].seq

\* Mutant: the sequence number stays.
Ante_KeepsSequence(st, tx) ==
    LET paid == IF tx.fee = 0 THEN st ELSE SendCoins(st, tx.from, FeeCollector, tx.fee)
    IN  [paid EXCEPT !.main.log = Append(@, tx)]

\* DeductFees and processSig.
Ante(st, tx) ==
    LET paid == IF tx.fee = 0 THEN st ELSE SendCoins(st, tx.from, FeeCollector, tx.fee)
    IN  [paid EXCEPT !.main.accs[tx.from].seq = @ + 1, !.main.log = Append(@, tx)]

\* A message: a transfer, or a call that changes the object and its hash.
Process(st, tx, msg) ==
    CASE msg.type = "send" ->
           IF msg.amount > GetCoins(st, tx.from) THEN [st |-> st, error |-> "coins"]
           ELSE [st |-> SendCoins(st, tx.from, msg.to, msg.amount), error |-> None]
      [] msg.type = "call" ->
           [st |-> [st EXCEPT !.base = @ + 1, !.main.hash = st.base + 1], error |-> None]
      [] OTHER -> [st |-> st, error |-> "route"]

\* One turn of runMsgs: the first message that fails ends it, and a meter past
\* its limit panics.
RunMsg(tx, r, msg) ==
    IF r.error # None THEN r
    ELSE LET used == r.gas + msg.gas
             p == Process(r.st, tx, msg)
         IN  IF used > tx.gas THEN [r EXCEPT !.error = "gas", !.gas = used]
             ELSE [st |-> p.st, error |-> p.error, gas |-> used]

\* runMsgs on a cache of st.
RunMsgs(st, tx) ==
    LET after[i \in 0..Len(tx.msgs)] ==
          IF i = 0 THEN [st |-> st, error |-> None, gas |-> AnteGas]
          ELSE The({RunMsg(tx, r, tx.msgs[i]) : r \in {after[i - 1]}})
    IN  after[Len(tx.msgs)]

\* Mutant: the cache of the messages is written in any case.
RunTx_WritesAll(st, tx, gas) ==
    IF MaxGas > 0 /\ gas >= MaxGas THEN [st |-> st, error |-> "no block gas", gas |-> gas]
    ELSE IF tx.msgs = <<>> \/ AnteAborts(st, tx, "deliver") THEN [st |-> st, error |-> "ante", gas |-> gas]
    ELSE LET ran == RunMsgs(Ante(st, tx), tx)
         IN  [st |-> ran.st, error |-> ran.error, gas |-> gas + ran.gas]

\* runTx for DeliverTx, with the gas the block consumed so far.  The gas of an
\* aborted ante handler is not counted; the last defer counts the rest of the
\* block's gas, and turns the result into an error if that is too much.
RunTx(st, tx, gas) ==
    IF MaxGas > 0 /\ gas >= MaxGas THEN [st |-> st, error |-> "no block gas", gas |-> gas]
    ELSE IF tx.msgs = <<>> \/ AnteAborts(st, tx, "deliver") THEN [st |-> st, error |-> "ante", gas |-> gas]
    ELSE LET ante == Ante(st, tx)
             ran == RunMsgs(ante, tx)
             used == gas + (IF ran.gas > tx.gas THEN tx.gas ELSE ran.gas)
         IN  [st |-> IF ran.error = None THEN ran.st ELSE ante,
              error |-> IF MaxGas > 0 /\ used > MaxGas THEN "block gas" ELSE ran.error,
              gas |-> used]

\* runTx for CheckTx: the ante handler only.
CheckedState(st, tx) == IF tx.msgs = <<>> \/ AnteAborts(st, tx, "check") THEN st ELSE Ante(st, tx)

-----------------------------------------------------------------------------
(* The application.  disk.saved maps each version of the main store that   *)
(* is on disk to its content.                                              *)

Saved == {v \in 1..MaxHeight : disk.saved[v] # None}

Init ==
    /\ keepRecent \in KeepRecents
    /\ disk = [latest |-> 0, saved |-> [v \in 1..MaxHeight |-> None], base |-> 0, header |-> 0]
    /\ tree = EmptyMain /\ deliverState = None /\ checkState = None
    /\ pc = "down" /\ blockGas = 0 /\ index = 0 /\ response = None
    /\ chain = <<>> /\ crashes = 0 /\ interrupted = FALSE

\* LoadVersion of the multistore: version 0 wants an empty tree, another one
\* wants that version.
Loads == IF disk.latest = 0 THEN Saved = {} ELSE disk.latest \in Saved

\* LoadLatestVersion and initFromMainStore; then the handshake, which calls
\* InitChain on an application that has no version.
Start ==
    /\ pc = "down" /\ Loads
    /\ LET main == IF disk.latest = 0 THEN EmptyMain ELSE disk.saved[disk.latest]
           cms == [main |-> main, base |-> disk.base]
       IN  /\ tree' = main
           /\ deliverState' = IF disk.latest = 0 THEN [GenesisState EXCEPT !.base = disk.base] ELSE None
           /\ checkState' = IF disk.latest = 0 \/ disk.header # 0 THEN cms ELSE None
    /\ pc' = "idle"
    /\ UNCHANGED <<keepRecent, disk, blockGas, index, response, chain, crashes, interrupted>>

CheckTx(tx) ==
    /\ pc \in {"idle", "deliver"} /\ checkState # None
    /\ checkState' = CheckedState(checkState, tx)
    /\ UNCHANGED <<keepRecent, disk, tree, deliverState, pc, blockGas, index, response, chain, crashes, interrupted>>

\* What executing the first n blocks gives, for the history in chain.
ResultAt(n) == IF n = 0 THEN GenesisState ELSE chain[n].result
Execute(st, block) ==
    LET after[i \in 0..Len(block)] ==
          IF i = 0 THEN [st |-> st, error |-> None, gas |-> 0]
          ELSE The({RunTx(r.st, block[i], r.gas) : r \in {after[i - 1]}})
    IN  after[Len(block)].st

\* Mutant: the gas of the last block is kept.
BeginBlock_KeepsGas ==
    /\ pc = "idle" /\ disk.latest < MaxHeight
    /\ IF disk.latest < Len(chain) THEN UNCHANGED chain
       ELSE \E b \in Blocks : chain' = Append(chain, [txs |-> b, result |-> Execute(ResultAt(Len(chain)), b)])
    /\ deliverState' = IF deliverState = None THEN [main |-> tree, base |-> disk.base] ELSE deliverState
    /\ pc' = "deliver" /\ index' = 0 /\ response' = None
    /\ UNCHANGED <<keepRecent, disk, tree, checkState, blockGas, crashes, interrupted>>

\* Mutant: a decided block is not replayed.
BeginBlock_NoReplay ==
    /\ pc = "idle" /\ disk.latest < MaxHeight /\ disk.latest = Len(chain)
    /\ \E b \in Blocks : chain' = Append(chain, [txs |-> b, result |-> Execute(ResultAt(Len(chain)), b)])
    /\ deliverState' = IF deliverState = None THEN [main |-> tree, base |-> disk.base] ELSE deliverState
    /\ pc' = "deliver" /\ blockGas' = 0 /\ index' = 0 /\ response' = None
    /\ UNCHANGED <<keepRecent, disk, tree, checkState, crashes, interrupted>>

\* Consensus has the block after the last version, or decides one; BeginBlock
\* starts from the state of InitChain for the first block.
BeginBlock ==
    /\ pc = "idle" /\ disk.latest < MaxHeight
    /\ IF disk.latest < Len(chain) THEN UNCHANGED chain
       ELSE \E b \in Blocks : chain' = Append(chain, [txs |-> b, result |-> Execute(ResultAt(Len(chain)), b)])
    /\ deliverState' = IF deliverState = None THEN [main |-> tree, base |-> disk.base] ELSE deliverState
    /\ pc' = "deliver" /\ blockGas' = 0 /\ index' = 0 /\ response' = None
    /\ UNCHANGED <<keepRecent, disk, tree, checkState, crashes, interrupted>>

Block == chain[disk.latest + 1].txs

DeliverTx ==
    /\ pc = "deliver" /\ index < Len(Block)
    /\ LET r == RunTx(deliverState, Block[index + 1], blockGas)
       IN  deliverState' = r.st /\ blockGas' = r.gas /\ response' = r.error
    /\ index' = index + 1
    /\ UNCHANGED <<keepRecent, disk, tree, checkState, pc, chain, crashes, interrupted>>

-----------------------------------------------------------------------------
(* Commit, write by write.                                                 *)

\* deliverState.ms.MultiWrite: the objects go to the database, the accounts
\* to the working tree.
MultiWrite ==
    /\ pc = "deliver" /\ index = Len(Block)
    /\ disk' = [disk EXCEPT !.base = deliverState.base]
    /\ tree' = deliverState.main
    /\ pc' = "save"
    /\ UNCHANGED <<keepRecent, deliverState, checkState, blockGas, index, response, chain, crashes, interrupted>>

\* SaveVersion of the tree: a version that exists must be the same, or Commit
\* panics.  Restarts, which replay the block and panic again, are left out.
SaveVersion ==
    LET v == disk.latest + 1 IN
    /\ pc = "save"
    /\ IF disk.saved[v] \in {None, tree}
         THEN disk' = [disk EXCEPT !.saved[v] = tree] /\ pc' = "prune"
         ELSE pc' = "halted" /\ UNCHANGED disk
    /\ UNCHANGED <<keepRecent, tree, deliverState, checkState, blockGas, index, response, chain, crashes, interrupted>>

\* The version Commit of the iavl store releases after saving latest + 1.
ToRelease == (disk.latest + 1) - 1 - keepRecent

DeleteVersion ==
    /\ pc = "prune"
    /\ disk' = IF ToRelease > 0 THEN [disk EXCEPT !.saved[ToRelease] = None] ELSE disk
    /\ pc' = "info"
    /\ UNCHANGED <<keepRecent, tree, deliverState, checkState, blockGas, index, response, chain, crashes, interrupted>>

\* The batch with the commit info and the latest version.
CommitInfo ==
    /\ pc = "info"
    /\ disk' = [disk EXCEPT !.latest = @ + 1]
    /\ pc' = "header"
    /\ UNCHANGED <<keepRecent, tree, deliverState, checkState, blockGas, index, response, chain, crashes, interrupted>>

\* The rest of Commit: the header, the check state, no deliver state.
CommitHeader ==
    /\ pc = "header"
    /\ disk' = [disk EXCEPT !.header = disk.latest]
    /\ checkState' = [main |-> tree, base |-> disk.base]
    /\ deliverState' = None
    /\ pc' = "idle"
    /\ UNCHANGED <<keepRecent, tree, blockGas, index, response, chain, crashes, interrupted>>

Crash ==
    /\ pc \notin {"down", "halted"} /\ crashes < MaxCrashes
    /\ crashes' = crashes + 1
    /\ interrupted' = (interrupted \/ pc \in {"save", "prune", "info"})
    /\ tree' = EmptyMain /\ deliverState' = None /\ checkState' = None /\ pc' = "down"
    /\ UNCHANGED <<keepRecent, disk, blockGas, index, response, chain>>

-----------------------------------------------------------------------------
Consensus == BeginBlock \/ DeliverTx \/ MultiWrite \/ SaveVersion \/ DeleteVersion \/ CommitInfo \/ CommitHeader

Next == Start \/ Consensus \/ (\E tx \in Submitted : CheckTx(tx)) \/ Crash

\* The process is restarted, and consensus goes on.
Spec == Init /\ [][Next]_vars /\ WF_vars(Start) /\ WF_vars(Consensus)

-----------------------------------------------------------------------------
(* Properties.                                                             *)

States == {[main |-> tree, base |-> disk.base]} \cup ({deliverState, checkState} \ {None})
Mains == {st.main : st \in States} \cup {disk.saved[v] : v \in Saved}

\* Types.
TypeOK ==
    /\ disk.latest \in 0..MaxHeight /\ disk.header \in 0..MaxHeight
    /\ pc \in {"down", "halted", "idle", "deliver", "save", "prune", "info", "header"}
    /\ \A m \in Mains : \A a \in Addrs : m.accs[a] \in Account \cup {NoAccount}
    /\ blockGas \in Nat /\ index \in Nat /\ Len(chain) <= MaxHeight

Supply(m) ==
    FoldFunction(+, 0, [a \in Addrs |-> IF m.accs[a] = NoAccount THEN 0 ELSE m.accs[a].coins])

\* Coins are neither made nor lost: in every store and every version that has
\* the genesis accounts the balances add up to those of genesis, whatever
\* transactions paid fees, failed half-way or were checked.
SupplyConserved ==
    \A m \in Mains : m.next > 0 => Supply(m) = Supply(GenesisState.main)

\* Accounts have different numbers, all below the next one: the number is what
\* a signature binds besides the sequence.
NumbersDiffer ==
    \A m \in Mains : \A a, b \in Addrs :
        m.accs[a] # NoAccount =>
            /\ m.accs[a].num < m.next
            /\ a # b /\ m.accs[b] # NoAccount => m.accs[a].num # m.accs[b].num

\* No transaction takes effect twice, however often it is decided, checked or
\* replayed.
ExecutedOnce ==
    \A m \in Mains : \A i, j \in DOMAIN m.log : m.log[i] = m.log[j] => i = j

\* A delivered transaction leaves no trace, or its fee and sequence number
\* alone, or all of its messages' effects too; an error other than that of
\* the block's gas means that no message had an effect.
AllOrFee ==
    [][DeliverTx =>
        LET tx == Block[index + 1]
            full == RunMsgs(Ante(deliverState, tx), tx)
        IN  \/ response' \in {"ante", "no block gas"} /\ deliverState' = deliverState
            \/ response' \in {"coins", "route", "gas", "block gas"} /\ deliverState' = Ante(deliverState, tx)
            \/ response' \in {None, "block gas"} /\ full.error = None /\ deliverState' = full.st]_vars

StartsWith(s, t) == Len(t) <= Len(s) /\ SubSeq(s, 1, Len(t)) = t

\* While the node works the check state runs ahead of the last version only by
\* the fees and sequence numbers of checked transactions; there is none, and
\* CheckTx would fail, only while every Commit so far ended in a crash before the
\* header.
CheckFollows ==
    pc \in {"idle", "deliver"} =>
        IF checkState = None THEN disk.header = 0 /\ disk.latest <= crashes
        ELSE /\ StartsWith(checkState.main.log, tree.log)
             /\ checkState.main.hash = tree.hash /\ checkState.base = disk.base

\* Every version on disk, and the objects, are what executing the chain gives,
\* after any crash and replay, unless a crash hit Commit between the write of
\* the objects and that of the commit info.
VersionsAreExecutions ==
    interrupted \/
        /\ \A v \in Saved : disk.saved[v] = chain[v].result.main
        /\ pc \in {"down", "halted", "idle", "deliver"} => disk.base = ResultAt(disk.latest).base

\* The application starts again after a crash at any other moment.
Restarts == pc = "down" /\ ~interrupted => Loads

\* The chain goes on: every height is committed, unless an interrupted Commit
\* left the stores in a state that does not load or does not save again.
Continues == <>(disk.latest = MaxHeight \/ interrupted)

\* In every store and version the accounts hold the coins of genesis and have
\* numbers of their own, whatever failed half-way (SendCoins, the ante handler).
LedgerSound == TypeOK /\ SupplyConserved /\ NumbersDiffer

\* What is on disk and what CheckTx runs on follow from the chain, after any
\* crash and replay outside the writes of Commit, and it loads again.
StoresFollowChain == VersionsAreExecutions /\ Restarts /\ CheckFollows
=============================================================================
