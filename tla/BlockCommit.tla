---------------------------- MODULE BlockCommit ----------------------------
(***************************************************************************)
(* From a decided block to the next height, and back from a crash.         *)
(*                                                                         *)
(* A node keeps one chain in four places: the block store, the consensus   *)
(* state (stateDB), the ABCI responses (stateDB too) and the application.  *)
(* finalizeCommit and ApplyBlock bring them from height h to h+1 one write *)
(* at a time.  The process may die between any two writes; on restart the  *)
(* Handshaker compares the heights it finds and brings the four together   *)
(* again (pkgs/bft/consensus/replay.go).  Fast sync (pkgs/bft/blockchain)  *)
(* takes the same path without the write-ahead log.                        *)
(*                                                                         *)
(* Agreement makes the block of a height unique, so a block is its height  *)
(* and its AppHash field is the hash the application had one height        *)
(* before.  The hash of the application at version v is represented by v.  *)
(***************************************************************************)
EXTENDS Integers

CONSTANTS
    MaxHeight,  \* heights the network decides
    HaltHeight, \* BaseApp.haltHeight when the option is set
    AppMayLag,  \* the application may come back at an earlier version
    MaxCrashes  \* bound on the number of crashes

ASSUME HeightAssumption == MaxHeight \in Nat
ASSUME HaltAssumption == HaltHeight \in Nat \ {0}
ASSUME LagAssumption == AppMayLag \in BOOLEAN
ASSUME CrashAssumption == MaxCrashes \in Nat

Heights == 1..MaxHeight

EmptyHash == -1     \* ResponseCommit{} of a Commit that halts

States == [height : 0..MaxHeight, hash : (0..MaxHeight) \cup {EmptyHash}]

VARIABLES
    \* on disk
    data,       \* last height whose meta, parts and seen commit are written
    store,      \* BlockStoreStateJSON.Height
    metas,      \* heights of the MetaMessages in the WAL
    responses,  \* heights with saved ABCIResponses
    state,      \* the saved State: LastBlockHeight and AppHash
    app,        \* version of the application's last commit
    \* lost in a crash
    pc,         \* the next step of the process
    mode,       \* on whose behalf ApplyBlock runs
    mem,        \* the State in memory
    loop,       \* next height and last AppHash of replayBlocks
    genesis,    \* InitChain has set the application's deliverState
    halt,       \* haltHeight this process was started with, 0 for none
    \* bound
    crashes

disk == <<data, store, metas, responses, state, app>>
vars == <<disk, pc, mode, mem, loop, genesis, halt, crashes>>

pcs == {"down", "replay", "start", "running", "save", "descriptor", "meta",
        "exec", "responses", "commit", "state", "panicked", "failed"}
modes == {"consensus", "sync", "real", "mock", "behind", "behindboth"}

TypeOK ==
    /\ data \in 0..MaxHeight /\ store \in 0..MaxHeight /\ app \in 0..MaxHeight
    /\ metas \subseteq 0..(MaxHeight + 1)
    /\ responses \subseteq Heights
    /\ state \in States /\ mem \in States
    /\ pc \in pcs /\ mode \in modes
    /\ loop \in [next : 0..(MaxHeight + 1), hash : (0..MaxHeight) \cup {EmptyHash}]
    /\ genesis \in BOOLEAN
    /\ halt \in {0, HaltHeight}
    /\ crashes \in 0..MaxCrashes

Genesis == [height |-> 0, hash |-> 0]

Init ==
    /\ data = 0 /\ store = 0 /\ app = 0
    /\ metas = {} /\ responses = {}
    /\ state = Genesis /\ mem = Genesis
    /\ pc = "down" /\ mode = "real"
    /\ loop = [next |-> 0, hash |-> 0]
    /\ genesis = FALSE
    /\ halt = 0
    /\ crashes = 0

\* The block being committed, and the AppHash in the header of block h.
block == mem.height + 1
AppHash(h) == h - 1

\* The part of validateBlock that depends on this node: height and AppHash.
Valid == mem.hash = AppHash(block)

\* BaseApp.Commit stops the node instead of committing.
Halts(h) == halt > 0 /\ h >= halt

-----------------------------------------------------------------------------
(* Restart: Handshake and ReplayBlocks.                                    *)

Goes(step, m) == [pc |-> step, mode |-> m]

\* Where ReplayBlocks goes for application version a, store height s and
\* saved state st: the next step and the mode of the replay.
ReplayBlocks(a, s, st) ==
    LET assert == IF a = st.hash THEN "start" ELSE "panicked"
    IN CASE s = 0 -> Goes(assert, "real")
         [] s > 0 /\ s < a -> Goes("failed", "real")
         [] s > 0 /\ s >= a /\ (s < st.height \/ s > st.height + 1) -> Goes("panicked", "real")
         [] s > 0 /\ s = st.height /\ a < s -> Goes("replay", "behind")
         [] s > 0 /\ s = st.height /\ a = s -> Goes(assert, "real")
         [] s > 0 /\ s = st.height + 1 /\ a < st.height -> Goes("replay", "behindboth")
         [] s > 0 /\ s = st.height + 1 /\ a = st.height -> Goes("exec", "real")
         [] s > 0 /\ s = st.height + 1 /\ a = s ->
              Goes(IF s \in responses THEN "exec" ELSE "failed", "mock")

Handshake ==
    /\ pc = "down"
    /\ halt' \in {0, HaltHeight}
    /\ genesis' = (app = 0)
    /\ mem' = state
    /\ loop' = [next |-> app + 1, hash |-> EmptyHash]
    /\ LET to == ReplayBlocks(app, store, state)
       IN pc' = to.pc /\ mode' = to.mode
    /\ UNCHANGED <<disk, crashes>>

\* One iteration of replayBlocks: ExecCommitBlock without touching the state.
ReplayNext ==
    LET final == IF mode = "behindboth" THEN store - 1 ELSE store
        h == loop.next
    IN /\ pc = "replay" /\ h <= final
       /\ IF (loop.hash # EmptyHash /\ loop.hash # AppHash(h)) \/ h # app + 1
            THEN pc' = "panicked" /\ UNCHANGED <<app, loop>>
            ELSE /\ pc' = pc
                 /\ app' = IF Halts(h) THEN app ELSE h
                 /\ loop' = [next |-> h + 1,
                             hash |-> IF Halts(h) THEN EmptyHash ELSE h]
       /\ genesis' = (genesis /\ app' = app)
       /\ UNCHANGED <<data, store, metas, responses, state, mode, mem, halt, crashes>>

\* The end of replayBlocks: the last block goes through ApplyBlock, or the
\* application's hash has to be the one in the saved state.
ReplayDone ==
    LET final == IF mode = "behindboth" THEN store - 1 ELSE store
    IN /\ pc = "replay" /\ loop.next > final
       /\ IF mode = "behindboth"
            THEN pc' = "exec" /\ mode' = "real"
            ELSE /\ pc' = IF loop.hash = mem.hash THEN "start" ELSE "panicked"
                 /\ mode' = mode
       /\ UNCHANGED <<disk, mem, loop, genesis, halt, crashes>>

\* Mutant: the node does not start when the WAL lacks the meta line it
\* looks for.
StartConsensus_NeedsMeta ==
    /\ pc = "start" /\ (metas = {} \/ mem.height + 1 \in metas)
    /\ pc' = IF mem.height <= data THEN "running" ELSE "panicked"
    /\ mode' = "consensus"
    /\ metas' = IF metas = {} THEN {0} ELSE metas
    /\ UNCHANGED <<data, store, responses, state, app, mem, loop, genesis, halt, crashes>>

\* SwitchToConsensus, or consensus started right after the handshake.
\* reconstructLastCommit needs the seen commit of the last block; a new WAL
\* gets its first meta line.
StartConsensus ==
    /\ pc = "start"
    /\ pc' = IF mem.height <= data THEN "running" ELSE "panicked"
    /\ mode' = "consensus"
    /\ metas' = IF metas = {} THEN {0} ELSE metas
    /\ UNCHANGED <<data, store, responses, state, app, mem, loop, genesis, halt, crashes>>

-----------------------------------------------------------------------------
(* finalizeCommit, fast sync and ApplyBlock.                               *)

\* finalizeCommit up to SaveBlock, which it skips for a stored block.
FinalizeCommit ==
    /\ pc = "running" /\ block <= MaxHeight
    /\ pc' = CASE ~Valid -> "panicked"
               [] Valid /\ store < block -> "save"
               [] Valid /\ store >= block -> "meta"
    /\ UNCHANGED <<disk, mode, mem, loop, genesis, halt, crashes>>

\* poolRoutine, before the switch to consensus.
SyncBlock ==
    /\ pc = "start" /\ block <= MaxHeight
    /\ pc' = "save" /\ mode' = "sync"
    /\ UNCHANGED <<disk, mem, loop, genesis, halt, crashes>>

\* SaveBlock: the block first, then the height that makes it visible.
SaveBlock ==
    /\ pc = "save"
    /\ IF block = store + 1
         THEN pc' = "descriptor" /\ data' = block
         ELSE pc' = "panicked" /\ data' = data
    /\ UNCHANGED <<store, metas, responses, state, app, mode, mem, loop, genesis, halt, crashes>>

SaveDescriptor ==
    /\ pc = "descriptor"
    /\ store' = block
    /\ pc' = IF mode = "sync" THEN "exec" ELSE "meta"
    /\ UNCHANGED <<data, metas, responses, state, app, mode, mem, loop, genesis, halt, crashes>>

WriteMeta ==
    /\ pc = "meta"
    /\ metas' = metas \cup {block + 1}
    /\ pc' = "exec"
    /\ UNCHANGED <<data, store, responses, state, app, mode, mem, loop, genesis, halt, crashes>>

\* Mutant: Commit before the responses are saved.
ExecBlock_NoResponses ==
    /\ pc = "exec"
    /\ pc' = IF Valid /\ (mode = "mock" \/ block = app + 1) THEN "commit" ELSE "failed"
    /\ UNCHANGED <<disk, mode, mem, loop, genesis, halt, crashes>>

\* ApplyBlock up to EndBlock.  An error ends the process; BeginBlock panics
\* on a height that does not follow the application's last commit.
ExecBlock ==
    /\ pc = "exec"
    /\ pc' = CASE ~Valid -> "failed"
               [] Valid /\ mode # "mock" /\ block # app + 1 -> "panicked"
               [] OTHER -> "responses"
    /\ UNCHANGED <<disk, mode, mem, loop, genesis, halt, crashes>>

SaveResponses ==
    /\ pc = "responses"
    /\ responses' = responses \cup {block}
    /\ pc' = "commit"
    /\ UNCHANGED <<data, store, metas, state, app, mode, mem, loop, genesis, halt, crashes>>

\* Mutant: the mock application answers with the hash of the saved state.
AppCommit_OldHash ==
    LET halts == mode # "mock" /\ Halts(block)
    IN /\ pc = "commit"
       /\ app' = IF mode = "mock" \/ halts THEN app ELSE block
       /\ mem' = [height |-> block,
                  hash |-> IF halts THEN EmptyHash ELSE IF mode = "mock" THEN mem.hash ELSE block]
       /\ genesis' = (genesis /\ halts)
       /\ pc' = "state"
       /\ UNCHANGED <<data, store, metas, responses, state, mode, loop, halt, crashes>>

\* updateState and Commit: the real application commits or, from its halt
\* height on, answers with an empty hash; the mock answers with the hash the
\* real one gave to the handshake.
AppCommit ==
    LET halts == mode # "mock" /\ Halts(block)
    IN /\ pc = "commit"
       /\ app' = IF mode = "mock" \/ halts THEN app ELSE block
       /\ mem' = [height |-> block,
                  hash |-> IF halts THEN EmptyHash ELSE IF mode = "mock" THEN app ELSE block]
       /\ genesis' = (genesis /\ halts)
       /\ pc' = "state"
       /\ UNCHANGED <<data, store, metas, responses, state, mode, loop, halt, crashes>>

\* SaveState, then back to the caller of ApplyBlock.
SaveState ==
    /\ pc = "state"
    /\ state' = mem
    /\ pc' = IF mode = "consensus" THEN "running" ELSE "start"
    /\ UNCHANGED <<data, store, metas, responses, app, mode, mem, loop, genesis, halt, crashes>>

-----------------------------------------------------------------------------
(* The process dies; while it is down the application may lose commits.    *)

Crash ==
    /\ pc # "down" /\ crashes < MaxCrashes
    /\ pc' = "down"
    /\ genesis' = FALSE
    /\ mem' = Genesis
    /\ crashes' = crashes + 1
    /\ UNCHANGED <<disk, mode, loop, halt>>

AppRollback ==
    /\ AppMayLag /\ pc = "down"
    /\ app' \in {v \in 0..MaxHeight : v < app}
    /\ UNCHANGED <<data, store, metas, responses, state, pc, mode, mem, loop, genesis, halt, crashes>>

Step ==
    \/ Handshake \/ ReplayNext \/ ReplayDone \/ StartConsensus
    \/ FinalizeCommit \/ SyncBlock \/ SaveBlock \/ SaveDescriptor \/ WriteMeta
    \/ ExecBlock \/ SaveResponses \/ AppCommit \/ SaveState

Next == Step \/ Crash \/ AppRollback

Spec == Init /\ [][Next]_vars

\* The process runs until it crashes and is restarted after every crash.
FairSpec == Spec /\ WF_vars(Step)

-----------------------------------------------------------------------------
(* Properties.                                                             *)

\* The application refused to commit because of its halt height.
Halted ==
    \/ mem.hash = EmptyHash \/ state.hash = EmptyHash
    \/ halt > 0 /\ app + 1 >= halt

\* The orders that ReplayBlocks calls "under tendermint's control": the
\* store is level with the saved state or one block ahead, the application
\* is never ahead of the store, and a stored block is complete.
HeightsClose ==
    /\ state.height <= store /\ store <= state.height + 1
    /\ app <= store
    /\ store <= data /\ data <= store + 1

\* None of the panics and startup errors of SaveBlock, finalizeCommit,
\* ApplyBlock, BeginBlock, ReplayBlocks and reconstructLastCommit can be
\* reached by crashing and restarting, whatever the moment, unless the
\* application halted.
NoPanic == pc \in {"panicked", "failed"} => Halted

\* "Tendermint and App are synced": when consensus runs, the store, the
\* saved state and the application are at the same height, and the AppHash
\* the next block is validated against is the application's.
Synced ==
    pc = "running" /\ ~Halted =>
        /\ mem = state
        /\ store = state.height /\ app = state.height
        /\ state.hash = app

\* finalizeCommit: the meta line of height h+1 implies that the block store
\* has the block of height h.
MetaMeansStored == \A m \in metas : m <= store + 1

\* The application executes block 1 on the state InitChain built, also when
\* it lost all its commits and the saved state is far ahead.
FirstBlockOnGenesis ==
    \/ pc = "replay" /\ loop.next = 1
    \/ pc \in {"responses", "commit"} /\ mode # "mock" /\ block = 1
    => genesis

\* What the next start finds after a crash at any write, and what consensus
\* runs on, belong together: heights, hashes, meta lines and genesis.
StoresConsistent ==
    TypeOK /\ HeightsClose /\ Synced /\ MetaMeansStored /\ FirstBlockOnGenesis

\* A node that is restarted after every crash commits every decided block,
\* unless its application halted.
CommitsEveryBlock == <>(Halted \/ (pc = "running" /\ mem.height = MaxHeight))
=============================================================================
