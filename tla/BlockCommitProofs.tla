------------------------- MODULE BlockCommitProofs -------------------------
(***************************************************************************)
(* Crash recovery of a node, for every number of blocks and crashes.       *)
(*                                                                         *)
(* What the disk holds between two writes depends on where the process is, *)
(* so the inductive invariant says, for every step of the process, how the *)
(* heights on disk compare with the State in memory.  A process whose      *)
(* application halted keeps only part of it.                               *)
(***************************************************************************)
EXTENDS BlockCommit, TLAPS

\* The State in memory is the saved one, and the store has s blocks.
Loaded(s) == mem = state /\ store = s

\* A State carries the hash of its own height unless a Commit halted.
HashOK(st) == st.hash \in {st.height, EmptyHash}

\* A block the application committed ahead of the saved state can be
\* replayed from the saved responses.
Replayable == app > state.height => app \in responses

AtRest ==
    pc \in {"start", "running"} =>
        /\ Loaded(mem.height) /\ (Halted \/ app = mem.height)
        /\ pc = "running" => mode = "consensus"

AtSave ==
    pc \in {"save", "descriptor"} =>
        /\ Loaded(mem.height) /\ (Halted \/ app = mem.height)
        /\ block <= MaxHeight
        /\ mode \in {"consensus", "sync"}
        /\ pc = "descriptor" => data = block

\* ApplyBlock before the application's Commit.
AtApply ==
    pc \in {"meta", "exec", "responses", "commit"} =>
        /\ Loaded(block)
        /\ mode = "mock" => app = block
        /\ mode # "mock" => Halted \/ app = mem.height
        /\ pc = "meta" => mode # "mock"
        /\ pc \in {"responses", "commit"} => Valid
        /\ pc \in {"responses", "commit"} /\ mode # "mock" => app = mem.height
        /\ pc = "commit" => block \in responses

AtState ==
    pc = "state" =>
        /\ mem.height = state.height + 1 /\ store = mem.height
        /\ mem.height \in responses
        /\ \/ mem.hash = EmptyHash
           \/ mem.hash = mem.height /\ app = mem.height

AtReplay ==
    pc = "replay" =>
        LET final == IF mode = "behindboth" THEN store - 1 ELSE store
        IN /\ mem = state
           /\ \/ mode = "behind" /\ store = mem.height
              \/ mode = "behindboth" /\ store = block
           /\ app < loop.next /\ loop.next <= final + 1
           /\ loop.hash \in {EmptyHash, loop.next - 1}
           /\ Halted \/ app = loop.next - 1
           /\ Halted \/ loop.next <= final \/ loop.hash # EmptyHash

\* InitChain was sent to an application that has no commit.
InitChainSent == pc # "down" /\ app = 0 => genesis

IInv ==
    /\ TypeOK /\ HeightsClose /\ NoPanic /\ MetaMeansStored
    /\ HashOK(state) /\ HashOK(mem)
    /\ Replayable
    /\ AtRest /\ AtSave /\ AtApply /\ AtState /\ AtReplay
    /\ InitChainSent

-----------------------------------------------------------------------------
\* The invariant of the whole node: heights, panics and the facts above hold
\* after any sequence of commits, syncs, crashes and restarts.
THEOREM Invariance == Spec => []IInv
<1> USE HeightAssumption, HaltAssumption, CrashAssumption
    DEF Heights, EmptyHash, States, TypeOK, HeightsClose, NoPanic, Halted, MetaMeansStored,
        HashOK, Replayable, Loaded, AtRest, AtSave, AtApply, AtState, AtReplay,
        InitChainSent, block, AppHash, Valid, Halts, disk, pcs, modes, Genesis
<1>1. Init => IInv
  <2> SUFFICES ASSUME Init PROVE IInv
    OBVIOUS
  <2>1. TypeOK
    <3>1. Genesis \in States /\ 0 \in 0..MaxHeight
      OBVIOUS
    <3>2. loop \in [next : 0..(MaxHeight + 1), hash : (0..MaxHeight) \cup {EmptyHash}]
      BY DEF Init
    <3>3. metas \subseteq 0..(MaxHeight + 1) /\ responses \subseteq Heights
      BY DEF Init
    <3>4. genesis \in BOOLEAN
      BY Zenon DEF Init
    <3>5. crashes \in 0..MaxCrashes
      BY DEF Init
    <3> QED
      BY <3>1, <3>2, <3>3, <3>4, <3>5 DEF Init
  <2>2. HeightsClose /\ NoPanic /\ MetaMeansStored
    BY DEF Init
  <2>3. HashOK(state) /\ HashOK(mem) /\ Replayable
    BY DEF Init
  <2>4. AtRest /\ AtSave
    BY DEF Init
  <2>5. AtApply
    BY DEF Init
  <2>6. AtState
    BY DEF Init
  <2>7. AtReplay
    BY DEF Init
  <2>8. InitChainSent
    BY DEF Init
  <2> QED
    BY <2>1, <2>2, <2>3, <2>4, <2>5, <2>6, <2>7, <2>8 DEF IInv
<1>2. IInv /\ [Next]_vars => IInv'
  <2> SUFFICES ASSUME IInv, [Next]_vars PROVE IInv'
    OBVIOUS
  <2> USE DEF IInv
  <2>1. CASE Handshake
    <3>1. TypeOK'
      BY <2>1 DEF Handshake, ReplayBlocks, Goes
    <3>2. (HeightsClose /\ NoPanic /\ MetaMeansStored)'
      BY <2>1 DEF Handshake, ReplayBlocks, Goes
    <3>3. (HashOK(state) /\ HashOK(mem) /\ Replayable)'
      BY <2>1 DEF Handshake, ReplayBlocks, Goes
    <3>4. (AtRest /\ AtSave)'
      BY <2>1 DEF Handshake, ReplayBlocks, Goes
    <3>5. AtApply'
      BY <2>1 DEF Handshake, ReplayBlocks, Goes
    <3>6. AtState'
      BY <2>1 DEF Handshake, ReplayBlocks, Goes
    <3>7. AtReplay'
      BY <2>1 DEF Handshake, ReplayBlocks, Goes
    <3>8. InitChainSent'
      BY <2>1 DEF Handshake, ReplayBlocks, Goes
    <3> QED
      BY <3>1, <3>2, <3>3, <3>4, <3>5, <3>6, <3>7, <3>8
  <2>2. CASE ReplayNext
    BY <2>2 DEF ReplayNext
  <2>3. CASE ReplayDone
    BY <2>3 DEF ReplayDone
  <2>4. CASE StartConsensus
    BY <2>4 DEF StartConsensus
  <2>5. CASE FinalizeCommit
    <3>1. TypeOK'
      BY <2>5 DEF FinalizeCommit
    <3>2. (HeightsClose /\ NoPanic /\ MetaMeansStored)'
      BY <2>5 DEF FinalizeCommit
    <3>3. (HashOK(state) /\ HashOK(mem) /\ Replayable)'
      BY <2>5 DEF FinalizeCommit
    <3>4. (AtRest /\ AtSave)'
      BY <2>5 DEF FinalizeCommit
    <3>5. AtApply'
      BY <2>5 DEF FinalizeCommit
    <3>6. AtState'
      BY <2>5 DEF FinalizeCommit
    <3>7. AtReplay'
      BY <2>5 DEF FinalizeCommit
    <3>8. InitChainSent'
      BY <2>5 DEF FinalizeCommit
    <3> QED
      BY <3>1, <3>2, <3>3, <3>4, <3>5, <3>6, <3>7, <3>8
  <2>6. CASE SyncBlock
    BY <2>6 DEF SyncBlock
  <2>7. CASE SaveBlock
    BY <2>7 DEF SaveBlock
  <2>8. CASE SaveDescriptor
    BY <2>8 DEF SaveDescriptor
  <2>9. CASE WriteMeta
    <3>1. TypeOK'
      <4>1. block + 1 \in 0..(MaxHeight + 1)
        BY <2>9 DEF WriteMeta
      <4>2. metas' \subseteq 0..(MaxHeight + 1)
        BY <2>9, <4>1 DEF WriteMeta
      <4> QED
        BY <2>9, <4>2 DEF WriteMeta
    <3>2. (HeightsClose /\ NoPanic /\ MetaMeansStored)'
      BY <2>9 DEF WriteMeta
    <3>3. (HashOK(state) /\ HashOK(mem) /\ Replayable)'
      BY <2>9 DEF WriteMeta
    <3>4. (AtRest /\ AtSave)'
      BY <2>9 DEF WriteMeta
    <3>5. AtApply'
      BY <2>9 DEF WriteMeta
    <3>6. AtState'
      BY <2>9 DEF WriteMeta
    <3>7. AtReplay'
      BY <2>9 DEF WriteMeta
    <3>8. InitChainSent'
      BY <2>9 DEF WriteMeta
    <3> QED
      BY <3>1, <3>2, <3>3, <3>4, <3>5, <3>6, <3>7, <3>8
  <2>10. CASE ExecBlock
    BY <2>10 DEF ExecBlock
  <2>11. CASE SaveResponses
    <3>1. TypeOK'
      <4>1. block \in Heights
        BY <2>11 DEF SaveResponses
      <4>2. responses' \subseteq Heights
        BY <2>11, <4>1 DEF SaveResponses
      <4> QED
        BY <2>11, <4>2 DEF SaveResponses
    <3>2. (HeightsClose /\ NoPanic /\ MetaMeansStored)'
      BY <2>11 DEF SaveResponses
    <3>3. (HashOK(state) /\ HashOK(mem) /\ Replayable)'
      BY <2>11 DEF SaveResponses
    <3>4. (AtRest /\ AtSave)'
      BY <2>11 DEF SaveResponses
    <3>5. AtApply'
      BY <2>11 DEF SaveResponses
    <3>6. AtState'
      BY <2>11 DEF SaveResponses
    <3>7. AtReplay'
      BY <2>11 DEF SaveResponses
    <3>8. InitChainSent'
      BY <2>11 DEF SaveResponses
    <3> QED
      BY <3>1, <3>2, <3>3, <3>4, <3>5, <3>6, <3>7, <3>8
  <2>12. CASE AppCommit
    BY <2>12 DEF AppCommit
  <2>13. CASE SaveState
    BY <2>13 DEF SaveState
  <2>14. CASE Crash
    <3>1. TypeOK'
      <4>1. mem' \in States
        BY <2>14 DEF Crash
      <4>2. genesis' \in BOOLEAN
        BY <2>14, Zenon DEF Crash
      <4>3. crashes' \in 0..MaxCrashes
        BY <2>14 DEF Crash
      <4>4. pc' \in pcs
        BY <2>14 DEF Crash
      <4> QED
        BY <2>14, <4>1, <4>2, <4>3, <4>4 DEF Crash
    <3>2. (HeightsClose /\ NoPanic /\ MetaMeansStored)'
      BY <2>14 DEF Crash
    <3>3. (HashOK(state) /\ HashOK(mem) /\ Replayable)'
      BY <2>14 DEF Crash
    <3>4. (AtRest /\ AtSave)'
      BY <2>14 DEF Crash
    <3>5. AtApply'
      BY <2>14 DEF Crash
    <3>6. AtState'
      BY <2>14 DEF Crash
    <3>7. AtReplay'
      BY <2>14 DEF Crash
    <3>8. InitChainSent'
      BY <2>14 DEF Crash
    <3> QED
      BY <3>1, <3>2, <3>3, <3>4, <3>5, <3>6, <3>7, <3>8
  <2>15. CASE AppRollback
    BY <2>15 DEF AppRollback
  <2>16. CASE UNCHANGED vars
    BY <2>16 DEF vars
  <2> QED
    BY <2>1, <2>2, <2>3, <2>4, <2>5, <2>6, <2>7, <2>8, <2>9, <2>10, <2>11, <2>12, <2>13, <2>14, <2>15, <2>16 DEF Next, Step
<1> QED
  BY <1>1, <1>2, PTL DEF Spec

\* ReplayBlocks never meets the heights it panics on.
THEOREM HeightsStayClose == Spec => []HeightsClose
BY Invariance, PTL DEF IInv

\* No crash and no restart leads finalizeCommit, ApplyBlock, BeginBlock or
\* the Handshaker into a panic or a startup error, as long as the
\* application does not halt.
THEOREM NeverPanics == Spec => []NoPanic
BY Invariance, PTL DEF IInv

\* A meta line in the WAL vouches for the block of the height before it.
THEOREM MetaVouches == Spec => []MetaMeansStored
BY Invariance, PTL DEF IInv

\* When consensus runs, the store, the saved state and the application agree.
THEOREM RunsSynced == Spec => []Synced
<1>1. IInv => Synced
  BY DEF IInv, Synced, AtRest, Loaded, HashOK, Halted
<1> QED
  BY <1>1, Invariance, PTL

\* Block 1 is executed on the state that InitChain built.
THEOREM GenesisFirst == Spec => []FirstBlockOnGenesis
<1>1. ASSUME IInv PROVE FirstBlockOnGenesis
  <2> USE <1>1, HeightAssumption DEF IInv, TypeOK, InitChainSent
  <2>1. CASE pc = "replay" /\ loop.next = 1
    BY <2>1 DEF AtReplay, FirstBlockOnGenesis
  <2>2. CASE pc \in {"responses", "commit"} /\ mode # "mock" /\ block = 1
    BY <2>2 DEF AtApply, block, States, FirstBlockOnGenesis
  <2> QED
    BY <2>1, <2>2 DEF FirstBlockOnGenesis
<1> QED
  BY <1>1, Invariance, PTL

\* Block store, saved state, application and WAL stay consistent with each other
\* through any crashes and restarts.
THEOREM StaysConsistent == Spec => []StoresConsistent
<1>1. IInv => TypeOK
  BY DEF IInv
<1> QED
  BY <1>1, Invariance, HeightsStayClose, RunsSynced, MetaVouches, GenesisFirst, PTL DEF StoresConsistent
=============================================================================
