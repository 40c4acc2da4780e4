---------------------------- MODULE FilePVProofs ----------------------------
(***************************************************************************)
(* Proofs about the private validator for all heights, rounds, contents    *)
(* and timestamps.  NoConflictingSignatures is not inductive: it needs to  *)
(* know that everything handed out is covered by the state file, which in  *)
(* turn needs the relation of the memory, the file and the request in      *)
(* progress at each point of a sign call (InFlight below).                 *)
(***************************************************************************)
EXTENDS FilePV, TLAPS

\* A sign state is empty, or holds the signature of a message of its own HRS.
WellFormed(state) ==
    \/ state = EmptyState
    \/ /\ state.signBytes \in Messages
       /\ state.signature = state.signBytes
       /\ SameHRS(state.signBytes, state)

\* Memory, file and request in progress at each point of a call.
InFlight ==
    /\ pc \in {"idle", "saved"} => lss = file
    /\ pc = "saving" /\ pending # None =>
           Before(file, lss) /\ lss.signature = pending
    /\ pc = "saving" /\ pending = None => lss = EmptyState
    /\ pc = "saved" /\ pending # None => file.signature = pending
    /\ pc = "saved" /\ pending = None => released = {}

IInv ==
    /\ TypeOK
    /\ WellFormed(lss)
    /\ WellFormed(file)
    /\ InFlight
    /\ ReleasedIsPersisted
    /\ NoConflictingSignatures

\* Heights and rounds are integers.
LEMMA HeightsRounds ==
    (\A h \in Heights : h \in Int) /\ (\A r \in Rounds : r \in Int)
  BY HeightsAssumption, RoundsAssumption

\* The height, round and step of a message are integers.
LEMMA MessageHRS ==
    \A m \in Messages : m.height \in Int /\ m.round \in Int /\ m.step \in Int
  BY HeightsRounds DEF Messages, stepPropose, stepPrevote, stepPrecommit

\* The height, round and step of a sign state are integers.
LEMMA StateHRS ==
    \A s \in States : s.height \in Int /\ s.round \in Int /\ s.step \in Int
  BY HeightsRounds DEF States

\* CheckHRS answers "same" only for a message of the state's own HRS and
\* "new" only for a message of a later one.
LEMMA CheckHRSMeaning ==
    ASSUME NEW state \in States, NEW m \in Messages
    PROVE  /\ CheckHRS(state, m) = "same" =>
                 SameHRS(m, state) /\ state.signBytes # None
           /\ CheckHRS(state, m) = "new" => Before(state, m)
  BY MessageHRS, StateHRS DEF CheckHRS, SameHRS, Before

\* The empty state is a sign state.
LEMMA EmptyStateType == EmptyState \in States
  BY DEF EmptyState, States, stepNone

\* A validator that has signed nothing satisfies the inductive invariant.
LEMMA InitIInv == Init => IInv
  BY EmptyStateType
     DEF Init, IInv, TypeOK, WellFormed, InFlight, ReleasedIsPersisted,
         NoConflictingSignatures

\* The file order is transitive on the HRS of messages and states.
LEMMA BeforeTransitive ==
    ASSUME NEW a \in Messages, NEW b \in States, NEW c \in States,
           Before(a, b) \/ SameHRS(a, b), Before(b, c)
    PROVE  Before(a, c)
  BY MessageHRS, StateHRS DEF Before, SameHRS

\* Two messages of one HRS compare alike with a state; a message of the
\* state's own HRS is not before it.
LEMMA NotBefore ==
    ASSUME NEW a \in Messages, NEW b \in Messages, NEW c \in States,
           SameHRS(a, b), SameHRS(b, c)
    PROVE  ~Before(a, c)
  BY MessageHRS, StateHRS DEF Before, SameHRS

\* Every step of the validator preserves the inductive invariant.
LEMMA NextIInv == IInv /\ [Next]_vars => IInv'
<1> SUFFICES ASSUME IInv, [Next]_vars PROVE IInv'
  OBVIOUS
<1> USE DEF IInv
<1>1. ASSUME NEW m \in Messages, SignSame(m) PROVE IInv'
  <2>1. SameHRS(m, lss) /\ lss.signBytes # None /\ lss = file
    BY <1>1, CheckHRSMeaning DEF SignSame, TypeOK, InFlight
  <2>2. lss.signature \in Messages /\ SameHRS(lss.signature, file)
    BY <2>1 DEF WellFormed, EmptyState
  <2>3. UNCHANGED <<lss, file, pc, pending>>
    BY <1>1 DEF SignSame
  <2>4. released' \subseteq released \cup {lss.signature}
    BY <1>1 DEF SignSame
  <2>5. ReleasedIsPersisted'
    BY <2>1, <2>2, <2>3, <2>4 DEF ReleasedIsPersisted
  <2>6. NoConflictingSignatures'
    <3> SUFFICES ASSUME NEW m1 \in released', NEW m2 \in released',
                        SameHRS(m1, m2)
                 PROVE  m1 = m2
      BY DEF NoConflictingSignatures
    <3>1. \A n \in released : SameHRS(n, lss.signature) => n = lss.signature
      BY <2>1, <2>2, NotBefore DEF ReleasedIsPersisted, TypeOK
    <3>2. SameHRS(m2, m1)
      BY DEF SameHRS
    <3> QED
      BY <3>1, <3>2, <2>4 DEF NoConflictingSignatures
  <2>7. TypeOK' /\ InFlight'
    <3>1. pc = "idle"
      BY <1>1 DEF SignSame
    <3> QED
      BY <2>2, <2>3, <2>4, <3>1 DEF TypeOK, InFlight
  <2> QED
    BY <2>3, <2>5, <2>6, <2>7 DEF WellFormed
<1>2. ASSUME NEW m \in Messages, SignRefused(m) PROVE IInv'
  BY <1>2 DEF SignRefused, vars, TypeOK, WellFormed, InFlight,
              ReleasedIsPersisted, NoConflictingSignatures
<1>3. ASSUME NEW m \in Messages, SignNew(m) PROVE IInv'
  <2>1. Before(lss, m) /\ lss = file
    BY <1>3, CheckHRSMeaning DEF SignNew, TypeOK, InFlight
  <2>2. lss' \in States /\ WellFormed(lss')
    BY <1>3 DEF SignNew, States, Messages, WellFormed, SameHRS,
                stepPropose, stepPrevote, stepPrecommit
  <2>3. Before(file', lss') /\ lss'.signature = m /\ pending' = m /\ m # None
    BY <1>3, <2>1, NoneAssumption DEF SignNew, Before
  <2> QED
    BY <1>3, <2>2, <2>3 DEF SignNew, TypeOK, InFlight, WellFormed,
       ReleasedIsPersisted, NoConflictingSignatures
<1>4. CASE Reset
  BY <1>4, EmptyStateType DEF Reset, TypeOK, WellFormed, InFlight,
     ReleasedIsPersisted, NoConflictingSignatures
<1>5. CASE Save
  <2>1. CASE pending = None
    BY <1>5, <2>1 DEF Save, TypeOK, WellFormed, InFlight,
       ReleasedIsPersisted, NoConflictingSignatures
  <2>2. CASE pending # None
    <3>1. Before(file, lss) /\ file' = lss /\ released' = released
      BY <1>5, <2>2 DEF Save, InFlight
    <3>2. \A m \in released : Before(m, lss)
      BY <3>1, BeforeTransitive DEF ReleasedIsPersisted, TypeOK
    <3> QED
      BY <1>5, <2>2, <3>1, <3>2 DEF Save, TypeOK, WellFormed, InFlight,
         ReleasedIsPersisted, NoConflictingSignatures
  <2> QED
    BY <2>1, <2>2
<1>6. CASE Return
  <2>1. CASE pending = None
    BY <1>6, <2>1 DEF Return, TypeOK, WellFormed, InFlight,
       ReleasedIsPersisted, NoConflictingSignatures
  <2>2. CASE pending # None
    <3>1. /\ file.signature = pending /\ released' = released \cup {pending}
          /\ UNCHANGED <<lss, file>> /\ pc' = "idle" /\ pending' = None
          /\ lss = file
      BY <1>6, <2>2 DEF Return, InFlight
    <3>2. pending \in Messages /\ SameHRS(pending, file)
      BY <2>2, <3>1 DEF TypeOK, WellFormed, EmptyState
    <3>3. \A n \in released : SameHRS(n, pending) => n = pending
      BY <3>1, <3>2, NotBefore DEF ReleasedIsPersisted, TypeOK
    <3>4. NoConflictingSignatures'
      <4> SUFFICES ASSUME NEW m1 \in released', NEW m2 \in released',
                          SameHRS(m1, m2)
                   PROVE  m1 = m2
        BY DEF NoConflictingSignatures
      <4>1. SameHRS(m2, m1)
        BY DEF SameHRS
      <4> QED
        BY <3>1, <3>3, <4>1 DEF NoConflictingSignatures
    <3>5. ReleasedIsPersisted'
      BY <3>1, <3>2 DEF ReleasedIsPersisted
    <3> QED
      BY <3>1, <3>2, <3>4, <3>5 DEF TypeOK, WellFormed, InFlight
  <2> QED
    BY <2>1, <2>2
<1>7. CASE Crash
  BY <1>7, EmptyStateType DEF Crash, TypeOK, WellFormed, InFlight,
     ReleasedIsPersisted, NoConflictingSignatures
<1>8. CASE Load
  BY <1>8 DEF Load, TypeOK, WellFormed, InFlight,
     ReleasedIsPersisted, NoConflictingSignatures
<1>9. CASE UNCHANGED vars
  BY <1>9 DEF vars, TypeOK, WellFormed, InFlight,
     ReleasedIsPersisted, NoConflictingSignatures
<1> QED
  BY <1>1, <1>2, <1>3, <1>4, <1>5, <1>6, <1>7, <1>8, <1>9 DEF Next, Sign

\* The inductive invariant holds in every reachable state.
THEOREM Invariance == Spec => []IInv
  BY InitIInv, NextIInv, PTL DEF Spec

\* Double-sign protection, for every set of heights, rounds, contents and
\* timestamps and any sequence of requests, crashes and restarts.
THEOREM NoDoubleSign == Spec => []NoConflictingSignatures
<1>1. IInv => NoConflictingSignatures
  BY DEF IInv
<1> QED
  BY <1>1, Invariance, PTL

\* Every signature handed out is covered by the state file.
THEOREM PersistedBeforeReturned == Spec => []ReleasedIsPersisted
<1>1. IInv => ReleasedIsPersisted
  BY DEF IInv
<1> QED
  BY <1>1, Invariance, PTL

\* The last signature can be obtained again after a crash.
THEOREM LastSignatureNotLost == Spec => []LastSignatureRecoverable
<1>1. IInv => LastSignatureRecoverable
  BY NoneAssumption, MessageHRS, StateHRS
     DEF IInv, InFlight, WellFormed, LastSignatureRecoverable, CheckHRS,
         SameHRS, Before, EmptyState, TypeOK
<1> QED
  BY <1>1, Invariance, PTL

\* The state file vouches for every signature returned, and the last one can be
\* obtained again after a crash.
THEOREM SignaturesNotLost == Spec => []SignaturesSurvive
<1>1. IInv => TypeOK
  BY DEF IInv
<1> QED
  BY <1>1, Invariance, PersistedBeforeReturned, LastSignatureNotLost, PTL DEF SignaturesSurvive

\* The state file only moves forward, except by Reset.
THEOREM FileMonotone == Spec => FileNeverRegresses
<1>1. IInv /\ [Next]_vars =>
          [file' # file => Before(file, file') \/ file' = EmptyState]_vars
  BY DEF IInv, InFlight, Next, Sign, SignSame, SignRefused, SignNew, Reset,
         Save, Return, Crash, Load, vars
<1> QED
  BY <1>1, Invariance, PTL DEF Spec, FileNeverRegresses
=============================================================================
