------------------------------- MODULE FilePV -------------------------------
(***************************************************************************)
(* The file-backed private validator (pkgs/bft/privval/file.go): the last  *)
(* sign state in memory, its copy on disk, and the signatures handed out.  *)
(*                                                                         *)
(* A sign request is three steps, because the process may die between any  *)
(* two of them: the in-memory state is updated (saveSigned), the state is  *)
(* written to its file (WriteFileAtomic: all or nothing), the signature is *)
(* returned.  ed25519 signing is deterministic, so a signature is          *)
(* represented by the message it signs.                                    *)
(***************************************************************************)
EXTENDS Integers

CONSTANTS
    Heights,    \* heights of the votes and proposals offered for signing
    Rounds,     \* rounds of those messages
    Contents,   \* what a message says besides its HRS and timestamp
    Times,      \* timestamps
    None        \* an absent message (nil SignBytes, nil Signature)

ASSUME HeightsAssumption == Heights \subseteq Nat \ {0}
ASSUME RoundsAssumption == Rounds \subseteq Nat

stepNone == 0
stepPropose == 1
stepPrevote == 2
stepPrecommit == 3

\* Canonical votes and proposals: the step plays the part of the type.
Messages == [height : Heights, round : Rounds,
             step : {stepPropose, stepPrevote, stepPrecommit},
             content : Contents, time : Times]

ASSUME NoneAssumption == None \notin Messages

VARIABLES
    lss,        \* pv.LastSignState
    file,       \* the content of the state file
    pc,         \* "idle", "saving", "saved" or "down"
    pending,    \* the message being signed; None during Reset
    released    \* signatures returned to a caller since the last Reset

vars == <<lss, file, pc, pending, released>>

EmptyState == [height |-> 0, round |-> 0, step |-> stepNone,
               signBytes |-> None, signature |-> None]

SameHRS(a, b) == a.height = b.height /\ a.round = b.round /\ a.step = b.step

\* a comes strictly before b in the order height, round, step.
Before(a, b) ==
    \/ a.height < b.height
    \/ a.height = b.height /\ a.round < b.round
    \/ a.height = b.height /\ a.round = b.round /\ a.step < b.step

\* Mutant: a request for the HRS last signed counts as a new one.
CheckHRS_NoSame(state, m) ==
    IF Before(m, state) THEN "error" ELSE "new"

\* CheckHRS for the request m: "error", "same" (reuse) or "new".
CheckHRS(state, m) ==
    CASE Before(m, state) -> "error"
      [] SameHRS(m, state) -> IF state.signBytes # None THEN "same" ELSE "error"
      [] OTHER -> "new"

\* checkVotesOnlyDifferByTimestamp / checkProposalsOnlyDifferByTimestamp.
OnlyDifferByTimestamp(a, b) == [a EXCEPT !.time = b.time] = b

-----------------------------------------------------------------------------

Init ==
    /\ lss = EmptyState
    /\ file = EmptyState
    /\ pc = "idle"
    /\ pending = None
    /\ released = {}

\* signVote / signProposal at an HRS that was signed before: the old
\* signature (with its timestamp) or an error.
SignSame(m) ==
    /\ pc = "idle"
    /\ CheckHRS(lss, m) = "same"
    /\ released' = IF OnlyDifferByTimestamp(m, lss.signBytes)
                     THEN released \cup {lss.signature} ELSE released
    /\ UNCHANGED <<lss, file, pc, pending>>

\* signVote / signProposal at an earlier HRS.
SignRefused(m) ==
    /\ pc = "idle"
    /\ CheckHRS(lss, m) = "error"
    /\ UNCHANGED vars

\* signVote / signProposal at a later HRS: saveSigned up to the file write.
SignNew(m) ==
    /\ pc = "idle"
    /\ CheckHRS(lss, m) = "new"
    /\ lss' = [height |-> m.height, round |-> m.round, step |-> m.step,
               signBytes |-> m, signature |-> m]
    /\ pending' = m
    /\ pc' = "saving"
    /\ UNCHANGED <<file, released>>

\* Reset, up to the file write.
Reset ==
    /\ pc = "idle"
    /\ lss' = EmptyState
    /\ pending' = None
    /\ pc' = "saving"
    /\ UNCHANGED <<file, released>>

\* FilePVLastSignState.Save.
Save ==
    /\ pc = "saving"
    /\ file' = lss
    /\ pc' = "saved"
    /\ released' = IF pending = None THEN {} ELSE released
    /\ UNCHANGED <<lss, pending>>

\* The call returns to its caller.
Return ==
    /\ pc = "saved"
    /\ pc' = "idle"
    /\ released' = IF pending = None THEN released ELSE released \cup {pending}
    /\ pending' = None
    /\ UNCHANGED <<lss, file>>

\* The process dies, or Save panics because the file cannot be written.
Crash ==
    /\ pc # "down"
    /\ pc' = "down"
    /\ lss' = EmptyState
    /\ pending' = None
    /\ UNCHANGED <<file, released>>

\* Mutant: LoadFilePVEmptyState is used instead of LoadFilePV.
Load_EmptyState ==
    /\ pc = "down"
    /\ lss' = EmptyState
    /\ pc' = "idle"
    /\ UNCHANGED <<file, pending, released>>

\* LoadFilePV when the process starts again.
Load ==
    /\ pc = "down"
    /\ lss' = file
    /\ pc' = "idle"
    /\ UNCHANGED <<file, pending, released>>

Sign(m) == SignSame(m) \/ SignRefused(m) \/ SignNew(m)

Next ==
    \/ \E m \in Messages : Sign(m)
    \/ Reset
    \/ Save
    \/ Return
    \/ Crash
    \/ Load

Spec == Init /\ [][Next]_vars

-----------------------------------------------------------------------------

States == [height : Heights \cup {0}, round : Rounds \cup {0},
           step : 0..3, signBytes : Messages \cup {None},
           signature : Messages \cup {None}]

\* Every variable holds a value the program can hold.
TypeOK ==
    /\ lss \in States
    /\ file \in States
    /\ pc \in {"idle", "saving", "saved", "down"}
    /\ pending \in Messages \cup {None}
    /\ released \subseteq Messages

\* Double-sign protection: whatever the order of requests, crashes and
\* restarts, two signatures that left signVote or signProposal for the same
\* height, round and step are one and the same signature.
NoConflictingSignatures ==
    \A m1, m2 \in released : SameHRS(m1, m2) => m1 = m2

\* A signature is persisted before it is returned: nothing handed out is
\* ahead of the state file, and what was handed out at the file's own HRS is
\* the signature the file holds.
ReleasedIsPersisted ==
    \A m \in released : \/ Before(m, file)
                        \/ SameHRS(m, file) /\ m = file.signature

\* The signature of the last message is not lost if the process dies before
\* the message is processed: once the validator runs again, a request for the
\* message in the state file is answered with the signature in the file.
LastSignatureRecoverable ==
    pc = "idle" /\ file.signBytes # None =>
        /\ CheckHRS(lss, file.signBytes) = "same"
        /\ lss.signature = file.signBytes

\* Every signature that left the validator outlives a crash at any moment: the
\* state file vouches for it, and the last one can be obtained again.
SignaturesSurvive == TypeOK /\ ReleasedIsPersisted /\ LastSignatureRecoverable

\* saveSigned never moves the state file back: it only grows in the order
\* height, round, step, except by Reset.
FileNeverRegresses ==
    [][file' # file => Before(file, file') \/ file' = EmptyState]_vars

=============================================================================
