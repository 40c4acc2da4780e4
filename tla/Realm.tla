------------------------------- MODULE Realm -------------------------------
(***************************************************************************)
(* Persistence of the objects of one realm: the ref-counts and marks that  *)
(* Realm.DidUpdate keeps while a gno function writes to the realm, the     *)
(* crawl of FinalizeRealmTransaction when the call returns, the object     *)
(* store, and the cache that is dropped between two transactions.          *)
(*                                                                         *)
(* An object is a sequence of slots holding references; its other content  *)
(* is left out, and so are object ids.  Root is the block of the package:  *)
(* the package and a file block refer to it, so it has escaped.  Objects   *)
(* that are not real are the ones a program has just allocated.  The heap  *)
(* a program builds is acyclic, as ownership.go asks ("cyclic references   *)
(* for persistence not supported at this stage").  A transaction has one   *)
(* message: the keeper drops the object cache for every message.           *)
(***************************************************************************)
EXTENDS Integers, Sequences, FiniteSets, SequencesExt

CONSTANTS
  Object,         \* the objects, Root among them
  Root,
  Nil,            \* no object, and no hash
  NSlots,         \* the number of references an object holds
  MaxWrites,      \* bound: assignments in a realm call
  MaxCalls,       \* bound: realm calls in a transaction
  SharesAcrossTx, \* may an object with two references outlive a transaction?
  DropsReattached \* may an object be detached, attached and detached again
                  \* in one realm call?

ASSUME RealmAssumption ==
  /\ Root \in Object
  /\ Nil \notin Object
  /\ NSlots \in Nat \ {0}
  /\ {SharesAcrossTx, DropsReattached} \subseteq BOOLEAN

VARIABLES
  obj,            \* the objects in memory
  marks,          \* the lists of the Realm
  store,          \* the object store as the running transaction sees it
  committed,      \* the object store as of the last transaction
  lost,           \* objects in memory the program has no reference to
  panicked,
  writes,
  calls

vars == <<obj, marks, store, committed, lost, panicked, writes, calls>>

-----------------------------------------------------------------------------
(* Objects and the heap. *)

Slot == 1 .. NSlots

Fresh == [slots |-> [s \in Slot |-> Nil], real |-> FALSE, ref |-> 0,
          owner |-> Nil, escaped |-> FALSE, dirty |-> FALSE,
          deleted |-> FALSE, newReal |-> FALSE, newEscaped |-> FALSE,
          newDeleted |-> FALSE]

\* clearMarks
NoMarks == [newCreated |-> << >>, newEscaped |-> << >>, newDeleted |-> << >>,
            created |-> << >>, updated |-> << >>, deleted |-> << >>]

\* What the crawl works on.
Now == [obj |-> obj, marks |-> marks, store |-> store, panic |-> FALSE]

getChildObjects(S, o) == SelectSeq(S.obj[o].slots, LAMBDA c : c # Nil)

\* The objects reachable from those of a set through their slots.
RECURSIVE Reach(_, _)
Reach(heap, X) ==
  LET Y == X \cup ({heap[o].slots[s] : o \in X, s \in Slot} \ {Nil})
  IN  IF Y = X THEN X ELSE Reach(heap, Y)

Panic(S) == [S EXCEPT !.panic = TRUE]

-----------------------------------------------------------------------------
(* Marks: what a write to a real object leaves for the finalization. *)

MarkDirty(S, o) ==
  IF S.obj[o].dirty \/ S.obj[o].newReal THEN S
  ELSE [S EXCEPT !.obj[o].dirty = TRUE, !.marks.updated = Append(@, o)]

MarkNewReal(S, o) ==
  IF S.obj[o].newReal THEN S
  ELSE [S EXCEPT !.obj[o].newReal = TRUE, !.marks.newCreated = Append(@, o)]

MarkNewDeleted(S, o) ==
  IF S.obj[o].newDeleted THEN S
  ELSE [S EXCEPT !.obj[o].newDeleted = TRUE, !.marks.newDeleted = Append(@, o)]

MarkNewEscaped(S, o) ==
  IF S.obj[o].newEscaped THEN S
  ELSE [S EXCEPT !.obj[o].newEscaped = TRUE, !.marks.newEscaped = Append(@, o)]

\* A reference to co has been stored in po.
Attached(S, po, co) ==
  LET T == [S EXCEPT !.obj[co].ref = @ + 1] IN
  CASE T.obj[co].ref > 1 /\ T.obj[co].escaped -> T
    [] T.obj[co].ref > 1 /\ ~T.obj[co].escaped -> MarkNewEscaped(T, co)
    [] T.obj[co].ref <= 1 /\ T.obj[co].real -> MarkDirty(T, co)
    [] OTHER -> MarkNewReal([T EXCEPT !.obj[co].owner = po], co)

\* A reference to xo has been overwritten.
Detached(S, xo) ==
  LET T == [S EXCEPT !.obj[xo].ref = @ - 1]
  IN  IF T.obj[xo].ref = 0 /\ T.obj[xo].real THEN MarkNewDeleted(T, xo) ELSE T

DidUpdate(S, po, xo, co) ==
  IF ~S.obj[po].real THEN S
  ELSE LET T == MarkDirty(S, po)
           U == IF co = Nil THEN T ELSE Attached(T, po, co)
       IN  IF xo = Nil THEN U ELSE Detached(U, xo)

-----------------------------------------------------------------------------
(* FinalizeRealmTransaction, pass by pass. *)

\* Each new object reached from a marked one becomes real; references from
\* new objects are counted only here.
RECURSIVE incRefCreatedDescendants(_, _)
incRefCreatedDescendants(S, oo) ==
  LET Child(T, c) ==
        LET U == [T EXCEPT !.obj[c].ref = @ + 1]
            V == [U EXCEPT !.obj[c].owner = oo]
        IN  CASE U.obj[c].ref = 1 /\ U.obj[c].real -> MarkDirty(V, c)
              [] U.obj[c].ref = 1 /\ ~U.obj[c].real ->
                   [incRefCreatedDescendants(V, c) EXCEPT !.obj[c].newReal = TRUE]
              [] U.obj[c].ref > 1 /\ U.obj[c].escaped -> U
              [] U.obj[c].ref > 1 /\ ~U.obj[c].escaped -> MarkNewEscaped(U, c)
              [] OTHER -> Panic(U)
  IN  IF S.obj[oo].real THEN S
      ELSE FoldLeft(Child,
                    [S EXCEPT !.obj[oo].real = TRUE,
                              !.marks.created = Append(@, oo)],
                    getChildObjects(S, oo))

processNewCreatedMarks(S) ==
  LET Mark(T, oo) == IF T.obj[oo].ref = 0 THEN T
                     ELSE incRefCreatedDescendants(T, oo)
  IN  FoldLeft(Mark, S, S.marks.newCreated)

\* SetIsDeleted writes isDirty; isDeleted, the guard of the recursion, is
\* never set.
SetIsDeleted(S, oo) == [S EXCEPT !.obj[oo].dirty = TRUE]

RECURSIVE decRefDeletedDescendants(_, _)

\* Mutant: the count of a child that stays referenced is not decremented.
decRefDeletedDescendants_KeepsShared(S, oo) ==
  LET T == [SetIsDeleted(S, oo) EXCEPT
              !.obj[oo].newDeleted = FALSE, !.obj[oo].newReal = FALSE,
              !.obj[oo].newEscaped = FALSE, !.marks.deleted = Append(@, oo)]
      Child(U, c) ==
        IF U.obj[c].ref > 1 THEN U
        ELSE decRefDeletedDescendants([U EXCEPT !.obj[c].ref = 0], c)
  IN  FoldLeft(Child, T, getChildObjects(T, oo))

decRefDeletedDescendants(S, oo) ==
  LET T == [SetIsDeleted(S, oo) EXCEPT
              !.obj[oo].newDeleted = FALSE, !.obj[oo].newReal = FALSE,
              !.obj[oo].newEscaped = FALSE, !.marks.deleted = Append(@, oo)]
      Child(U, c) ==
        LET V == [U EXCEPT !.obj[c].ref = @ - 1]
        IN  CASE V.obj[c].ref = 0 -> decRefDeletedDescendants(V, c)
              [] V.obj[c].ref > 0 -> V
              [] OTHER -> Panic(V)
  IN  IF S.obj[oo].deleted THEN S ELSE FoldLeft(Child, T, getChildObjects(T, oo))

\* Mutant: an object that became undeleted is not skipped.
processNewDeletedMarks_NoSkip(S) ==
  FoldLeft(decRefDeletedDescendants, S, S.marks.newDeleted)

processNewDeletedMarks(S) ==
  LET Mark(T, oo) ==
        IF T.obj[oo].ref > 0 THEN [T EXCEPT !.obj[oo].newDeleted = FALSE]
        ELSE decRefDeletedDescendants(T, oo)
  IN  FoldLeft(Mark, S, S.marks.newDeleted)

\* The old owner of an object that escapes is saved again.  getOwner finds
\* the owner only through the pointer in memory: GetOwnerID is zero without it.
processNewEscapedMarks(S) ==
  LET Mark(T, eo) ==
        LET po == T.obj[eo].owner
            U  == IF T.obj[po].ref = 0 \/ T.obj[po].newReal THEN T
                  ELSE MarkDirty(T, po)
        IN  CASE T.obj[eo].ref <= 1 -> [T EXCEPT !.obj[eo].newEscaped = FALSE]
              [] T.obj[eo].ref > 1 /\ po = Nil -> T
              [] OTHER -> [U EXCEPT !.obj[eo].owner = Nil]
  IN  FoldLeft(Mark, S, S.marks.newEscaped)

RECURSIVE markAncestorsOne(_, _)
markAncestorsOne(S, oo) ==
  LET po == S.obj[oo].owner
  IN  CASE S.obj[oo].ref > 1 \/ po = Nil -> S
        [] OTHER -> IF S.obj[po].newReal \/ S.obj[po].dirty THEN S
                    ELSE markAncestorsOne(MarkDirty(S, po), po)

markDirtyAncestors(S) ==
  FoldLeft(markAncestorsOne, S, S.marks.updated \o S.marks.created)

\* toRefValue: the id of a child that has been loaded and, unless it has
\* escaped, its hash, which is the one of the child as it is in the store.
toRefValue(S, c) ==
  [id   |-> c,
   hash |-> IF c = Nil THEN Nil
            ELSE IF S.obj[c].escaped \/ S.obj[c].newEscaped THEN Nil
            ELSE "current"]

\* copyValueWithRefs: what SetObject writes, and what it hashes.
Image(S, oo) == [slots   |-> [s \in Slot |-> toRefValue(S, S.obj[oo].slots[s])],
                 ref     |-> S.obj[oo].ref,
                 escaped |-> S.obj[oo].escaped]

\* Once oo has another hash, the one its owner has in the store is an old one.
WithOldHash(image, oo) ==
  [image EXCEPT !.slots = [s \in Slot |->
     IF @[s].id = oo /\ @[s].hash # Nil THEN [@[s] EXCEPT !.hash = "old"]
     ELSE @[s]]]

SetObject(S, oo) ==
  LET img     == Image(S, oo)
      changed == oo \in DOMAIN S.store /\ S.store[oo] # img
  IN  [S EXCEPT !.store = [o \in DOMAIN @ \cup {oo} |->
                             IF o = oo THEN img
                             ELSE IF changed THEN WithOldHash(@[o], oo) ELSE @[o]]]

saveObject(S, oo) ==
  LET T == IF S.obj[oo].newEscaped
           THEN [S EXCEPT !.obj[oo].newEscaped = FALSE, !.obj[oo].escaped = TRUE]
           ELSE S
  IN  IF \A o \in {oo} \cup Range(getChildObjects(S, oo)) : S.obj[o].real
      THEN SetObject(T, oo)
      ELSE Panic(S)

isUnsaved(S, o) == S.obj[o].newReal \/ S.obj[o].dirty

\* Children first, so that the hash of a child is there when its parent is
\* written.
RECURSIVE saveUnsavedObjectRecursively(_, _)
saveUnsavedObjectRecursively(S, oo) ==
  LET Child(T, c) == IF T.obj[c].escaped \/ T.obj[c].newEscaped THEN T
                     ELSE saveUnsavedObjectRecursively(T, c)
      unsaved == SelectSeq(getChildObjects(S, oo), LAMBDA c : isUnsaved(S, c))
      T == FoldLeft(Child, S, unsaved)
  IN  IF T.obj[oo].newReal
      THEN [saveObject(T, oo) EXCEPT !.obj[oo].newReal = FALSE]
      ELSE [saveObject(T, oo) EXCEPT !.obj[oo].dirty = FALSE]

saveUnsavedObjects(S) ==
  LET Created(T, co) == IF T.obj[co].newReal
                        THEN saveUnsavedObjectRecursively(T, co) ELSE T
      Updated(T, uo) == IF T.obj[uo].dirty
                        THEN saveUnsavedObjectRecursively(T, uo) ELSE T
  IN  FoldLeft(Updated, FoldLeft(Created, S, S.marks.created), S.marks.updated)

removeDeletedObjects(S) ==
  LET gone == Range(S.marks.deleted)
  IN  [S EXCEPT !.store = [o \in DOMAIN @ \ gone |-> @[o]]]

FinalizeRealmTransaction(S) ==
  removeDeletedObjects(saveUnsavedObjects(markDirtyAncestors(
    processNewEscapedMarks(processNewDeletedMarks(processNewCreatedMarks(S))))))

-----------------------------------------------------------------------------
(* The machine and the transactions around it. *)

\* loadObjectSafe: an object read back has the saved fields and no other; the
\* objects of a program that ended are gone.
Loaded(image) ==
  [o \in Object |->
     IF o \notin DOMAIN image THEN Fresh
     ELSE [Fresh EXCEPT !.slots   = [s \in Slot |-> image[o].slots[s].id],
                        !.real    = TRUE,
                        !.ref     = image[o].ref,
                        !.escaped = image[o].escaped]]

\* An empty package, saved by savePackageValuesAndTypes.
Package == [o \in {Root} |->
              [slots   |-> [s \in Slot |-> [id |-> Nil, hash |-> Nil]],
               ref     |-> 2,
               escaped |-> TRUE]]

Init ==
  /\ store = Package
  /\ committed = Package
  /\ obj = Loaded(Package)
  /\ marks = NoMarks
  /\ lost = {}
  /\ panicked = FALSE
  /\ writes = 0
  /\ calls = 0

\* PointerValue.Assign2: the program stores a reference it holds, or nil.
Assign(po, s, co) ==
  /\ ~panicked
  /\ writes < MaxWrites
  /\ calls < MaxCalls
  /\ {po, co} \cap lost = {}
  /\ co # Nil => po \notin Reach(obj, {co})
  /\ LET S == [Now EXCEPT !.obj[po].slots[s] = co]
         T == DidUpdate(S, po, obj[po].slots[s], co)
     IN  /\ obj' = T.obj
         /\ marks' = T.marks
  /\ writes' = writes + 1
  /\ UNCHANGED <<store, committed, lost, panicked, calls>>

\* What a program has done in a realm call, unless DropsReattached: an object
\* marked as deleted that hangs off another one marked so is attached to the
\* package again.
KeepsReattached ==
  \A o, p \in Range(marks.newDeleted) :
    o # p /\ o \in Reach(obj, {p}) => o \in Reach(obj, {Root})

\* OpReturn across a realm boundary.  The caller keeps no reference to an
\* object that is not in the realm.
Return ==
  /\ ~panicked
  /\ writes > 0
  /\ DropsReattached \/ KeepsReattached
  /\ LET T == FinalizeRealmTransaction(Now)
     IN  /\ panicked' = T.panic
         /\ store' = T.store
         /\ obj' = T.obj
         /\ lost' = {o \in Object \ Reach(T.obj, {Root}) : T.obj[o] # Fresh}
  /\ marks' = NoMarks
  /\ writes' = 0
  /\ calls' = calls + 1
  /\ UNCHANGED committed

IsShared(o) == obj[o].ref > 1 \/ store[o].ref > 1

\* The transaction succeeds; the next one starts with an empty object cache.
DeliverTx ==
  /\ ~panicked
  /\ writes = 0
  /\ SharesAcrossTx \/ \A o \in DOMAIN store \ {Root} : ~IsShared(o)
  /\ committed' = store
  /\ obj' = Loaded(store)
  /\ lost' = {}
  /\ calls' = 0
  /\ UNCHANGED <<marks, store, panicked, writes>>

\* It fails, or the machine panicked: what it wrote is dropped with its cache
\* of the store.
AbortTx ==
  /\ store' = committed
  /\ obj' = Loaded(committed)
  /\ marks' = NoMarks
  /\ lost' = {}
  /\ writes' = 0
  /\ calls' = 0
  /\ panicked' = FALSE
  /\ UNCHANGED committed

Next ==
  \/ \E po \in Object, s \in Slot, co \in (Object \ {Root}) \cup {Nil} :
       Assign(po, s, co)
  \/ Return
  \/ DeliverTx
  \/ AbortTx

Spec == Init /\ [][Next]_vars

-----------------------------------------------------------------------------
(* Properties. *)

AtRest == writes = 0

\* The objects are well formed, and the marks hold objects of the heap.
TypeOK ==
  /\ \A o \in Object :
       /\ obj[o].slots \in [Slot -> Object \cup {Nil}]
       /\ obj[o].ref \in Nat
       /\ obj[o].owner \in Object \cup {Nil}
  /\ \A f \in DOMAIN marks : marks[f] \in Seq(Object)
  /\ DOMAIN store \subseteq Object
  /\ DOMAIN committed \subseteq Object

\* No panic of realm.go: the counts never fall below zero, and no object is
\* saved that has no id or refers to one that has none.
NoPanic == ~panicked

\* After a realm call the store holds exactly the objects the package
\* reaches, each with the references it has in memory: nothing is lost,
\* nothing reachable is deleted and nothing unreachable is kept.
SavedIsReachable ==
  AtRest /\ ~panicked =>
    /\ DOMAIN store = Reach(obj, {Root})
    /\ \A o \in DOMAIN store, s \in Slot : store[o].slots[s].id = obj[o].slots[s]

\* The ref-count of an object is the number of references to it.
RefCountsExact ==
  AtRest /\ ~panicked =>
    \A o \in DOMAIN store \ {Root} :
      obj[o].ref = Cardinality({<<p, s>> \in (DOMAIN store) \X Slot :
                                  obj[p].slots[s] = o})

\* An object with several references has escaped, so that no single owner
\* vouches for its hash.
SharedHasEscaped ==
  AtRest => \A o \in Object :
              obj[o].ref > 1 => obj[o].escaped \/ obj[o].newEscaped

\* Whatever a realm call attached, moved and detached, FinalizeRealmTransaction
\* ends without a panic, with exact counts and with shared objects escaped.
SharingIsRecorded == TypeOK /\ NoPanic /\ RefCountsExact /\ SharedHasEscaped

\* The hash an owner keeps of an object is the hash the object has.
HashTreeCurrent ==
  AtRest /\ ~panicked =>
    \A o \in DOMAIN store, s \in Slot : store[o].slots[s].hash # "old"
=============================================================================
