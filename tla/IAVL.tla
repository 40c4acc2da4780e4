-------------------------------- MODULE IAVL --------------------------------
(***************************************************************************)
(* The versioned tree of a store (pkgs/iavl): a balanced tree of which     *)
(* every block saves a version that shares nodes with the versions before, *)
(* and the pruning of versions (nodedb.go), which must delete the nodes    *)
(* that no other version has and no more.  The store that commits it       *)
(* (pkgs/store/iavl/store.go) may stop between its writes; the node then   *)
(* loads the version of the last complete commit and executes the block    *)
(* again.                                                                  *)
(*                                                                         *)
(* A node is a record that holds its children, so that a saved node is     *)
(* its own hash.  The hash of an inner node leaves out its key, but        *)
(* Balanced shows that the key follows from the leaves.                    *)
(***************************************************************************)
EXTENDS Integers, Sequences, SequencesExt, FiniteSetsExt

CONSTANTS
    Blocks,         \* sequences of [op, key], op being "set" or "remove"
    Genesis,        \* the first block
    Prunings,       \* [recent, every]: the options of the store
    MaxVersion,
    MaxStops,
    None

VARIABLES
    tree,           \* [root, version, orphans] in memory, or None
    nodes,          \* the database: nodes ...
    roots,          \* ... version -> root ...
    lifetimes,      \* ... and [node, from, to] of orphans
    pruning,
    committed,      \* the version of the last complete commit
    chain,          \* the blocks that were decided
    stops,
    replayed,       \* whether a block was executed again
    panicked

vars == <<tree, nodes, roots, lifetimes, pruning, committed, chain, stops, replayed, panicked>>

-----------------------------------------------------------------------------
(* Nodes.                                                                  *)

\* NewNode; the value of a key is the version that set it last.
NewNode(key, version) ==
    [key |-> key, version |-> version, height |-> 0, size |-> 1, left |-> None, right |-> None, persisted |-> FALSE]

IsLeaf(node) == node.height = 0

\* clone and calcHeightAndSize.
Inner(key, left, right, version) ==
    [key |-> key, version |-> version, height |-> 1 + Max({left.height, right.height}), size |-> left.size + right.size,
     left |-> left, right |-> right, persisted |-> FALSE]

CalcBalance(node) == node.left.height - node.right.height

RotateRight(node, version) ==
    Inner(node.left.key, node.left.left, Inner(node.key, node.left.right, node.right, version), version)

RotateLeft(node, version) ==
    Inner(node.right.key, Inner(node.key, node.left, node.right.left, version), node.right.right, version)

\* The node and what it orphans.
Balance(node, version) ==
    LET left == IF CalcBalance(node.left) >= 0 THEN node.left ELSE RotateLeft(node.left, version)
        right == IF CalcBalance(node.right) <= 0 THEN node.right ELSE RotateRight(node.right, version)
    IN  CASE CalcBalance(node) > 1 ->
               [node |-> RotateRight([node EXCEPT !.left = left], version),
                orphans |-> IF left = node.left THEN {left} ELSE {node.left, node.left.right, left}]
          [] CalcBalance(node) < -1 ->
               [node |-> RotateLeft([node EXCEPT !.right = right], version),
                orphans |-> IF right = node.right THEN {right} ELSE {node.right, node.right.left, right}]
          [] OTHER -> [node |-> node, orphans |-> {}]

\* [node, updated, orphans]
RECURSIVE RecursiveSet(_, _, _)
RecursiveSet(node, key, version) ==
    IF IsLeaf(node) THEN
        CASE key < node.key -> [node |-> Inner(node.key, NewNode(key, version), node, version), updated |-> FALSE, orphans |-> {}]
          [] key > node.key -> [node |-> Inner(key, node, NewNode(key, version), version), updated |-> FALSE, orphans |-> {}]
          [] OTHER -> [node |-> NewNode(key, version), updated |-> TRUE, orphans |-> {node}]
    ELSE
        LET under == RecursiveSet(IF key < node.key THEN node.left ELSE node.right, key, version)
            new == IF key < node.key THEN Inner(node.key, under.node, node.right, version)
                   ELSE Inner(node.key, node.left, under.node, version)
            bal == IF under.updated THEN [node |-> new, orphans |-> {}] ELSE Balance(new, version)
        IN  [node |-> bal.node, updated |-> under.updated, orphans |-> {node} \cup under.orphans \cup bal.orphans]

\* recursiveRemove on the way up.  A node whose child is gone gives way to the
\* other child, and is not among the orphans.
RemovedUnder(node, under, goLeft, version) ==
    IF under.orphans = {} THEN [node |-> node, newKey |-> None, orphans |-> {}]
    ELSE IF under.node = None
    THEN [node |-> IF goLeft THEN node.right ELSE node.left, newKey |-> IF goLeft THEN node.key ELSE None,
          orphans |-> under.orphans]
    ELSE LET key == IF ~goLeft /\ under.newKey # None THEN under.newKey ELSE node.key
             bal == Balance(IF goLeft THEN Inner(key, under.node, node.right, version)
                            ELSE Inner(key, node.left, under.node, version), version)
         IN  [node |-> bal.node, newKey |-> IF goLeft THEN under.newKey ELSE None,
              orphans |-> under.orphans \cup {node} \cup bal.orphans]

\* [node or None, newKey or None, orphans]; nothing is orphaned if the key is
\* not found.
RECURSIVE RecursiveRemove(_, _, _)
RecursiveRemove(node, key, version) ==
    IF IsLeaf(node) THEN
        IF key = node.key THEN [node |-> None, newKey |-> None, orphans |-> {node}]
        ELSE [node |-> node, newKey |-> None, orphans |-> {}]
    ELSE RemovedUnder(node, RecursiveRemove(IF key < node.key THEN node.left ELSE node.right, key, version),
                      key < node.key, version)

-----------------------------------------------------------------------------
(* The tree.                                                               *)

\* addOrphans: nodes that were never saved are forgotten.
AddOrphans(t, root, orphans) ==
    [t EXCEPT !.root = root, !.orphans = @ \cup {n \in orphans : n.persisted}]

\* Set and Remove.
Apply(t, op) ==
    LET set == RecursiveSet(t.root, op.key, t.version + 1)
        removed == RecursiveRemove(t.root, op.key, t.version + 1)
    IN  IF op.op = "set"
        THEN IF t.root = None THEN [t EXCEPT !.root = NewNode(op.key, t.version + 1)]
             ELSE AddOrphans(t, set.node, set.orphans)
        ELSE IF t.root = None THEN t ELSE AddOrphans(t, removed.node, removed.orphans)

\* SaveBranch: the node with all that is below it persisted.
RECURSIVE SaveBranch(_)
SaveBranch(node) ==
    IF node.persisted THEN node
    ELSE IF IsLeaf(node) THEN [node EXCEPT !.persisted = TRUE]
    ELSE [node EXCEPT !.left = SaveBranch(@), !.right = SaveBranch(@), !.persisted = TRUE]

RECURSIVE Subtree(_)
Subtree(node) ==
    IF node = None THEN {} ELSE {node} \cup (IF IsLeaf(node) THEN {} ELSE Subtree(node.left) \cup Subtree(node.right))

\* getPreviousVersion: 0 if there is none.
PreviousVersion(version, saved) == Max({0} \cup {v \in DOMAIN saved : v < version})

-----------------------------------------------------------------------------
(* Commits.                                                                *)

Init ==
    /\ tree = [root |-> None, version |-> 0, orphans |-> {}]
    /\ nodes = {} /\ roots = <<>> /\ lifetimes = {}
    /\ pruning \in Prunings
    /\ committed = 0 /\ chain = <<Genesis>>
    /\ stops = 0 /\ replayed = FALSE /\ panicked = FALSE

\* MutableTree.SaveVersion of the tree t: what is in memory and in the database
\* after it.  A version that exists with the same hash is not saved again.
SaveVersion(t) ==
    LET version == t.version + 1
        root == IF t.root = None THEN None ELSE SaveBranch(t.root)
        last == PreviousVersion(version, roots)
    IN  IF version \in DOMAIN roots
        THEN [tree |-> [t EXCEPT !.version = version, !.orphans = {}], nodes |-> nodes, roots |-> roots,
              lifetimes |-> lifetimes, panics |-> roots[version] # root]
        ELSE [tree |-> [root |-> root, version |-> version, orphans |-> {}],
              nodes |-> nodes \cup Subtree(root),
              roots |-> [v \in DOMAIN roots \cup {version} |-> IF v = version THEN root ELSE roots[v]],
              lifetimes |-> lifetimes \cup {[node |-> n, from |-> n.version, to |-> last] : n \in t.orphans},
              panics |-> \E n \in t.orphans : n.version > last]

\* Mutant: a node whose lifetime has to be shortened is deleted.
Expires_Early(life, predecessor) == TRUE

Expires(life, predecessor) == predecessor < life.from \/ life.from = life.to

\* nodeDB.DeleteVersion in the database db.
DeleteVersion(db, version) ==
    LET predecessor == PreviousVersion(version, db.roots)
        ending == {l \in db.lifetimes : l.to = version}
        dead == {l \in ending : Expires(l, predecessor)}
    IN  [db EXCEPT !.roots = [v \in DOMAIN @ \ {version} |-> @[v]],
                   !.nodes = @ \ {l.node : l \in dead},
                   !.lifetimes = (@ \ ending) \cup {[l EXCEPT !.to = predecessor] : l \in ending \ dead}]

\* Store.Commit: the version that is released after it, if any.
ToRelease(version) ==
    {v \in {version - 1 - pruning.recent} : v > 0 /\ (pruning.every = 0 \/ v % pruning.every # 0)}

\* A block is executed and committed; stop says after which write the node
\* stops, if it does: the version, the pruning or the whole commit.
Commit(ops, stop) ==
    LET version == tree.version + 1
        saved == SaveVersion(FoldLeft(Apply, tree, ops))
        pruned == IF ToRelease(version) \subseteq DOMAIN saved.roots /\ ToRelease(version) # {}
                  THEN DeleteVersion(saved, version - 1 - pruning.recent) ELSE saved
        db == IF stop = "saved" THEN saved ELSE pruned
    IN  /\ tree # None /\ ~panicked
        /\ version <= MaxVersion
        /\ stop # "committed" => stops < MaxStops
        /\ tree' = IF stop = "committed" THEN db.tree ELSE None
        /\ nodes' = db.nodes /\ roots' = db.roots /\ lifetimes' = db.lifetimes
        /\ committed' = IF stop = "committed" THEN version ELSE committed
        /\ chain' = IF version <= Len(chain) THEN chain ELSE Append(chain, ops)
        /\ stops' = IF stop = "committed" THEN stops ELSE stops + 1
        /\ replayed' = (replayed \/ version \in DOMAIN roots)
        /\ panicked' = saved.panics
        /\ UNCHANGED pruning

\* LoadVersion of the last complete commit.  Where that version is pruned
\* already, or the first version was saved before a commit, the node does not
\* start.
LoadVersion ==
    /\ tree = None
    /\ IF committed = 0 THEN roots = <<>> ELSE committed \in DOMAIN roots
    /\ tree' = [root |-> IF committed = 0 THEN None ELSE roots[committed], version |-> committed, orphans |-> {}]
    /\ UNCHANGED <<nodes, roots, lifetimes, pruning, committed, chain, stops, replayed, panicked>>

\* The block after the tree's version, which may have been decided already.
NextBlocks == IF tree # None /\ tree.version < Len(chain) THEN {chain[tree.version + 1]} ELSE Blocks

Next ==
    \/ \E ops \in NextBlocks, stop \in {"saved", "released", "committed"} : Commit(ops, stop)
    \/ LoadVersion

Spec == Init /\ [][Next]_vars

-----------------------------------------------------------------------------
(* Properties.                                                             *)

Leaves(node) == {n \in Subtree(node) : IsLeaf(n)}

\* The trees are balanced and sorted, their heights and sizes are right, and the
\* key of an inner node is the least of its right subtree.  Node.has relies on
\* it: it takes the key of any node on its way as found.
Balanced ==
    tree # None => \A n \in Subtree(tree.root) \ Leaves(tree.root) :
        /\ CalcBalance(n) \in -1..1
        /\ n.height = 1 + Max({n.left.height, n.right.height})
        /\ n.size = Cardinality(Leaves(n))
        /\ n.key = Min({leaf.key : leaf \in Leaves(n.right)})
        /\ \A leaf \in Leaves(n.left) : leaf.key < n.key

\* What the operations of the blocks up to a version leave, as a set of
\* <<key, version that set it>>.
RECURSIVE Contents(_)
Contents(version) ==
    IF version = 0 THEN {}
    ELSE LET ops == chain[version]
             touched == {ops[i].key : i \in DOMAIN ops}
             lastOf(key) == ops[Max({i \in DOMAIN ops : ops[i].key = key})]
         IN  {kv \in Contents(version - 1) : kv[1] \notin touched}
               \cup {<<key, version>> : key \in {k \in touched : lastOf(k).op = "set"}}

Holds(root, version) == {<<leaf.key, leaf.version>> : leaf \in Leaves(root)} = Contents(version)

\* Every version that is kept can be read, whatever was pruned around it and
\* wherever commits stopped: its nodes are in the database and hold what the
\* blocks wrote.
VersionsReadable ==
    /\ \A v \in DOMAIN roots : Subtree(roots[v]) \subseteq nodes /\ Holds(roots[v], v)
    /\ tree # None =>
        /\ {n \in Subtree(tree.root) : n.persisted} \subseteq nodes
        /\ Holds(tree.root, tree.version)

\* Inner nodes whose place a child took when the other was removed.
Collapsible == {n \in nodes : ~IsLeaf(n) /\ (IsLeaf(n.left) \/ IsLeaf(n.right))}

\* Pruning reclaims: a node of the database belongs to a version that is kept,
\* unless it is one that recursiveRemove replaced by its child.  (After a block
\* was executed again its nodes are in memory as if never saved, and those that
\* the next block replaces stay as well.)
Reclaims == ~replayed => nodes \ UNION {Subtree(roots[v]) : v \in DOMAIN roots} \subseteq Collapsible

\* SaveVersion finds no other tree under its version, and no orphan whose
\* lifetime ends before it begins.
NoPanic == ~panicked
=============================================================================
