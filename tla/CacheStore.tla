----------------------------- MODULE CacheStore -----------------------------
(***************************************************************************)
(* The stores that hold back writes (pkgs/store/cache), one on another:    *)
(* the state of a block over the database, and that of a transaction and   *)
(* of its messages over it.  A store remembers what it read, what it wrote *)
(* and, in a sorted list that iterations bring up to date for their range  *)
(* only, what iterators merge with those of its parent.                    *)
(***************************************************************************)
EXTENDS Integers, Sequences, SequencesExt, FiniteSetsExt

CONSTANTS
    Keys,           \* 1..n
    Values,
    Genesis,        \* what the database holds
    Ranges,         \* <<start, end>> of iterations, 0 for none
    MaxDepth, MaxSteps,
    None

VARIABLES
    base,           \* the database: key -> value or None
    stores,         \* the stores, [cache, unsortedCache, sortedCache], the last one on top
    views,          \* history: what each of them, and the database, should hold
    steps

vars == <<base, stores, views, steps>>

New == [cache |-> <<>>, unsortedCache |-> {}, sortedCache |-> <<>>]

-----------------------------------------------------------------------------
(* Reading and writing store n of the list all; store 0 is the database.   *)

\* setCacheValue
SetCacheValue(store, key, value, dirty) ==
    [store EXCEPT !.cache = [k \in DOMAIN @ \cup {key} |-> IF k = key THEN [value |-> value, dirty |-> dirty] ELSE @[k]],
                  !.unsortedCache = IF dirty THEN @ \cup {key} ELSE @]

RECURSIVE Get(_, _, _)
Get(all, n, key) ==
    IF n = 0 THEN base[key]
    ELSE IF key \in DOMAIN all[n].cache THEN all[n].cache[key].value
    ELSE Get(all, n - 1, key)

\* What Get remembers in the stores that it has to ask.
RECURSIVE Remember(_, _, _)
Remember(all, n, key) ==
    IF n = 0 \/ key \in DOMAIN all[n].cache THEN all
    ELSE [Remember(all, n - 1, key) EXCEPT ![n] = SetCacheValue(@, key, Get(all, n, key), FALSE)]

-----------------------------------------------------------------------------
(* Iterating.                                                              *)

IsKeyInDomain(key, start, end) == (start = 0 \/ start <= key) /\ (end = 0 \/ key < end)

\* Mutant: an item of the list is not replaced.
RECURSIVE MergeSorted_KeepsOld(_, _)
MergeSorted_KeepsOld(sorted, unsorted) ==
    IF sorted = <<>> \/ unsorted = <<>> THEN sorted \o unsorted
    ELSE CASE unsorted[1].key < sorted[1].key -> <<unsorted[1]>> \o MergeSorted_KeepsOld(sorted, Tail(unsorted))
           [] unsorted[1].key > sorted[1].key -> <<sorted[1]>> \o MergeSorted_KeepsOld(Tail(sorted), unsorted)
           [] OTHER -> <<sorted[1]>> \o MergeSorted_KeepsOld(Tail(sorted), Tail(unsorted))

\* The loop of dirtyItems.
RECURSIVE MergeSorted(_, _)
MergeSorted(sorted, unsorted) ==
    IF sorted = <<>> \/ unsorted = <<>> THEN sorted \o unsorted
    ELSE CASE unsorted[1].key < sorted[1].key -> <<unsorted[1]>> \o MergeSorted(sorted, Tail(unsorted))
           [] unsorted[1].key > sorted[1].key -> <<sorted[1]>> \o MergeSorted(Tail(sorted), unsorted)
           [] OTHER -> <<unsorted[1]>> \o MergeSorted(Tail(sorted), Tail(unsorted))

DirtyItems(store, start, end) ==
    LET keys == {k \in store.unsortedCache : IsKeyInDomain(k, start, end)}
        unsorted == SortSeq(SetToSeq({[key |-> k, value |-> store.cache[k].value] : k \in keys}), LAMBDA a, b : a.key < b.key)
    IN  [store EXCEPT !.unsortedCache = @ \ keys, !.sortedCache = MergeSorted(@, unsorted)]

\* cacheMergeIterator: what it yields of its parent's items and the cache's, of
\* which those without a value are deletions.
RECURSIVE Merged(_, _, _)
Merged(parent, cache, ascending) ==
    LET first == parent[1].key
        key == cache[1].key
        yields == IF cache[1].value = None THEN <<>> ELSE <<cache[1]>>
    IN  IF cache = <<>> THEN parent
        ELSE IF parent = <<>> THEN yields \o Merged(parent, Tail(cache), ascending)
        ELSE IF first = key THEN yields \o Merged(Tail(parent), Tail(cache), ascending)
        ELSE IF (first < key) = ascending THEN <<parent[1]>> \o Merged(Tail(parent), cache, ascending)
        ELSE yields \o Merged(parent, Tail(cache), ascending)

InOrder(items, ascending) == IF ascending THEN items ELSE Reverse(items)

\* The items of the map view in the range.
ItemsOf(view, start, end) ==
    SelectSeq([i \in 1..Max(Keys) |-> [key |-> i, value |-> view[i]]],
              LAMBDA item : item.value # None /\ IsKeyInDomain(item.key, start, end))

\* The items that an iterator of store n yields.
RECURSIVE Iterator(_, _, _, _, _)
Iterator(all, n, start, end, ascending) ==
    IF n = 0 THEN InOrder(ItemsOf(base, start, end), ascending)
    ELSE LET items == SelectSeq(DirtyItems(all[n], start, end).sortedCache,
                                LAMBDA item : IsKeyInDomain(item.key, start, end))
         IN  Merged(Iterator(all, n - 1, start, end, ascending), InOrder(items, ascending), ascending)

-----------------------------------------------------------------------------
Init == base = Genesis /\ stores = <<New>> /\ views = <<Genesis, Genesis>> /\ steps = 0

Top == Len(stores)
Within == steps < MaxSteps /\ steps' = steps + 1

Read(key) ==
    /\ Within
    /\ stores' = Remember(stores, Top, key)
    /\ UNCHANGED <<base, views>>

\* Set, or Delete if there is no value.
Set(key, value) ==
    /\ Within
    /\ stores' = [stores EXCEPT ![Top] = SetCacheValue(@, key, value, TRUE)]
    /\ views' = [views EXCEPT ![Top + 1][key] = value]
    /\ UNCHANGED base

\* Creating an iterator sorts the dirty items of its range in every store.
Iterate(start, end) ==
    /\ Within
    /\ stores' = [n \in DOMAIN stores |-> DirtyItems(stores[n], start, end)]
    /\ UNCHANGED <<base, views>>

CacheWrap ==
    /\ Within /\ Top < MaxDepth
    /\ stores' = Append(stores, New)
    /\ views' = Append(views, Last(views))
    /\ UNCHANGED base

Dirty(store) == {k \in DOMAIN store.cache : store.cache[k].dirty}

Cleared(store) == New

\* The writes go to the parent in the order of their keys.
Write ==
    LET top == stores[Top]
        dirty == Dirty(top)
        parent == FoldLeft(LAMBDA st, k : IF k \in dirty THEN SetCacheValue(st, k, top.cache[k].value, TRUE) ELSE st,
                           stores[Top - 1], [i \in 1..Max(Keys) |-> i])
    IN  /\ Within
        /\ IF Top = 1 THEN base' = [k \in Keys |-> IF k \in dirty THEN top.cache[k].value ELSE base[k]]
                           /\ stores' = <<Cleared(top)>>
           ELSE base' = base /\ stores' = [stores EXCEPT ![Top - 1] = parent, ![Top] = Cleared(@)]
        /\ views' = [views EXCEPT ![Top] = views[Top + 1]]

\* The store on top is dropped: written by now, or with its writes.
Drop ==
    /\ Within /\ Top > 1
    /\ stores' = Front(stores) /\ views' = Front(views)
    /\ UNCHANGED base

Next ==
    \/ \E key \in Keys : Read(key) \/ \E value \in Values \cup {None} : Set(key, value)
    \/ \E range \in Ranges : Iterate(range[1], range[2])
    \/ CacheWrap \/ Write \/ Drop

Spec == Init /\ [][Next]_vars

-----------------------------------------------------------------------------
(* Properties.                                                             *)

\* A store reads what its parent holds with its own writes over it, whatever was
\* read, iterated or written before, and the database holds what was written to
\* it and nothing of a store that was dropped.
ReadsView ==
    /\ base = views[1]
    /\ \A n \in 1..Top, key \in Keys : Get(stores, n, key) = views[n + 1][key]

\* An iterator yields the keys of its range that the store holds, each once, in
\* order and with its value, forwards and backwards.
IteratesView ==
    \A n \in 1..Top, range \in Ranges, ascending \in BOOLEAN :
        Iterator(stores, n, range[1], range[2], ascending) = InOrder(ItemsOf(views[n + 1], range[1], range[2]), ascending)
=============================================================================
