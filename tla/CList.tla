------------------------------- MODULE CList -------------------------------
(***************************************************************************)
(* The concurrent linked list of pkgs/clist.  A list is a record; an       *)
(* element is an index of its sequence of elements and 0 is nil.  Elements *)
(* are never reused, so elems also holds the removed ones a reader may     *)
(* still be standing on.                                                   *)
(*                                                                         *)
(* A wait channel is closed once and then replaced.  gen counts the        *)
(* replacements of an element's nextWaitCh: a reader that took the channel *)
(* of an earlier generation finds it closed.                               *)
(***************************************************************************)
EXTENDS Naturals, Sequences, SequencesExt

CElement(v) ==
    [value |-> v, prev |-> 0, next |-> 0, removed |-> FALSE, closed |-> FALSE, gen |-> 0]

New == [elems |-> <<>>, head |-> 0, tail |-> 0, len |-> 0, closed |-> FALSE]

\* SetNext with its channel: closed when next becomes non-nil, replaced when
\* it becomes nil again.
SetNext(e, n) ==
    [e EXCEPT !.next = n,
              !.closed = IF e.next = 0 /\ n # 0 THEN TRUE
                         ELSE IF e.next # 0 /\ n = 0 THEN FALSE ELSE @,
              !.gen = IF e.next # 0 /\ n = 0 THEN @ + 1 ELSE @]

\* SetRemoved and the caller's DetachPrev.
SetRemoved(e) == [e EXCEPT !.removed = TRUE, !.prev = 0,
                           !.closed = IF e.next = 0 THEN TRUE ELSE @]

PushBack(l, v) ==
    LET e == Len(l.elems) + 1
        linked == IF l.tail = 0 THEN l.elems ELSE [l.elems EXCEPT ![l.tail] = SetNext(@, e)]
    IN [elems |-> Append(linked, [CElement(v) EXCEPT !.prev = l.tail]),
        head |-> IF l.tail = 0 THEN e ELSE l.head,
        tail |-> e,
        len |-> l.len + 1,
        closed |-> TRUE]

\* Mutant: the element after the removed one keeps pointing back at it.
RemoveElement_KeepsPrev(l, e) ==
    LET prev == l.elems[e].prev
        next == l.elems[e].next
    IN [elems |-> [i \in DOMAIN l.elems |->
                     IF i = e THEN SetRemoved(l.elems[i])
                     ELSE IF i = prev THEN SetNext(l.elems[i], next)
                     ELSE l.elems[i]],
        head |-> IF prev = 0 THEN next ELSE l.head,
        tail |-> IF next = 0 THEN prev ELSE l.tail,
        len |-> l.len - 1,
        closed |-> l.len # 1]

\* Remove followed by DetachPrev.  The removed element keeps its next.
RemoveElement(l, e) ==
    LET prev == l.elems[e].prev
        next == l.elems[e].next
    IN [elems |-> [i \in DOMAIN l.elems |->
                     IF i = e THEN SetRemoved(l.elems[i])
                     ELSE IF i = prev THEN SetNext(l.elems[i], next)
                     ELSE IF i = next THEN [l.elems[i] EXCEPT !.prev = prev]
                     ELSE l.elems[i]],
        head |-> IF prev = 0 THEN next ELSE l.head,
        tail |-> IF next = 0 THEN prev ELSE l.tail,
        len |-> l.len - 1,
        closed |-> l.len # 1]

\* The panics of Remove.
RemovePanics(l, e) ==
    \/ l.head = 0 \/ l.tail = 0
    \/ l.elems[e].prev = 0 /\ l.head # e
    \/ l.elems[e].next = 0 /\ l.tail # e

\* A reader that took the nextWaitCh of generation gen is released.
Released(l, e, gen) == gen < l.elems[e].gen \/ l.elems[e].closed

\* The elements a loop "for e := l.Front(); e != nil; e = e.Next()" visits,
\* and the same from another element.
WalkFrom(l, start) ==
    LET n == Len(l.elems)
        at[i \in 0..n] == IF i = 0 THEN start
                          ELSE IF at[i - 1] = 0 THEN 0 ELSE l.elems[at[i - 1]].next
    IN SelectSeq([i \in 1..n |-> at[i - 1]], LAMBDA e : e # 0)
Walk(l) == WalkFrom(l, l.head)

Live(l) == {e \in DOMAIN l.elems : ~l.elems[e].removed}

\* What makes a list usable by readers that hold no lock: a walk from the
\* front meets the live elements and only them, oldest first; links agree in
\* both directions; a walk from an element that was removed still ends, at
\* the live elements pushed after it or at nil; and no reader waits on an
\* element that has a successor or is gone.
WellFormed(l) ==
    /\ Walk(l) = SetToSortSeq(Live(l), <)
    /\ l.len = Len(Walk(l)) /\ (l.closed <=> l.len > 0)
    /\ l.tail = (IF l.len = 0 THEN 0 ELSE Last(Walk(l)))
    /\ \A e \in Live(l) :
          /\ l.elems[e].prev = 0 <=> l.head = e
          /\ l.elems[e].next # 0 => l.elems[l.elems[e].next].prev = e
    /\ \A e \in DOMAIN l.elems :
          /\ l.elems[e].closed <=> (l.elems[e].next # 0 \/ l.elems[e].removed)
          /\ l.elems[e].next # 0 => l.elems[e].next > e
=============================================================================
