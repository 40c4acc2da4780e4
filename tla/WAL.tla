-------------------------------- MODULE WAL --------------------------------
(***************************************************************************)
(* The consensus write-ahead log: a group of files (pkgs/autofile), the    *)
(* search for the meta line of a height (pkgs/bft/wal) and the replay of a *)
(* restarted node (catchupReplay of pkgs/bft/consensus/replay.go).         *)
(*                                                                         *)
(* Consensus is reduced to what the log sees of it: the messages of a      *)
(* height, each written before it is handled, and the writes at the end of *)
(* a height.  A height is decided when all its messages are handled.  An   *)
(* entry counts one towards the size limits.  Indexes of files are         *)
(* relative to the first file of the group: the search only compares them. *)
(***************************************************************************)
EXTENDS Integers, Sequences, SequencesExt

CONSTANTS
    Own,        \* messages the node sends itself (fsynced)
    Peer,       \* messages of peers (buffered)
    MaxHeight,  \* heights with messages
    HeadLimit,  \* entries at which the head file is rotated
    TotalLimit, \* entries at which the oldest file is removed
    MaxCrashes  \* bound on the number of crashes

ASSUME MessagesAssumption == Own \cap Peer = {}
ASSUME BoundsAssumption == {MaxHeight, HeadLimit, TotalLimit, MaxCrashes} \subseteq Nat

VARIABLES
    files,      \* the group; the last file is the head
    durable,    \* entries of the head that are certainly on disk
    height,     \* height of consensus
    stored,     \* the block of that height is in the block store
    mem,        \* messages of that height handled by this process
    handled,    \* own messages of that height handled by any process
    pc,         \* where the process is
    cur,        \* the own message being written
    crashes

vars == <<files, durable, height, stored, mem, handled, pc, cur, crashes>>

Msgs == Own \cup Peer

Meta(h) == [kind |-> "meta", h |-> h, msg |-> ""]
Message(h, m) == [kind |-> "msg", h |-> h, msg |-> m]
\* Anything logged that replay reads and that is no message: steps, timeouts.
Noise == [kind |-> "noise", h |-> 0, msg |-> ""]
\* The beginning of a line, without its newline, and a whole line that
\* starts with it.  A broken meta line is no DataCorruptionError.
Torn(e) == [kind |-> IF e.kind = "meta" THEN "tornmeta" ELSE "torn", h |-> 0, msg |-> ""]
Fused(t) == [kind |-> IF t.kind = "tornmeta" THEN "badmeta" ELSE "bad", h |-> 0, msg |-> ""]

IsTorn(e) == e.kind \in {"torn", "tornmeta"}
IsMeta(e) == e.kind = "meta"

HeadFile == Last(files)

-----------------------------------------------------------------------------
(* Writing: Group.Write with rotation and removal, FlushAndSync.           *)

\* The head after a line is appended; a torn last line swallows it.
Extend(file, e) ==
    IF file # <<>> /\ IsTorn(Last(file))
      THEN Append(Front(file), Fused(Last(file)))
      ELSE Append(file, e)

\* rotateFile and ensureTotalSizeLimit.  All rotated files have HeadLimit
\* entries, so removing one brings the total below the limit.
Rotate(group) ==
    LET rotated == Append(group, <<>>)
    IN IF Len(FlattenSeq(group)) >= TotalLimit THEN Tail(rotated) ELSE rotated

\* Write, with sync: WriteSync.  Rotation syncs the old head.
Written(l, e, sync) ==
    LET head == Extend(Last(l.files), e)
        group == Append(Front(l.files), head)
    IN IF Len(head) >= HeadLimit THEN [files |-> Rotate(group), durable |-> 0]
       ELSE [files |-> group,
             durable |-> IF sync THEN Len(head)
                         ELSE IF l.durable < Len(head) THEN l.durable ELSE Len(head) - 1]

Log == [files |-> files, durable |-> durable]
Become(l) == files' = l.files /\ durable' = l.durable

-----------------------------------------------------------------------------
(* SearchForHeight.                                                        *)

Found(index, pos) == [kind |-> "found", index |-> index, pos |-> pos]
NotFound == [kind |-> "notfound", index |-> 0, pos |-> 0]
Panic == [kind |-> "panic", index |-> 0, pos |-> 0]
Error == [kind |-> "error", index |-> 0, pos |-> 0]

Middle(s) == (s.min + s.max + 1) \div 2
Base(s) == IF s.mode = "backwards" THEN s.max + s.backoff ELSE Middle(s)
Backoff(s) == IF s.backoff = 0 THEN -1 ELSE 2 * s.backoff

\* No meta line from Base on: look below it.
Below(s) ==
    [s EXCEPT !.idxoff = 0, !.max = Base(s) - 1,
              !.backoff = IF s.mode = "backwards" THEN Backoff(s) ELSE @]

\* The file starts after the height.
Earlier(s) ==
    LET t == [s EXCEPT !.idxoff = 0, !.backoff = Backoff(s),
                       !.max = IF s.backoff = 0 THEN @ - 1 ELSE @ + s.backoff]
    IN IF s.mode = "binary" THEN [s EXCEPT !.idxoff = 0, !.max = Middle(s) - 1]
       ELSE IF t.max + 2 * t.backoff <= t.min THEN [t EXCEPT !.backoff = 0, !.mode = "binary"]
       ELSE t

\* Mutant: the converted search starts after the file that may hold it.
Later_Skips(s, index) ==
    [s EXCEPT !.idxoff = 0, !.backoff = 0, !.min = index + 1, !.mode = "binary"]

\* The file starts before the height.
Later(s, index) ==
    [s EXCEPT !.idxoff = 0, !.backoff = 0, !.min = index, !.mode = "binary"]

RECURSIVE Search(_, _, _)

\* One iteration of OUTER_LOOP.  A file is read up to the first line that
\* decides: the first meta line, or the first one not before the height
\* when no later file can hold it.
Search(group, h, s) ==
    LET index == Base(s) + s.idxoff
        sequential == IF s.mode = "backwards" THEN s.backoff = 0 ELSE index = s.max
        file == group[index]
        pos == SelectInSeq(file, LAMBDA e : \/ e.kind = "badmeta"
                                            \/ IsMeta(e) /\ (~sequential \/ e.h >= h))
    IN IF s.min > s.max THEN NotFound
       ELSE IF index > s.max THEN Search(group, h, Below(s))
       ELSE IF index < s.min THEN Panic
       ELSE IF pos = 0 THEN Search(group, h, [s EXCEPT !.idxoff = @ + 1])
       ELSE IF file[pos].kind = "badmeta" THEN Error
       ELSE IF h < file[pos].h THEN Search(group, h, Earlier(s))
       ELSE IF h = file[pos].h THEN Found(index, pos)
       ELSE Search(group, h, Later(s, index))

SearchForHeight(group, h) ==
    Search(group, h, [min |-> 1, max |-> Len(group), mode |-> "backwards",
                      backoff |-> 0, idxoff |-> 0])

-----------------------------------------------------------------------------
(* A node that writes the log, crashes and replays it.                     *)

Init ==
    /\ files = << <<>> >> /\ durable = 0
    /\ height = 1 /\ stored = FALSE
    /\ mem = {} /\ handled = {}
    /\ pc = "down" /\ cur = ""
    /\ crashes = 0

\* The message is in the round state; the last one decides the height.
Handle(m) ==
    /\ mem' = mem \cup {m}
    /\ pc' = IF mem' = Msgs THEN "decided" ELSE "running"

\* internalMsgQueue: WriteSync, then handleMsg.
WriteOwn(m) ==
    /\ pc = "running" /\ height <= MaxHeight /\ m \notin mem
    /\ Become(Written(Log, Message(height, m), FALSE))
    /\ pc' = "syncing" /\ cur' = m
    /\ UNCHANGED <<height, stored, mem, handled, crashes>>

\* Mutant: an own message is handled before it is synced.
HandleOwn_NoSync ==
    /\ pc = "syncing"
    /\ UNCHANGED <<files, durable>>
    /\ handled' = handled \cup {cur}
    /\ Handle(cur)
    /\ cur' = ""
    /\ UNCHANGED <<height, stored, crashes>>

HandleOwn ==
    /\ pc = "syncing"
    /\ durable' = Len(HeadFile) /\ files' = files
    /\ handled' = handled \cup {cur}
    /\ Handle(cur)
    /\ cur' = ""
    /\ UNCHANGED <<height, stored, crashes>>

\* peerMsgQueue: Write without sync, then handleMsg.
PeerMessage(m) ==
    /\ pc = "running" /\ height <= MaxHeight /\ m \notin mem
    /\ Become(Written(Log, Message(height, m), FALSE))
    /\ Handle(m)
    /\ UNCHANGED <<height, stored, handled, cur, crashes>>

\* processFlushTicks.
FlushTick ==
    /\ pc \in {"running", "decided", "saved", "meta", "applying"}
    /\ durable # Len(HeadFile)
    /\ durable' = Len(HeadFile)
    /\ UNCHANGED <<files, height, stored, mem, handled, pc, cur, crashes>>

\* finalizeCommit: SaveBlock, WriteMetaSync, ApplyBlock and updateToState,
\* whose newStep is logged.
SaveBlock ==
    /\ pc = "decided"
    /\ stored' = TRUE /\ pc' = "saved"
    /\ UNCHANGED <<files, durable, height, mem, handled, cur, crashes>>

WriteMeta ==
    /\ pc = "saved"
    /\ Become(Written(Log, Meta(height + 1), FALSE))
    /\ pc' = "meta"
    /\ UNCHANGED <<height, stored, mem, handled, cur, crashes>>

SyncMeta ==
    /\ pc = "meta"
    /\ durable' = Len(HeadFile) /\ files' = files
    /\ pc' = "applying"
    /\ UNCHANGED <<height, stored, mem, handled, cur, crashes>>

NewHeight ==
    /\ pc = "applying"
    /\ Become(Written(Log, Noise, FALSE))
    /\ height' = height + 1 /\ stored' = FALSE
    /\ mem' = {} /\ handled' = {}
    /\ pc' = "running"
    /\ UNCHANGED <<cur, crashes>>

\* The process dies.  Of the entries that were not synced any number is on
\* disk, and perhaps a part of the next one.
Crash ==
    /\ pc # "down" /\ crashes < MaxCrashes
    /\ \E n \in durable..Len(HeadFile) :
         /\ durable' = n
         /\ \/ files' = Append(Front(files), SubSeq(HeadFile, 1, n))
            \/ /\ n < Len(HeadFile)
               /\ files' = Append(Front(files), Append(SubSeq(HeadFile, 1, n), Torn(HeadFile[n + 1])))
    /\ mem' = {} /\ pc' = "down" /\ cur' = ""
    /\ crashes' = crashes + 1
    /\ UNCHANGED <<height, stored, handled>>

\* What catchupReplay(h) does with the log: the step of the process after it
\* and the messages it has handled.  Only data corruption in the height
\* itself keeps the node from starting.
CatchupReplay(group, h) ==
    LET ahead == SearchForHeight(group, h + 1)
        at == SearchForHeight(group, h)
        rest == SubSeq(group[at.index], at.pos + 1, Len(group[at.index]))
        stop == SelectInSeq(rest, LAMBDA e : e.kind \in {"bad", "badmeta"})
        read == IF stop = 0 THEN rest ELSE SubSeq(rest, 1, stop - 1)
        msgs == {e.msg : e \in {x \in ToSet(read) : x.kind = "msg" /\ x.h = h}}
        nothing == [pc |-> "running", mem |-> {}]
    IN IF ahead.kind = "panic" THEN [pc |-> "panicked", mem |-> {}]
       ELSE IF ahead.kind \in {"found", "error"} THEN nothing
       ELSE IF at.kind = "panic" THEN [pc |-> "panicked", mem |-> {}]
       ELSE IF at.kind \in {"notfound", "error"} THEN nothing
       ELSE IF stop # 0 /\ rest[stop].kind = "bad" THEN [pc |-> "refused", mem |-> {}]
       ELSE [pc |-> IF msgs = Msgs THEN "decided" ELSE "running", mem |-> msgs]

\* baseWAL.OnStart: an empty log gets its first meta line.
Opened == IF FlattenSeq(files) = <<>> THEN Written(Log, Meta(0), TRUE) ELSE Log

\* The node starts again: the handshake applies a stored block, fast sync
\* takes n blocks from peers (and then the WAL is not replayed), OnStart
\* replays the log, and the first timeout of the height is logged.
Restart(n) ==
    LET next == height + (IF stored THEN 1 ELSE 0) + n
        replay == IF n > 0 THEN [pc |-> "running", mem |-> {}]
                  ELSE CatchupReplay(Opened.files, next)
    IN /\ pc = "down"
       /\ next <= MaxHeight + 1
       /\ height' = next /\ stored' = FALSE
       /\ mem' = replay.mem /\ pc' = replay.pc
       /\ handled' = IF next = height THEN handled ELSE {}
       /\ Become(IF replay.pc \in {"panicked", "refused"} THEN Opened ELSE Written(Opened, Noise, FALSE))
       /\ UNCHANGED <<cur, crashes>>

Next ==
    \/ \E m \in Own : WriteOwn(m)
    \/ \E m \in Peer : PeerMessage(m)
    \/ HandleOwn \/ FlushTick
    \/ SaveBlock \/ WriteMeta \/ SyncMeta \/ NewHeight
    \/ Crash
    \/ \E n \in 0..1 : Restart(n)

Spec == Init /\ [][Next]_vars

-----------------------------------------------------------------------------
(* Properties.                                                             *)

Kinds == {"meta", "msg", "noise", "torn", "tornmeta", "bad", "badmeta"}

TypeOK ==
    /\ \A f \in ToSet(files) : \A e \in ToSet(f) :
         e.kind \in Kinds /\ (e.kind = "msg" => e.h \in 1..MaxHeight /\ e.msg \in Msgs)
    /\ \A i \in 1..(Len(files) - 1) : Len(files[i]) >= HeadLimit
    /\ durable \in 0..Len(HeadFile) /\ Len(HeadFile) < HeadLimit
    /\ height \in 1..(MaxHeight + 1) /\ stored \in BOOLEAN
    /\ mem \subseteq Msgs /\ handled \subseteq Own
    /\ pc \in {"down", "running", "syncing", "decided", "saved", "meta", "applying",
               "panicked", "refused"}
    /\ cur \in Own \cup {""} /\ crashes \in 0..MaxCrashes

All == FlattenSeq(files)
Metas == {i \in DOMAIN All : IsMeta(All[i])}

\* What the binary search rests on: meta lines are written in the order of
\* their heights, each once, whatever crashes come between.
MetasIncrease == \A i, j \in Metas : i < j => All[i].h < All[j].h

\* The messages of a height follow its meta line, so that replaying from it
\* handles nothing of an earlier height.
MessagesFollowMeta ==
    \A i \in Metas, j \in DOMAIN All : i < j /\ All[j].kind = "msg" => All[i].h <= All[j].h

\* SearchForHeight finds every meta line of the group in its file.  It is
\* allowed to panic when some file has no meta line, and to fail on a
\* broken one.
SearchFinds ==
    \A i \in DOMAIN files : \A p \in DOMAIN files[i] :
        IsMeta(files[i][p]) =>
            LET r == SearchForHeight(files, files[i][p].h)
            IN \/ r = Found(i, p)
               \/ r = Error /\ \E e \in ToSet(All) : e.kind = "badmeta"
               \/ r = Panic /\ \E f \in ToSet(files) : ~\E e \in ToSet(f) : IsMeta(e)

\* While the meta line of the height is in the head file, and no broken meta
\* line hides it, a restarted node has every own message it has ever handled
\* at this height: locks and votes survive the crash.
KeepsOwnMessages ==
    /\ pc \in {"running", "syncing", "decided", "saved"}
    /\ Meta(height) \in ToSet(HeadFile)
    /\ ~\E e \in ToSet(HeadFile) : e.kind = "badmeta"
    => handled \subseteq mem

\* "a Write-Ahead Log ensures we can recover from any kind of crash": the
\* unconditional form of KeepsOwnMessages.
RecoversFromAnyCrash == pc = "running" => handled \subseteq mem

\* The panic of SearchForHeight that "should not happen".
ShouldNotHappen == pc # "panicked"
=============================================================================
