---------------------------- MODULE JsonlBackend ----------------------------
(***************************************************************************)
(* The write path of history/jsonl.py for one subscription directory.      *)
(*                                                                         *)
(* Three append-only files are shared by every process on the host:        *)
(* log.jsonl (the records), ids.txt (the dedupe sidecar) and index.bin     *)
(* (the commit markers).  The log and the index are the sequences of their *)
(* complete pieces and a flag saying that a torn piece follows them; their *)
(* byte offsets become piece counts, since every piece is written by one   *)
(* write() and no committed byte moves.  ids.txt, which may be replaced    *)
(* while somebody remembers an offset into it, is modelled by the byte:    *)
(* its whole lines, and the bytes of the unfinished one after them.        *)
(*                                                                         *)
(* An event is known by its id, a text of bytes with no newline in it.     *)
(*                                                                         *)
(* A handle is one JsonlBackend object in one process, with its caches.    *)
(* Several threads on one handle are serialised by its RLock before they   *)
(* reach the flock, so a handle runs one append at a time.                 *)
(***************************************************************************)
EXTENDS Naturals, Sequences, FiniteSets

CONSTANTS
    Byte,           \* what ids are made of
    Event,          \* the ids of the events that may be appended
    Handle,         \* the JsonlBackend handles, one per process
    NoHandle,       \* the .lock file is not locked
    NoEvent         \* the handle is in no append()

ASSUME IdAssumption == \A e \in Event : e \in Seq(Byte) /\ e # <<>>
ASSUME NoHandleAssumption == NoHandle \notin Handle
ASSUME NoEventAssumption == NoEvent \notin Event

VARIABLES
    log, logTorn,       \* log.jsonl: records [seq, id]; half a line at the end
    ids, idsTorn,       \* ids.txt: its lines; the unfinished one at the end
    index, indexTorn,   \* index.bin: the end of each record; half an entry
    lock,               \* the holder of the flock on .lock
    pc,                 \* where each handle is in append()
    arg,                \* the event each handle is appending
    known,              \* each handle's _ids cache: id -> seq
    offset,             \* each handle's _ids_offset: bytes of ids.txt consumed
    returned            \* every <<event, seq>> an append() has returned

files == <<log, logTorn, ids, idsTorn, index, indexTorn>>
caches == <<known, offset>>
vars == <<log, logTorn, ids, idsTorn, index, indexTorn,
          lock, pc, arg, known, offset, returned>>

Record == [seq : Nat, id : Event]

(* Where a handle may be.  From "recover" to "failed" it holds the flock;  *)
(* each name is the step it is about to take.                              *)
Locked == {"recover", "truncate", "dedupe", "rebuild", "lookup",
           "ids", "index", "done", "failed"}

NoIds == [e \in {} |-> 0]

-----------------------------------------------------------------------------
(* What is on disk.                                                        *)

(* How many records are committed: whole index entries.                    *)
Count == Len(index)

(* The ids of the committed records, in sequence order.                    *)
CommittedIds == [i \in 1..Count |-> log[index[i]].id]

(* Where the last indexed record ends.                                     *)
CommittedEnd == IF Count = 0 THEN 0 ELSE index[Count]

(* Every index entry leads to a record claiming the entry's own number, so *)
(* that _records() raises no HistoryCorruptError.                          *)
Readable == \A i \in 1..Count : index[i] \in 1..Len(log) /\ log[index[i]].seq = i

(* dict.setdefault(line, len(known) + 1) over lines, in order: an id       *)
(* already there keeps its number, a new one gets the size it makes.       *)
FirstAt(lines, e) ==
    CHOOSE i \in 1..Len(lines) :
        lines[i] = e /\ \A j \in 1..(i - 1) : lines[j] # e

LineSet(lines, n) == {lines[j] : j \in 1..n}

SetDefault(map, lines) ==
    [e \in DOMAIN map \cup LineSet(lines, Len(lines)) |->
        IF e \in DOMAIN map THEN map[e]
        ELSE Cardinality(DOMAIN map \cup LineSet(lines, FirstAt(lines, e)))]

(* Mutant: enumerate without start=1.                                      *)
EnumerateFromZero(s) ==
    [e \in LineSet(s, Len(s)) |->
        (CHOOSE i \in 1..Len(s) : s[i] = e /\ \A j \in (i + 1)..Len(s) : s[j] # e) - 1]

(* {id: seq for seq, id in enumerate(ids, start=1)}: the last one wins.    *)
Enumerate(s) ==
    [e \in LineSet(s, Len(s)) |->
        CHOOSE i \in 1..Len(s) : s[i] = e /\ \A j \in (i + 1)..Len(s) : s[j] # e]

-----------------------------------------------------------------------------
(* ids.txt by the byte.                                                    *)

(* The bytes of the first n lines, each with its newline, and their number,*)
(* which is where the n-th line ends.                                      *)
Bytes(n) == UNION {{i} \X (0..Len(ids[i])) : i \in 1..n}

EndOf(n) == Cardinality(Bytes(n))

FileSize == EndOf(Len(ids)) + Len(idsTorn)

(* _read_ids: the lines from byte `at` to the last newline, of which the   *)
(* first may be the rest of one, and the byte after that newline.  A file  *)
(* that has shrunk gives no lines and its size.                            *)
LinesFrom(at) ==
    LET behind == Cardinality({i \in 1..Len(ids) : EndOf(i) - 1 <= at})
        lines == SubSeq(ids, behind + 1, Len(ids))
    IN  IF lines = <<>> \/ at <= EndOf(behind) THEN lines
        ELSE [lines EXCEPT ![1] = SubSeq(@, at - EndOf(behind) + 1, Len(@))]

ReadUpTo(at) ==
    IF FileSize <= at THEN FileSize
    ELSE IF at < EndOf(Len(ids)) THEN EndOf(Len(ids)) ELSE at

-----------------------------------------------------------------------------
Init ==
    /\ log = <<>> /\ logTorn = FALSE
    /\ ids = <<>> /\ idsTorn = <<>>
    /\ index = <<>> /\ indexTorn = FALSE
    /\ lock = NoHandle
    /\ pc = [h \in Handle |-> "idle"]
    /\ arg = [h \in Handle |-> NoEvent]
    /\ known = [h \in Handle |-> NoIds]
    /\ offset = [h \in Handle |-> 0]
    /\ returned = {}

Goto(h, label) == pc' = [pc EXCEPT ![h] = label]

Invalidate(h) ==
    /\ known' = [known EXCEPT ![h] = NoIds]
    /\ offset' = [offset EXCEPT ![h] = 0]

(* append(envelope): the caller asks, and waits for the flock.             *)
Request(h, e) ==
    /\ pc[h] = "idle"
    /\ arg' = [arg EXCEPT ![h] = e]
    /\ Goto(h, "wait")
    /\ UNCHANGED <<files, lock, caches, returned>>

(* Mutant: the non-POSIX fallback, where nothing is locked.                *)
AcquireUnlocked(h) ==
    /\ pc[h] = "wait"
    /\ lock' = h
    /\ Goto(h, "recover")
    /\ UNCHANGED <<files, arg, caches, returned>>

Acquire(h) ==
    /\ pc[h] = "wait"
    /\ lock = NoHandle
    /\ lock' = h
    /\ Goto(h, "recover")
    /\ UNCHANGED <<files, arg, caches, returned>>

-----------------------------------------------------------------------------
(* _recover and _commit_tail.                                              *)

(* Half an index entry survived a crash: cut it off.                       *)
RecoverRagged(h) ==
    /\ pc[h] = "recover"
    /\ indexTorn
    /\ indexTorn' = FALSE
    /\ UNCHANGED <<log, logTorn, ids, idsTorn, index,
                   lock, pc, arg, caches, returned>>

(* Mutant: <= for <.                                                       *)
RecoverResetEager(h) ==
    /\ pc[h] = "recover"
    /\ ~indexTorn
    /\ index # <<>> /\ Len(log) <= CommittedEnd
    /\ index' = <<>>
    /\ Invalidate(h)
    /\ UNCHANGED <<log, logTorn, ids, idsTorn, indexTorn,
                   lock, pc, arg, returned>>

(* The index describes bytes that are not there: start it again.           *)
RecoverReset(h) ==
    /\ pc[h] = "recover"
    /\ ~indexTorn
    /\ Len(log) < CommittedEnd
    /\ index' = <<>>
    /\ Invalidate(h)
    /\ UNCHANGED <<log, logTorn, ids, idsTorn, indexTorn,
                   lock, pc, arg, returned>>

(* Mutant: an index that describes missing bytes counts as clean.          *)
RecoverCleanLax(h) ==
    /\ pc[h] = "recover"
    /\ ~indexTorn
    /\ Len(log) <= CommittedEnd /\ ~logTorn
    /\ Goto(h, "dedupe")
    /\ UNCHANGED <<files, lock, arg, caches, returned>>

RecoverClean(h) ==
    /\ pc[h] = "recover"
    /\ ~indexTorn
    /\ Len(log) = CommittedEnd /\ ~logTorn
    /\ Goto(h, "dedupe")
    /\ UNCHANGED <<files, lock, arg, caches, returned>>

HasTail == Len(log) > CommittedEnd \/ (Len(log) = CommittedEnd /\ logTorn)

(* The index entries of the first n complete records past the index.       *)
TailEntries(n) == [i \in 1..n |-> CommittedEnd + i]

CommitTail(h) ==
    /\ pc[h] = "recover"
    /\ ~indexTorn
    /\ HasTail
    /\ index' = index \o TailEntries(Len(log) - CommittedEnd)
    /\ Goto(h, "truncate")
    /\ UNCHANGED <<log, logTorn, ids, idsTorn, indexTorn,
                   lock, arg, caches, returned>>

(* The same write cut short after n whole entries and half of the next.    *)
TearTail(h) ==
    /\ pc[h] = "recover"
    /\ ~indexTorn
    /\ HasTail
    /\ \E n \in 0..(Len(log) - CommittedEnd - 1) :
           index' = index \o TailEntries(n)
    /\ indexTorn' = TRUE
    /\ Goto(h, "failed")
    /\ UNCHANGED <<log, logTorn, ids, idsTorn, lock, arg, caches, returned>>

(* Mutant: the torn line stays where the next record will be glued to it.  *)
TruncateNothing(h) ==
    /\ pc[h] = "truncate"
    /\ Invalidate(h)
    /\ Goto(h, "dedupe")
    /\ UNCHANGED <<files, lock, arg, returned>>

(* Drop the torn line nobody has read, and forget the caches.              *)
TruncateLog(h) ==
    /\ pc[h] = "truncate"
    /\ logTorn' = FALSE
    /\ Invalidate(h)
    /\ Goto(h, "dedupe")
    /\ UNCHANGED <<log, ids, idsTorn, index, indexTorn, lock, arg, returned>>

-----------------------------------------------------------------------------
(* _dedupe_map and _rebuild_ids.                                           *)

(* Mutant: the number of ids is not compared with the log's count.         *)
DedupeTrusting(h) ==
    /\ pc[h] = "dedupe"
    /\ known' = [known EXCEPT ![h] = SetDefault(@, LinesFrom(offset[h]))]
    /\ offset' = [offset EXCEPT ![h] = ReadUpTo(@)]
    /\ Goto(h, "lookup")
    /\ UNCHANGED <<files, lock, arg, returned>>

(* Read the bytes ids.txt has gained since this handle last looked, and    *)
(* trust its lines only if their number is the log's.                      *)
Dedupe(h) ==
    LET refreshed == SetDefault(known[h], LinesFrom(offset[h]))
    IN  /\ pc[h] = "dedupe"
        /\ known' = [known EXCEPT ![h] = refreshed]
        /\ offset' = [offset EXCEPT ![h] = ReadUpTo(@)]
        /\ Goto(h, IF Cardinality(DOMAIN refreshed) = Count
                   THEN "lookup" ELSE "rebuild")
        /\ UNCHANGED <<files, lock, arg, returned>>

(* Re-derive ids.txt from the committed records; os.replace is atomic.     *)
Rebuild(h) ==
    /\ pc[h] = "rebuild"
    /\ Readable
    /\ ids' = CommittedIds
    /\ idsTorn' = <<>>
    /\ known' = [known EXCEPT ![h] = Enumerate(CommittedIds)]
    /\ offset' = [offset EXCEPT ![h] = FileSize']
    /\ Goto(h, "lookup")
    /\ UNCHANGED <<log, logTorn, index, indexTorn, lock, arg, returned>>

-----------------------------------------------------------------------------
(* The rest of append(): answer a repeat, or write log, ids, index.        *)

(* Mutant: the event of the finished call stays behind.                    *)
ReleaseKeepsEvent(h) ==
    /\ lock' = NoHandle
    /\ Goto(h, "idle")
    /\ UNCHANGED arg

Release(h) ==
    /\ lock' = NoHandle
    /\ Goto(h, "idle")
    /\ arg' = [arg EXCEPT ![h] = NoEvent]

IsRepeat(h) == arg[h] \in DOMAIN known[h]

ReturnExisting(h) ==
    /\ pc[h] = "lookup"
    /\ IsRepeat(h)
    /\ returned' = returned \cup {<<arg[h], known[h][arg[h]]>>}
    /\ Release(h)
    /\ UNCHANGED <<files, caches>>

(* Mutant: ids.txt is left for a later rebuild.                            *)
WriteLogOnly(h) ==
    /\ pc[h] = "lookup"
    /\ ~IsRepeat(h)
    /\ log' = Append(log, [seq |-> Count + 1, id |-> arg[h]])
    /\ Goto(h, "index")
    /\ UNCHANGED <<logTorn, ids, idsTorn, index, indexTorn,
                   lock, arg, caches, returned>>

WriteLog(h) ==
    /\ pc[h] = "lookup"
    /\ ~IsRepeat(h)
    /\ log' = Append(log, [seq |-> Count + 1, id |-> arg[h]])
    /\ Goto(h, "ids")
    /\ UNCHANGED <<logTorn, ids, idsTorn, index, indexTorn,
                   lock, arg, caches, returned>>

(* An unfinished line swallows the id.                                     *)
WriteIds(h) ==
    /\ pc[h] = "ids"
    /\ ids' = Append(ids, idsTorn \o arg[h])
    /\ idsTorn' = <<>>
    /\ Goto(h, "index")
    /\ UNCHANGED <<log, logTorn, index, indexTorn, lock, arg, caches, returned>>

(* The commit marker: the span of the line just written.                   *)
WriteIndex(h) ==
    /\ pc[h] = "index"
    /\ index' = Append(index, Len(log))
    /\ Goto(h, "done")
    /\ UNCHANGED <<log, logTorn, ids, idsTorn, indexTorn,
                   lock, arg, caches, returned>>

ReturnNew(h) ==
    /\ pc[h] = "done"
    /\ known' = [known EXCEPT ![h] =
                    [e \in DOMAIN @ \cup {arg[h]} |->
                        IF e = arg[h] THEN Count ELSE @[e]]]
    /\ offset' = [offset EXCEPT ![h] = FileSize]
    /\ returned' = returned \cup {<<arg[h], Count>>}
    /\ Release(h)
    /\ UNCHANGED files

-----------------------------------------------------------------------------
(* Faults.  A write may leave only part of its piece behind: the disk is   *)
(* full, or the process dies inside write().                               *)

TearLog(h) ==
    /\ pc[h] = "lookup"
    /\ ~IsRepeat(h)
    /\ logTorn' = TRUE
    /\ Goto(h, "failed")
    /\ UNCHANGED <<log, ids, idsTorn, index, indexTorn,
                   lock, arg, caches, returned>>

TearIds(h) ==
    /\ pc[h] = "ids"
    /\ \E k \in 1..Len(arg[h]) : idsTorn' = idsTorn \o SubSeq(arg[h], 1, k)
    /\ Goto(h, "failed")
    /\ UNCHANGED <<log, logTorn, ids, index, indexTorn,
                   lock, arg, caches, returned>>

TearIndex(h) ==
    /\ pc[h] = "index"
    /\ indexTorn' = TRUE
    /\ Goto(h, "failed")
    /\ UNCHANGED <<log, logTorn, ids, idsTorn, index,
                   lock, arg, caches, returned>>

(* Mutant: the unlock is not in a finally clause.                          *)
RaiseHoldingLock(h) ==
    /\ pc[h] \in Locked
    /\ Goto(h, "idle")
    /\ arg' = [arg EXCEPT ![h] = NoEvent]
    /\ UNCHANGED <<files, lock, caches, returned>>

(* An OSError (or HistoryCorruptError) leaves append() from any of its     *)
(* file operations: the flock is released, the caches stay as they are.    *)
Raise(h) ==
    /\ pc[h] \in Locked
    /\ Release(h)
    /\ UNCHANGED <<files, caches, returned>>

(* The process dies anywhere; the kernel drops its flock, and the process  *)
(* that replaces it opens a handle with empty caches.                      *)
Crash(h) ==
    /\ Goto(h, "idle")
    /\ lock' = IF lock = h THEN NoHandle ELSE lock
    /\ arg' = [arg EXCEPT ![h] = NoEvent]
    /\ Invalidate(h)
    /\ UNCHANGED <<files, returned>>

-----------------------------------------------------------------------------
Recover(h) ==
    RecoverRagged(h) \/ RecoverReset(h) \/ RecoverClean(h)
        \/ CommitTail(h) \/ TruncateLog(h)

(* The steps a running append takes while nothing goes wrong.              *)
Work(h) ==
    \/ Recover(h)
    \/ Dedupe(h) \/ Rebuild(h)
    \/ ReturnExisting(h)
    \/ WriteLog(h) \/ WriteIds(h) \/ WriteIndex(h) \/ ReturnNew(h)

Fault(h) ==
    \/ TearTail(h) \/ TearLog(h) \/ TearIds(h) \/ TearIndex(h)
    \/ Raise(h) \/ Crash(h)

Next ==
    \E h \in Handle :
        \/ \E e \in Event : Request(h, e)
        \/ Acquire(h)
        \/ Work(h)
        \/ Fault(h)

Spec == Init /\ [][Next]_vars

(* A process that is not interrupted goes on running, a failed one raises, *)
(* and the kernel serves the waiters of a flock in turn.  Nothing forces a *)
(* fault or a new request.                                                 *)
Fairness ==
    \A h \in Handle :
        /\ WF_vars(Work(h))
        /\ WF_vars(pc[h] = "failed" /\ Raise(h))
        /\ SF_vars(Acquire(h))

FairSpec == Spec /\ Fairness

-----------------------------------------------------------------------------
(* Types.  returned holds only pairs of an event and a sequence.           *)
TypeOK ==
    /\ log \in Seq(Record) /\ logTorn \in BOOLEAN
    /\ ids \in Seq(Seq(Byte)) /\ idsTorn \in Seq(Byte)
    /\ index \in Seq(Nat) /\ indexTorn \in BOOLEAN
    /\ lock \in Handle \cup {NoHandle}
    /\ pc \in [Handle -> Locked \cup {"idle", "wait"}]
    /\ arg \in [Handle -> Event \cup {NoEvent}]
    /\ known = [h \in Handle |-> known[h]]
    /\ \A h \in Handle :
           /\ DOMAIN known[h] \subseteq Seq(Byte)
           /\ known[h] \in [DOMAIN known[h] -> Nat]
           /\ arg[h] = NoEvent <=> pc[h] = "idle"
    /\ offset \in [Handle -> Nat]
    /\ returned \subseteq Event \X Nat

(* An answer is a promise: once append() has returned seq for an event,    *)
(* that event is committed at seq, whoever crashes and whatever recovery   *)
(* does afterwards (append 151-185, _recover 297-321).                     *)
AnswersHold ==
    \A a \in returned : a[2] \in 1..Count /\ log[index[a[2]]].id = a[1]

(* No event takes a second sequence, and every committed record is the one *)
(* its number says, so no reader meets HistoryCorruptError: the claim of   *)
(* the module's Concurrency section, for any number of processes.          *)
CommittedExact ==
    /\ Readable
    /\ \A i, j \in 1..Count : log[index[i]].id = log[index[j]].id => i = j

(* Two callers that append the same event are told the same sequence       *)
(* (history/backend.py 181-186: "Idempotent on Envelope.id").              *)
AppendIdempotent ==
    \A a, b \in returned : a[1] = b[1] => a[2] = b[2]

(* "Committed records are never touched": no step of any process, recovery *)
(* and sidecar rebuilds included, removes, moves or changes a record once  *)
(* its index entry is on disk.                                             *)
CommittedNeverTouched ==
    [][/\ Count <= Count'
       /\ \A i \in 1..Count : log'[index'[i]] = log[index[i]]]_vars

(* The store implements its contract: the committed records are the        *)
(* abstract history, and every commit adds one event that was not there.   *)
History == INSTANCE HistoryStore WITH history <- CommittedIds

ImplementsHistory == History!Spec

(* A process waiting for the flock gets it, even when holders crash or     *)
(* raise with it: a dead writer never wedges the store.                    *)
WaiterServed == \A h \in Handle : pc[h] = "wait" ~> pc[h] # "wait"

-----------------------------------------------------------------------------
(* The inductive invariant.  The log is numbered and has no event twice;   *)
(* ids.txt is a prefix of what it says; a cache is a prefix of the sidecar *)
(* and its offset the end of a line; a handle past recovery sees a clean   *)
(* log.  As long as nobody deletes the index, the log is ahead of it by at *)
(* most one record.                                                        *)

LogInv ==
    /\ Count <= Len(log)
    /\ \A i \in 1..Count : index[i] = i
    /\ \A i \in 1..Len(log) : log[i].seq = i
    /\ \A i, j \in 1..Len(log) : log[i].id = log[j].id => i = j

IdsInv ==
    /\ Len(ids) <= Len(log)
    /\ \A i \in 1..Len(ids) : ids[i] = log[i].id
    /\ idsTorn # <<>> => Len(ids) < Len(log)

LogIds(n) == {log[i].id : i \in 1..n}

(* The cache of a handle that has read n lines.                            *)
HasRead(h, n) ==
    /\ offset[h] = EndOf(n)
    /\ DOMAIN known[h] = LogIds(n)
    /\ \A i \in 1..n : known[h][log[i].id] = i

CacheInv == \A h \in Handle : \E n \in 0..Len(ids) : HasRead(h, n)

LockInv == \A h \in Handle : pc[h] \in Locked <=> lock = h

Clean == ~logTorn /\ ~indexTorn

Phase(h) ==
    /\ pc[h] = "truncate" => ~indexTorn /\ Len(log) = Count
    /\ pc[h] \in {"dedupe", "rebuild", "lookup"} => Clean /\ Len(log) = Count
    /\ pc[h] \in {"lookup", "ids"} => Len(ids) = Count
    /\ pc[h] = "index" => Len(ids) = Count + 1
    /\ pc[h] \in {"lookup", "ids", "index"} => idsTorn = <<>> /\ HasRead(h, Count)
    /\ pc[h] \in {"ids", "index"} =>
           Clean /\ Len(log) = Count + 1 /\ log[Count + 1].id = arg[h]
    /\ pc[h] = "done" =>
           /\ Clean /\ idsTorn = <<>>
           /\ Len(log) = Count /\ Len(ids) = Count /\ Count # 0
           /\ log[Count].id = arg[h]
           /\ HasRead(h, Count - 1)

PhaseInv == \A h \in Handle : Phase(h)

AnswersLogged ==
    \A a \in returned : a[2] \in 1..Len(log) /\ log[a[2]].id = a[1]

ProtocolInv == LogInv /\ IdsInv /\ CacheInv /\ LockInv /\ PhaseInv /\ AnswersLogged

Ahead == Len(log) <= Count + 1

IInv == ProtocolInv /\ Ahead /\ AnswersHold
=============================================================================
