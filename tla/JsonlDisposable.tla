-------------------------- MODULE JsonlDisposable --------------------------
(***************************************************************************)
(* JsonlReaders in a directory where somebody deletes the sidecars:        *)
(* "Both sidecars are derived and disposable: delete them and the next     *)
(* write rebuilds them from the log" (jsonl.py 20-21).  With ids.txt gone  *)
(* while a handle remembers how far it had read it, get() meets lines that *)
(* disagree with the log and rebuilds the file, without the flock, under   *)
(* the feet of running writers.                                            *)
(***************************************************************************)
EXTENDS JsonlReaders

CONSTANTS
    MaxDeletes,     \* bound on the number of deletions
    MaxRecords      \* bound on the records of the log, events stored twice included

ASSUME MaxDeletesAssumption == MaxDeletes \in Nat

VARIABLES
    deletes,        \* how many deletions there have been
    underfoot       \* whether ids.txt was deleted while a handle had read it

disposableVars == <<allVars, deletes, underfoot>>

(* A careful operator: no append is inside the lock and nobody is reading. *)
Quiet ==
    /\ lock = NoHandle
    /\ \A r \in Reader : rpc[r] = "idle"
    /\ \A g \in Getter : gpc[g] = "idle"

DeleteIds ==
    /\ ids' = <<>> /\ idsTorn' = <<>>
    /\ underfoot' = (underfoot \/ \E h \in Handle : offset[h] # 0)
    /\ UNCHANGED <<index, indexTorn>>

DeleteIndex ==
    /\ index' = <<>> /\ indexTorn' = FALSE
    /\ UNCHANGED <<ids, idsTorn, underfoot>>

Delete ==
    /\ Quiet
    /\ deletes < MaxDeletes
    /\ deletes' = deletes + 1
    /\ DeleteIds \/ DeleteIndex
    /\ UNCHANGED <<log, logTorn, writerVars, readVars, getVars>>

DisposableNext ==
    \/ /\ ReadersNext
       /\ Len(log') <= MaxRecords
       /\ UNCHANGED <<deletes, underfoot>>
    \/ Delete

DisposableInit == ReadersInit /\ deletes = 0 /\ underfoot = FALSE

DisposableSpec == DisposableInit /\ [][DisposableNext]_disposableVars

-----------------------------------------------------------------------------
(* Sidecars may be lost, and rebuilt without the lock, again and again:    *)
(* every record keeps its number.  And as long as no handle had read the   *)
(* ids.txt that was lost (the index may go at any time), no event is ever  *)
(* stored twice, and what an append answers is its event's place in the    *)
(* log (_dedupe_map 212-231, _read_ids 233-256, _recover 297-320).         *)
LogDecides ==
    /\ \A i \in 1..Len(log) : log[i].seq = i
    /\ ~underfoot =>
           /\ \A i, j \in 1..Len(log) : log[i].id = log[j].id => i = j
           /\ AnswersLogged

(* No event is stored twice, whatever is deleted: "disposable".            *)
StoredOnce ==
    \A i, j \in 1..Len(log) : log[i].id = log[j].id => i = j

(* Until somebody deletes a sidecar, get() finds every event some append   *)
(* had answered for before it was called, although it takes no lock and    *)
(* trusts a sidecar (jsonl.py 435-446).                                    *)
FoundWhileWhole == deletes = 0 => GetFindsAnswered

(* The write that follows a deletion has rebuilt ids.txt by the time it is *)
(* committed: jsonl.py 20-21, quoted above.                                *)
NextWriteRebuilds ==
    \A h \in Handle : pc[h] = "done" => ids = CommittedIds
=============================================================================
