---------------------------- MODULE JsonlReaders ----------------------------
(***************************************************************************)
(* The lock-free read path of history/jsonl.py beside running writers:     *)
(* read(sub, since, max), resumed from the cursor its last page returned,  *)
(* and get(id) with its sidecar repair.  Neither takes the flock, so their *)
(* file accesses are separate steps that interleave with every step of an  *)
(* append.                                                                 *)
(***************************************************************************)
EXTENDS JsonlBackend

CONSTANTS
    Reader,         \* processes that page through the log with read()
    Getter,         \* processes that look events up with get()
    PageMax         \* read()'s max

ASSUME PageMaxAssumption == PageMax \in Nat \ {0}

VARIABLES
    rpc,            \* reader: "idle", "read" (count taken), "corrupt"
    snap,           \* reader: the count read() took, while it runs
    cursor,         \* reader: the cursor of its last page, its next since
    pages,          \* reader: the ids of every page so far, in order
    gpc,            \* getter: the step get() is about to take
    want,           \* getter: the id it was asked for
    place,          \* getter: the position ids.txt gave for it
    gathered,       \* getter: the committed ids an unlocked rebuild collected
    repaired,       \* getter: whether it has rebuilt the sidecar
    owed,           \* getter: "answered" or "committed" when get() was called,
                    \*         or "nothing"
    answer          \* getter: what get() returned last

readVars == <<rpc, snap, cursor, pages>>
getVars == <<gpc, want, place, gathered, repaired, owed, answer>>
allVars == <<log, logTorn, ids, idsTorn, index, indexTorn,
             lock, pc, arg, known, offset, returned,
             rpc, snap, cursor, pages,
             gpc, want, place, gathered, repaired, owed, answer>>

ReadersInit ==
    /\ Init
    /\ rpc = [r \in Reader |-> "idle"]
    /\ snap = [r \in Reader |-> 0]
    /\ cursor = [r \in Reader |-> 0]
    /\ pages = [r \in Reader |-> <<>>]
    /\ gpc = [g \in Getter |-> "idle"]
    /\ want = [g \in Getter |-> NoEvent]
    /\ place = [g \in Getter |-> 0]
    /\ gathered = [g \in Getter |-> <<>>]
    /\ repaired = [g \in Getter |-> FALSE]
    /\ owed = [g \in Getter |-> "nothing"]
    /\ answer = [g \in Getter |-> "none yet"]

-----------------------------------------------------------------------------
(* read(): count, then spans, then records.  With since >= count the page  *)
(* is empty and the cursor stays, which changes nothing here.              *)

Smaller(m, n) == IF m < n THEN m ELSE n

ReadCount(r) ==
    /\ rpc[r] = "idle"
    /\ cursor[r] < Count
    /\ snap' = [snap EXCEPT ![r] = Count]
    /\ rpc' = [rpc EXCEPT ![r] = "read"]
    /\ UNCHANGED <<cursor, pages>>

(* The sequences of the page: as many as wanted, as the index now has.     *)
PageSeqs(r) ==
    LET wanted == Smaller(PageMax, snap[r] - cursor[r])
    IN  (cursor[r] + 1)..Smaller(cursor[r] + wanted, Count)

Intact(s) == index[s] \in 1..Len(log) /\ log[index[s]].seq = s

(* One record that is not the one its index entry promises raises          *)
(* HistoryCorruptError, and the reader gets no page.                       *)
ReadRecords(r) ==
    /\ rpc[r] = "read"
    /\ LET intact == \A s \in PageSeqs(r) : Intact(s)
           page == [i \in 1..Cardinality(PageSeqs(r)) |->
                       log[index[cursor[r] + i]].id]
       IN  /\ pages' = [pages EXCEPT ![r] = IF intact THEN @ \o page ELSE @]
           /\ cursor' = [cursor EXCEPT ![r] = IF intact THEN @ + Len(page) ELSE @]
           /\ rpc' = [rpc EXCEPT ![r] = IF intact THEN "idle" ELSE "corrupt"]
    /\ snap' = [snap EXCEPT ![r] = 0]

Read(r) == ReadCount(r) \/ ReadRecords(r)

-----------------------------------------------------------------------------
(* get(): scan ids.txt, verify against the record, repair at most once.    *)

GetGoto(g, label) == gpc' = [gpc EXCEPT ![g] = label]

Finish(g, result) ==
    /\ answer' = [answer EXCEPT ![g] = result]
    /\ want' = [want EXCEPT ![g] = NoEvent]
    /\ place' = [place EXCEPT ![g] = 0]
    /\ gathered' = [gathered EXCEPT ![g] = <<>>]
    /\ repaired' = [repaired EXCEPT ![g] = FALSE]
    /\ GetGoto(g, "idle")

GetCall(g, e) ==
    /\ gpc[g] = "idle"
    /\ want' = [want EXCEPT ![g] = e]
    /\ owed' = [owed EXCEPT ![g] =
                    IF \E a \in returned : a[1] = e THEN "answered"
                    ELSE IF \E i \in 1..Count : CommittedIds[i] = e THEN "committed"
                    ELSE "nothing"]
    /\ answer' = [answer EXCEPT ![g] = "none yet"]
    /\ GetGoto(g, "scan")
    /\ UNCHANGED <<place, gathered, repaired>>

(* The lines of ids.txt that the count admits.  Count and lines are read   *)
(* one after the other; both only grow between them unless a sidecar is    *)
(* replaced, and then the verification below decides.                      *)
Candidates(g) ==
    {i \in 1..Smaller(Len(ids), Count) : ids[i] = want[g]}

GetScan(g) ==
    /\ gpc[g] = "scan"
    /\ \E i \in Candidates(g) :
           /\ \A j \in Candidates(g) : i <= j
           /\ place' = [place EXCEPT ![g] = i]
    /\ GetGoto(g, "fetch")
    /\ UNCHANGED <<want, gathered, repaired, owed, answer>>

GetMiss(g) ==
    /\ gpc[g] = "scan"
    /\ Candidates(g) = {}
    /\ Finish(g, "not found")
    /\ UNCHANGED owed

Agrees(g) == place[g] <= Count /\ log[index[place[g]]].id = want[g]

(* The second look is the last: it answers or raises HistoryCorruptError.  *)
GetVerified(g) ==
    /\ gpc[g] = "fetch"
    /\ Agrees(g) \/ repaired[g]
    /\ Finish(g, IF Agrees(g) THEN "found" ELSE "corrupt")
    /\ UNCHANGED owed

GetStale(g) ==
    /\ gpc[g] = "fetch"
    /\ ~Agrees(g)
    /\ ~repaired[g]
    /\ GetGoto(g, "gather")
    /\ UNCHANGED <<want, place, gathered, repaired, owed, answer>>

(* _rebuild_ids without the flock: collect, then replace.                  *)
GetGather(g) ==
    /\ gpc[g] = "gather"
    /\ gathered' = [gathered EXCEPT ![g] = CommittedIds]
    /\ GetGoto(g, "replace")
    /\ UNCHANGED <<want, place, repaired, owed, answer>>

GetReplace(g) ==
    /\ gpc[g] = "replace"
    /\ ids' = gathered[g]
    /\ idsTorn' = <<>>
    /\ repaired' = [repaired EXCEPT ![g] = TRUE]
    /\ GetGoto(g, "scan")
    /\ UNCHANGED <<log, logTorn, index, indexTorn,
                   want, place, gathered, owed, answer>>

GetOnDisk(g) ==
    \/ \E e \in Event : GetCall(g, e)
    \/ GetScan(g) \/ GetMiss(g) \/ GetVerified(g) \/ GetStale(g)
    \/ GetGather(g)

-----------------------------------------------------------------------------
writerVars == <<lock, pc, arg, known, offset, returned>>

ReadersNext ==
    \/ Next /\ UNCHANGED <<readVars, getVars>>
    \/ \E r \in Reader : Read(r) /\ UNCHANGED <<vars, getVars>>
    \/ \E g \in Getter : GetOnDisk(g) /\ UNCHANGED <<vars, readVars>>
    \/ \E g \in Getter : GetReplace(g) /\ UNCHANGED <<writerVars, readVars>>

ReadersSpec == ReadersInit /\ [][ReadersNext]_allVars

-----------------------------------------------------------------------------
(* Readers take no lock and lose nothing by it: the pages a reader has had *)
(* so far, put end to end, are the first cursor records of the log, each   *)
(* once and in order, and no read met a damaged record.                    *)
PagesAreHistory ==
    \A r \in Reader :
        /\ rpc[r] # "corrupt"
        /\ Len(pages[r]) = cursor[r]
        /\ cursor[r] <= Len(log)
        /\ \A i \in 1..cursor[r] : pages[r][i] = log[i].id

(* An event some append had answered for before get() was called is found. *)
GetFindsAnswered ==
    \A g \in Getter :
        owed[g] = "answered" => answer[g] \in {"none yet", "found"}

(* An event that read() already returned when get() was called is found:   *)
(* history/backend.py 191-192, "The record for event id from any           *)
(* subscription, or None".                                                 *)
GetFindsCommitted ==
    \A g \in Getter :
        owed[g] # "nothing" => answer[g] \in {"none yet", "found"}
=============================================================================
