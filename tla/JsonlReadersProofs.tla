------------------------- MODULE JsonlReadersProofs -------------------------
(***************************************************************************)
(* Proofs about the readers that take no lock (read, get) and about a      *)
(* directory where sidecars are deleted, for any number of writers,        *)
(* readers, getters, events and deletions.                                 *)
(*                                                                         *)
(* They stand on three layers.  Whatever is deleted, the log is numbered   *)
(* and readers see its start.  While no handle had read the ids.txt that   *)
(* was lost, the protocol's own invariant holds, and nobody rebuilds       *)
(* without the lock.  Until the first deletion, what was answered for is   *)
(* committed, listed and found.                                            *)
(***************************************************************************)
EXTENDS JsonlDisposable, JsonlRecoveryProofs

-----------------------------------------------------------------------------
(* Whatever is deleted and whoever rebuilds.                               *)

(* No index entry lies beyond the log.                                     *)
Described == Count <= Len(log)

(* What an unlocked rebuild has gathered is the start of the log.          *)
GatheredOK ==
    /\ gpc \in [Getter -> {"idle", "scan", "fetch", "gather", "replace"}]
    /\ gathered \in [Getter -> Seq(Event)]
    /\ \A g \in Getter :
           /\ Len(gathered[g]) <= Count
           /\ \A i \in 1..Len(gathered[g]) : gathered[g][i] = log[i].id
           /\ gpc[g] = "idle" => gathered[g] = <<>>

(* What holds whoever deletes a sidecar or rebuilds it without the lock.   *)
LInv == RecoveryInv /\ Described /\ IdsTyped /\ GatheredOK

(* A reader's pages are the start of the log, and the count it took is     *)
(* one the index has reached.                                              *)
ReadOK ==
    /\ rpc \in [Reader -> {"idle", "read"}]
    /\ snap \in [Reader -> Nat] /\ cursor \in [Reader -> Nat]
    /\ pages \in [Reader -> Seq(Event)]
    /\ \A r \in Reader :
           /\ Len(pages[r]) = cursor[r] /\ cursor[r] <= Len(log)
           /\ \A i \in 1..cursor[r] : pages[r][i] = log[i].id
           /\ rpc[r] = "read" => cursor[r] < snap[r] /\ snap[r] <= Count

(* The types of a lookup's state.                                          *)
LookupsTyped ==
    /\ want \in [Getter -> Event \cup {NoEvent}] /\ place \in [Getter -> Nat]
    /\ owed \in [Getter -> {"nothing", "committed", "answered"}]
    /\ answer \in [Getter -> {"none yet", "found", "not found", "corrupt"}]

-----------------------------------------------------------------------------
(* While nobody pulled ids.txt from under a handle.                        *)

(* A lookup in flight holds the position of its event, and rebuilds        *)
(* nothing.                                                                *)
Sound(g) ==
    /\ gpc[g] \in {"idle", "scan", "fetch"}
    /\ gpc[g] = "fetch" => place[g] \in 1..Count /\ log[place[g]].id = want[g]

LookupsSound == \A g \in Getter : Sound(g)

(* The commit protocol's own invariant holds too.                          *)
FootInv == ~underfoot => PInv /\ LookupsSound

-----------------------------------------------------------------------------
(* Until the first deletion.                                               *)

(* What has been answered for is listed in ids.txt.                        *)
AnsweredListed == \A a \in returned : a[2] <= Len(ids)

(* An answered event is not missed.                                        *)
Settled(g) ==
    /\ gpc[g] # "idle" => answer[g] = "none yet"
    /\ gpc[g] # "idle" /\ owed[g] = "answered" => \E a \in returned : a[1] = want[g]
    /\ gpc[g] = "idle" /\ owed[g] = "answered" => answer[g] \in {"none yet", "found"}

LookupsSettled == \A g \in Getter : Settled(g)

WholeInv ==
    deletes = 0 => ~underfoot /\ Inv /\ AnsweredListed /\ LookupsSettled

(* The inductive invariant of a directory with readers and deletions.      *)
DInv == LInv /\ ReadOK /\ LookupsTyped /\ FootInv /\ WholeInv

-----------------------------------------------------------------------------
(* What a step of a writer does to the log, as far as readers can see.     *)
LogKept ==
    /\ Len(log) <= Len(log') /\ Count <= Count'
    /\ \A i \in 1..Len(log) : log'[i] = log[i]

(* Writers append to the log and to the index, and never index more than   *)
(* there is.                                                               *)
LEMMA WriterKeepsLog ==
    ASSUME RecoveryInv, Described, [Next]_vars
    PROVE  LogKept /\ Described'
<1>0. /\ log \in Seq(Record) /\ index \in Seq(Nat) /\ Count \in Nat
      /\ Len(log) \in Nat /\ CommittedEnd = Count /\ Count <= Len(log)
  BY EndOfIndex DEF RecoveryInv, FilesOK, Described
<1>1. CASE UNCHANGED <<log, index>>
  BY <1>0, <1>1 DEF LogKept, Described, Count
<1>2. CASE UNCHANGED vars
  BY <1>1, <1>2 DEF vars
<1>3. ASSUME NEW h \in Handle, RecoverReset(h)
      PROVE  FALSE
  BY <1>0, <1>3 DEF RecoverReset
<1>4. ASSUME NEW n \in Nat, index' = index \o TailEntries(n), log' = log,
             Count + n <= Len(log)
      PROVE  LogKept /\ Described'
  <2>1. Count' = Count + n
    BY <1>4, LongerTail DEF RecoveryInv
  <2>2. QED
    BY <1>0, <1>4, <2>1 DEF LogKept, Described
<1>5. ASSUME NEW h \in Handle, CommitTail(h)
      PROVE  LogKept /\ Described'
  <2>1. Len(log) - Count \in Nat /\ Count + (Len(log) - Count) <= Len(log)
    BY <1>0
  <2>2. QED
    BY <1>0, <1>4, <1>5, <2>1 DEF CommitTail
<1>6. ASSUME NEW h \in Handle, TearTail(h)
      PROVE  LogKept /\ Described'
  <2>1. PICK n \in 0..(Len(log) - CommittedEnd - 1) :
            index' = index \o TailEntries(n)
    BY <1>6 DEF TearTail
  <2>2. n \in Nat /\ Count + n <= Len(log)
    BY <1>0, <2>1
  <2>3. QED
    BY <1>4, <1>6, <2>1, <2>2 DEF TearTail
<1>7. ASSUME NEW h \in Handle, WriteLog(h)
      PROVE  LogKept /\ Described'
  <2>1. /\ log' = Append(log, [seq |-> Count + 1, id |-> arg[h]])
        /\ index' = index
    BY <1>7 DEF WriteLog
  <2>2. Len(log') = Len(log) + 1 /\ \A i \in 1..Len(log) : log'[i] = log[i]
    BY <1>0, <2>1
  <2>3. QED
    BY <1>0, <2>1, <2>2 DEF LogKept, Described, Count
<1>8. ASSUME NEW h \in Handle, WriteIndex(h)
      PROVE  LogKept /\ Described'
  <2>1. Len(log) = Count + 1
    BY <1>8 DEF WriteIndex, RecoveryInv, Recovered
  <2>2. log' = log /\ Len(index') = Count + 1
    BY <1>0, <1>8 DEF WriteIndex, Count
  <2>3. QED
    BY <1>0, <2>1, <2>2 DEF LogKept, Described, Count
<1>9. ASSUME NEW h \in Handle,
             \/ \E e \in Event : Request(h, e)
             \/ Acquire(h) \/ RecoverRagged(h) \/ RecoverClean(h)
             \/ TruncateLog(h) \/ Dedupe(h) \/ Rebuild(h) \/ ReturnExisting(h)
             \/ WriteIds(h) \/ ReturnNew(h) \/ TearLog(h) \/ TearIds(h)
             \/ TearIndex(h) \/ Raise(h) \/ Crash(h)
      PROVE  UNCHANGED <<log, index>>
  BY <1>9 DEF Request, Acquire, RecoverRagged, RecoverClean, TruncateLog,
         Dedupe, Rebuild, ReturnExisting, WriteIds, ReturnNew, TearLog, TearIds,
         TearIndex, Raise, Crash, files
<1>10. QED
  BY <1>1, <1>2, <1>3, <1>5, <1>6, <1>7, <1>8, <1>9 DEF Next, Work, Recover, Fault

-----------------------------------------------------------------------------
(* Readers and getters.                                                    *)

(* Nothing a getter or a reader does changes the log, the index or where a *)
(* writer is.                                                              *)
LEMMA RecoveryUntouched ==
    ASSUME RecoveryInv,
           UNCHANGED <<log, logTorn, index, indexTorn, lock, pc, arg>>
    PROVE  RecoveryInv'
  BY DEF RecoveryInv, FilesOK, HandlesOK, LockInv, Numbered, Recovered, Clean, Count

(* A step that leaves the log and its index alone.                         *)
LEMMA SameLogKept ==
    ASSUME RecoveryInv, UNCHANGED <<log, index>>
    PROVE  LogKept
  BY EndOfIndex DEF RecoveryInv, LogKept, Count

(* A log that grows leaves what was gathered its start.                    *)
LEMMA GatheredKept ==
    ASSUME RecoveryInv, RecoveryInv', Described, GatheredOK, LogKept,
           UNCHANGED <<gathered, gpc>>
    PROVE  GatheredOK'
<1>1. Count \in Nat /\ Count' \in Nat /\ Len(log) \in Nat /\ Len(log') \in Nat
      /\ Count <= Len(log)
  BY DEF RecoveryInv, FilesOK, Count, Described
<1>2. ASSUME NEW g \in Getter
      PROVE  /\ Len(gathered[g]) <= Count'
             /\ \A i \in 1..Len(gathered[g]) : gathered[g][i] = log'[i].id
  <2>1. Len(gathered[g]) \in Nat /\ Len(gathered[g]) <= Count
    BY DEF GatheredOK
  <2>2. \A i \in 1..Len(gathered[g]) : i \in 1..Len(log)
    BY <1>1, <2>1
  <2>3. QED
    BY <1>1, <2>1, <2>2 DEF GatheredOK, LogKept
<1>3. QED
  BY <1>2 DEF GatheredOK

(* The committed ids are the first ids of the log.                         *)
LEMMA CommittedAreFirst ==
    ASSUME RecoveryInv, Described
    PROVE  /\ CommittedIds \in Seq(Event) /\ Len(CommittedIds) = Count
           /\ \A i \in 1..Count : CommittedIds[i] = log[i].id
<1>1. log \in Seq(Record) /\ Count \in Nat /\ Count <= Len(log) /\ Len(log) \in Nat
  BY EndOfIndex DEF RecoveryInv, FilesOK, Described
<1>2. \A i \in 1..Count : index[i] = i /\ log[i] \in Record
  BY <1>1 DEF RecoveryInv, Numbered
<1>3. \A i \in 1..Count : log[index[i]].id \in Event /\ log[index[i]].id = log[i].id
  BY <1>2 DEF Record
<1>4. QED
  BY <1>1, <1>3 DEF CommittedIds

(* Writers leave a text in ids.txt, whatever it says.                      *)
LEMMA SidecarTyped ==
    ASSUME RecoveryInv, Described, IdsTyped, [Next]_vars
    PROVE  IdsTyped'
<1> USE DEF IdsTyped
<1>1. ASSUME NEW h \in Handle, pc[h] = "ids"
      PROVE  arg[h] \in Seq(Byte)
  <2>1. arg[h] \in Event
    BY <1>1 DEF RecoveryInv, HandlesOK
  <2>2. QED
    BY <2>1, IdAssumption
<1>2. ASSUME NEW h \in Handle, WriteIds(h)
      PROVE  IdsTyped'
  <2>1. /\ pc[h] = "ids" /\ ids' = Append(ids, idsTorn \o arg[h]) /\ idsTorn' = <<>>
    BY <1>2 DEF WriteIds
  <2>2. idsTorn \o arg[h] \in Seq(Byte)
    BY <1>1, <2>1, ConcatProperties
  <2>3. ids' \in Seq(Seq(Byte)) /\ idsTorn' \in Seq(Byte)
    BY <2>1, <2>2, AppendProperties
  <2>4. QED
    BY <2>3
<1>3. ASSUME NEW h \in Handle, TearIds(h)
      PROVE  IdsTyped'
  <2>1. PICK k \in 1..Len(arg[h]) :
            pc[h] = "ids" /\ ids' = ids /\ idsTorn' = idsTorn \o SubSeq(arg[h], 1, k)
    BY <1>3 DEF TearIds
  <2>2. SubSeq(arg[h], 1, k) \in Seq(Byte)
    BY <1>1, <2>1, SubSeqProperties
  <2>3. idsTorn' \in Seq(Byte)
    BY <2>1, <2>2, ConcatProperties
  <2>4. QED
    BY <2>1, <2>3
<1>4. ASSUME NEW h \in Handle, Rebuild(h)
      PROVE  IdsTyped'
  <2>1. ids' = CommittedIds /\ idsTorn' = <<>>
    BY <1>4 DEF Rebuild
  <2>2. /\ CommittedIds \in Seq(Event) /\ Event \subseteq Seq(Byte)
    BY CommittedAreFirst, IdAssumption
  <2>3. CommittedIds \in Seq(Seq(Byte))
    BY <2>2
  <2>4. QED
    BY <2>1, <2>3
<1>5. CASE UNCHANGED vars
  BY <1>5 DEF vars
<1>6. ASSUME NEW h \in Handle,
             \/ \E e \in Event : Request(h, e)
             \/ Acquire(h) \/ RecoverRagged(h) \/ RecoverReset(h) \/ RecoverClean(h)
             \/ CommitTail(h) \/ TruncateLog(h) \/ Dedupe(h) \/ ReturnExisting(h)
             \/ WriteLog(h) \/ WriteIndex(h) \/ ReturnNew(h) \/ TearTail(h)
             \/ TearLog(h) \/ TearIndex(h) \/ Raise(h) \/ Crash(h)
      PROVE  IdsTyped'
  <2>1. UNCHANGED <<ids, idsTorn>>
    BY <1>6 DEF Request, Acquire, RecoverRagged, RecoverReset, RecoverClean,
           CommitTail, TruncateLog, Dedupe, ReturnExisting, WriteLog, WriteIndex,
           ReturnNew, TearTail, TearLog, TearIndex, Raise, Crash, files
  <2>2. QED
    BY <2>1
<1>7. QED
  BY <1>2, <1>3, <1>4, <1>5, <1>6 DEF Next, Work, Recover, Fault

(* get(): its own steps.                                                   *)
LEMMA GetterGathered ==
    ASSUME RecoveryInv, Described, GatheredOK, NEW g \in Getter,
           GetOnDisk(g) \/ GetReplace(g), UNCHANGED <<log, index>>
    PROVE  GatheredOK'
<1>0. /\ gpc \in [Getter -> {"idle", "scan", "fetch", "gather", "replace"}]
      /\ gathered \in [Getter -> Seq(Event)] /\ Count' = Count /\ Count \in Nat
  BY EndOfIndex DEF GatheredOK, RecoveryInv, Count
<1>1. ASSUME NEW s \in Seq(Event), NEW to \in {"idle", "scan", "fetch", "gather", "replace"},
             gathered' = [gathered EXCEPT ![g] = s], GetGoto(g, to),
             Len(s) <= Count, \A i \in 1..Len(s) : s[i] = log[i].id,
             to = "idle" => s = <<>>
      PROVE  GatheredOK'
  <2>1. gpc' = [gpc EXCEPT ![g] = to]
    BY <1>1 DEF GetGoto
  <2>2. \A k \in Getter : /\ gathered'[k] = IF k = g THEN s ELSE gathered[k]
                          /\ gpc'[k] = IF k = g THEN to ELSE gpc[k]
    BY <1>0, <1>1, <2>1
  <2>3. /\ gpc' \in [Getter -> {"idle", "scan", "fetch", "gather", "replace"}]
        /\ gathered' \in [Getter -> Seq(Event)]
    BY <1>0, <1>1, <2>1
  <2>4. ASSUME NEW k \in Getter
        PROVE  /\ Len(gathered'[k]) <= Count'
               /\ \A i \in 1..Len(gathered'[k]) : gathered'[k][i] = log'[i].id
               /\ gpc'[k] = "idle" => gathered'[k] = <<>>
    <3>1. CASE k = g
      BY <1>0, <1>1, <2>2, <3>1
    <3>2. CASE k # g
      BY <1>0, <2>2, <3>2 DEF GatheredOK
    <3>3. QED
      BY <3>1, <3>2
  <2>5. QED
    BY <2>3, <2>4 DEF GatheredOK
<1>2. CASE \/ \E e \in Event : GetCall(g, e)
           \/ GetScan(g) \/ GetStale(g) \/ GetReplace(g)
  <2>1. /\ gathered' = gathered
        /\ \E to \in {"scan", "fetch", "gather"} : GetGoto(g, to)
    BY <1>2 DEF GetCall, GetScan, GetStale, GetReplace
  <2>2. gathered' = [gathered EXCEPT ![g] = gathered[g]] /\ gathered[g] \in Seq(Event)
    BY <1>0, <2>1
  <2>3. QED
    BY <1>1, <2>1, <2>2 DEF GatheredOK
<1>3. CASE GetMiss(g) \/ GetVerified(g)
  <2>1. gathered' = [gathered EXCEPT ![g] = <<>>] /\ GetGoto(g, "idle")
    BY <1>3 DEF GetMiss, GetVerified, Finish
  <2> DEFINE none == <<>>
  <2>2. none \in Seq(Event) /\ Len(none) <= Count /\ 1..Len(none) = {}
    BY <1>0
  <2>3. gathered' = [gathered EXCEPT ![g] = none]
    BY <2>1
  <2>4. "idle" = "idle" => none = <<>>
    OBVIOUS
  <2> HIDE DEF none
  <2>5. QED
    BY <1>1, <2>1, <2>2, <2>3, <2>4
<1>4. CASE GetGather(g)
  <2>1. gathered' = [gathered EXCEPT ![g] = CommittedIds] /\ GetGoto(g, "replace")
    BY <1>4 DEF GetGather
  <2>2. /\ CommittedIds \in Seq(Event) /\ Len(CommittedIds) <= Count
        /\ \A i \in 1..Len(CommittedIds) : CommittedIds[i] = log[i].id
    BY <1>0, CommittedAreFirst
  <2>3. QED
    BY <1>1, <2>1, <2>2
<1>5. QED
  BY <1>2, <1>3, <1>4 DEF GetOnDisk

(* Deletion, at a quiet moment.                                            *)
LEMMA DeleteLoose ==
    ASSUME LInv, Delete
    PROVE  LInv'
<1>1. /\ lock = NoHandle /\ \A g \in Getter : gpc[g] = "idle"
      /\ UNCHANGED <<log, logTorn, lock, pc, arg, known, offset, gpc, gathered>>
      /\ \/ ids' = <<>> /\ idsTorn' = <<>> /\ UNCHANGED <<index, indexTorn>>
         \/ index' = <<>> /\ indexTorn' = FALSE /\ UNCHANGED <<ids, idsTorn>>
  BY DEF Delete, Quiet, writerVars, getVars, DeleteIds, DeleteIndex
<1>2. \A h \in Handle : pc[h] \notin Locked
  BY <1>1, NoHandleAssumption DEF LInv, RecoveryInv, LockInv
<1>3. FilesOK' /\ Numbered'
  <2>1. index' \in Seq(Nat) /\ indexTorn' \in BOOLEAN /\ (index' = index \/ Len(index') = 0)
    <3>1. index \in Seq(Nat) /\ indexTorn \in BOOLEAN
      BY DEF LInv, RecoveryInv, FilesOK
    <3>2. CASE index' = <<>> /\ indexTorn' = FALSE
      <4>1. index' \in Seq(Nat) /\ Len(index') = 0
        BY <3>2
      <4>2. indexTorn' \in BOOLEAN
        BY <3>2, Zenon
      <4>3. QED
        BY <4>1, <4>2
    <3>3. CASE index' = index /\ indexTorn' = indexTorn
      BY <3>1, <3>3
    <3>4. QED
      BY <1>1, <3>2, <3>3
  <2>2. FilesOK'
    BY <1>1, <2>1 DEF LInv, RecoveryInv, FilesOK
  <2>3. Numbered'
    BY <1>1, <2>1 DEF LInv, RecoveryInv, Numbered, Count
  <2>4. QED
    BY <2>2, <2>3
<1>4. RecoveryInv'
  <2>1. HandlesOK' /\ LockInv'
    BY <1>1 DEF LInv, RecoveryInv, HandlesOK, LockInv
  <2>2. Recovered'
    BY <1>1, <1>2 DEF Recovered, Locked
  <2>3. QED
    BY <1>3, <2>1, <2>2 DEF RecoveryInv
<1>5. Described' /\ IdsTyped'
  <2>1. Described'
    <3>1. index' = index \/ index' = <<>>
      BY <1>1
    <3>2. QED
      BY <1>1, <3>1 DEF LInv, RecoveryInv, FilesOK, Described, Count
  <2>2. IdsTyped'
    <3>1. CASE ids' = <<>> /\ idsTorn' = <<>>
      BY <3>1 DEF IdsTyped
    <3>2. CASE ids' = ids /\ idsTorn' = idsTorn
      BY <3>2 DEF LInv, IdsTyped
    <3>3. QED
      BY <1>1, <3>1, <3>2
  <2>3. QED
    BY <2>1, <2>2
<1>6. GatheredOK'
  <2>1. \A g \in Getter : gathered[g] = <<>>
    BY <1>1 DEF LInv, GatheredOK
  <2>2. Count' \in Nat
    BY <1>4 DEF RecoveryInv, FilesOK, Count
  <2>3. QED
    BY <1>1, <2>1, <2>2 DEF LInv, GatheredOK
<1>7. QED
  BY <1>4, <1>5, <1>6 DEF LInv

(* This layer holds whatever is deleted and rebuilt.                       *)
LEMMA LooseStep ==
    ASSUME LInv, [DisposableNext]_disposableVars
    PROVE  LInv' /\ (LogKept \/ Delete)
<1>0. RecoveryInv /\ Described /\ IdsTyped /\ GatheredOK
  BY DEF LInv
<1>1. ASSUME UNCHANGED <<log, logTorn, index, indexTorn, lock, pc, arg>>
      PROVE  RecoveryInv' /\ Described' /\ LogKept
  <2>1. RecoveryInv' /\ LogKept
    BY <1>0, <1>1, RecoveryUntouched, SameLogKept
  <2>2. QED
    BY <1>0, <1>1, <2>1 DEF Described, Count
<1>2. CASE UNCHANGED disposableVars
  <2>1. UNCHANGED vars /\ UNCHANGED <<gathered, gpc>>
    BY <1>2 DEF disposableVars, allVars, vars
  <2>2. RecoveryInv' /\ Described' /\ LogKept /\ IdsTyped'
    BY <1>0, <1>1, <2>1 DEF vars, IdsTyped
  <2>3. QED
    BY <1>0, <2>1, <2>2, GatheredKept DEF LInv
<1>3. CASE Next /\ UNCHANGED <<readVars, getVars>>
  <2>1. RecoveryInv' /\ Described' /\ LogKept /\ IdsTyped'
    BY <1>0, <1>3, RecoveryStep, WriterKeepsLog, SidecarTyped
  <2>2. QED
    BY <1>0, <1>3, <2>1, GatheredKept DEF LInv, getVars
<1>4. ASSUME NEW r \in Reader, Read(r), UNCHANGED <<vars, getVars>>
      PROVE  LInv' /\ LogKept
  <2>1. RecoveryInv' /\ Described' /\ LogKept /\ IdsTyped'
    BY <1>0, <1>1, <1>4 DEF vars, IdsTyped
  <2>2. QED
    BY <1>0, <1>4, <2>1, GatheredKept DEF LInv, getVars
<1>5. ASSUME NEW g \in Getter, GetOnDisk(g), UNCHANGED <<vars, readVars>>
      PROVE  LInv' /\ LogKept
  <2>1. RecoveryInv' /\ Described' /\ LogKept /\ IdsTyped'
    BY <1>0, <1>1, <1>5 DEF vars, IdsTyped
  <2>2. QED
    BY <1>0, <1>5, <2>1, GetterGathered DEF LInv, vars
<1>6. ASSUME NEW g \in Getter, GetReplace(g), UNCHANGED <<writerVars, readVars>>
      PROVE  LInv' /\ LogKept
  <2>1. UNCHANGED <<log, logTorn, index, indexTorn, lock, pc, arg>>
    BY <1>6 DEF GetReplace, writerVars
  <2>2. IdsTyped'
    <3>1. ids' = gathered[g] /\ idsTorn' = <<>>
      BY <1>6 DEF GetReplace
    <3>2. gathered[g] \in Seq(Event) /\ Event \subseteq Seq(Byte)
      BY <1>0, IdAssumption DEF GatheredOK
    <3>3. gathered[g] \in Seq(Seq(Byte))
      BY <3>2
    <3>4. QED
      BY <3>1, <3>3 DEF IdsTyped
  <2>3. QED
    BY <1>0, <1>1, <1>6, <2>1, <2>2, GetterGathered DEF LInv
<1>7. CASE Delete
  BY <1>7, DeleteLoose
<1>8. QED
  BY <1>2, <1>3, <1>4, <1>5, <1>6, <1>7 DEF DisposableNext, ReadersNext

-----------------------------------------------------------------------------
(* read(): the pages.                                                      *)

(* Records that stay where they are keep the pages true.                   *)
LEMMA PagesKept ==
    ASSUME ReadOK, LInv, LInv', LogKept, UNCHANGED readVars
    PROVE  ReadOK'
<1>1. Len(log) \in Nat /\ Len(log') \in Nat /\ Count \in Nat /\ Count' \in Nat
  BY DEF LInv, RecoveryInv, FilesOK, Count
<1>2. /\ rpc' = rpc /\ snap' = snap /\ cursor' = cursor /\ pages' = pages
  BY DEF readVars
<1>3. ASSUME NEW r \in Reader
      PROVE  /\ Len(pages[r]) = cursor[r] /\ cursor[r] <= Len(log')
             /\ \A i \in 1..cursor[r] : pages[r][i] = log'[i].id
             /\ rpc[r] = "read" => cursor[r] < snap[r] /\ snap[r] <= Count'
  <2>1. cursor[r] \in Nat /\ snap[r] \in Nat /\ cursor[r] <= Len(log)
    BY DEF ReadOK
  <2>2. QED
    BY <1>1, <2>1 DEF ReadOK, LogKept
<1>4. QED
  BY <1>2, <1>3 DEF ReadOK

(* How many positions there are after a, up to b.                          *)
LEMMA StretchLength ==
    ASSUME NEW a \in Nat, NEW b \in Nat, a + 1 <= b
    PROVE  Cardinality((a + 1)..b) = b - a
<1>1. a + 1 \in Int /\ b \in Int
  OBVIOUS
<1>2. Cardinality((a + 1)..b) = b - (a + 1) + 1
  BY <1>1, FS_Interval
<1>3. b - (a + 1) + 1 = b - a
  OBVIOUS
<1>4. QED
  BY <1>2, <1>3

(* The page read() assembles is the next stretch of the log.               *)
LEMMA NextPage ==
    ASSUME LInv, ReadOK, NEW r \in Reader, rpc[r] = "read",
           NEW n, n = Cardinality(PageSeqs(r)),
           NEW page, page = [i \in 1..n |-> log[index[cursor[r] + i]].id]
    PROVE  /\ n \in Nat /\ cursor[r] + n <= Count
           /\ \A s \in PageSeqs(r) : Intact(s)
           /\ page \in Seq(Event) /\ Len(page) = n
           /\ \A i \in 1..n : page[i] = log[cursor[r] + i].id
<1> DEFINE wanted == Smaller(PageMax, snap[r] - cursor[r])
           last == Smaller(cursor[r] + wanted, Count)
<1>0. /\ log \in Seq(Record) /\ Count \in Nat /\ Count <= Len(log) /\ Len(log) \in Nat
      /\ cursor[r] \in Nat /\ snap[r] \in Nat
      /\ cursor[r] < snap[r] /\ snap[r] <= Count
  BY EndOfIndex DEF LInv, RecoveryInv, FilesOK, Described, ReadOK
<1>1. wanted \in Nat /\ wanted >= 1
  BY <1>0, PageMaxAssumption DEF Smaller
<1>2. last \in Nat /\ cursor[r] + 1 <= last /\ last <= Count
  BY <1>0, <1>1 DEF Smaller
<1>3. PageSeqs(r) = (cursor[r] + 1)..last
  BY DEF PageSeqs
<1> HIDE DEF wanted, last
<1>4. n = last - cursor[r]
  <2>1. cursor[r] \in Nat /\ last \in Nat /\ cursor[r] + 1 <= last
    BY <1>0, <1>2
  <2>2. n = Cardinality((cursor[r] + 1)..last)
    BY <1>3
  <2>3. QED
    BY <2>1, <2>2, StretchLength
<1>5. \A s \in 1..Count : index[s] = s /\ log[s].seq = s /\ log[s] \in Record /\ s \in 1..Len(log)
  BY <1>0 DEF LInv, RecoveryInv, Numbered
<1>6. \A s \in PageSeqs(r) : Intact(s)
  <2>1. \A s \in PageSeqs(r) : s \in 1..Count
    BY <1>0, <1>2, <1>3
  <2>2. QED
    BY <1>5, <2>1 DEF Intact
<1>7. n \in Nat /\ cursor[r] + n <= Count
  BY <1>0, <1>2, <1>4
<1>8. ASSUME NEW i \in 1..n
      PROVE  /\ log[index[cursor[r] + i]].id = log[cursor[r] + i].id
             /\ log[cursor[r] + i].id \in Event
  <2>1. cursor[r] + i \in 1..Count
    BY <1>0, <1>7
  <2>2. QED
    BY <1>5, <2>1 DEF Record
<1>9. QED
  BY <1>6, <1>7, <1>8

(* read() keeps a reader's pages the start of the log.                     *)
LEMMA ReadStep ==
    ASSUME LInv, ReadOK, NEW r \in Reader, Read(r), UNCHANGED vars
    PROVE  ReadOK'
<1>0. /\ rpc \in [Reader -> {"idle", "read"}]
      /\ snap \in [Reader -> Nat] /\ cursor \in [Reader -> Nat]
      /\ pages \in [Reader -> Seq(Event)] /\ Count \in Nat /\ Len(log) \in Nat
      /\ Count <= Len(log) /\ log' = log /\ Count' = Count
  BY EndOfIndex DEF ReadOK, LInv, RecoveryInv, Described, vars, Count
<1>1. CASE ReadCount(r)
  <2>1. /\ rpc' \in [Reader -> {"idle", "read"}] /\ snap' \in [Reader -> Nat]
        /\ \A k \in Reader : /\ rpc'[k] = IF k = r THEN "read" ELSE rpc[k]
                             /\ snap'[k] = IF k = r THEN Count ELSE snap[k]
        /\ cursor' = cursor /\ pages' = pages /\ cursor[r] < Count
    <3>1. /\ rpc' = [rpc EXCEPT ![r] = "read"] /\ snap' = [snap EXCEPT ![r] = Count]
          /\ cursor' = cursor /\ pages' = pages /\ cursor[r] < Count
      BY <1>1 DEF ReadCount
    <3>2. /\ rpc' \in [Reader -> {"idle", "read"}] /\ snap' \in [Reader -> Nat]
      BY <1>0, <3>1
    <3>3. \A k \in Reader : rpc'[k] = IF k = r THEN "read" ELSE rpc[k]
      BY <1>0, <3>1
    <3>4. \A k \in Reader : snap'[k] = IF k = r THEN Count ELSE snap[k]
      BY <1>0, <3>1
    <3>5. QED
      BY <3>1, <3>2, <3>3, <3>4
  <2>2. ASSUME NEW k \in Reader
        PROVE  /\ Len(pages'[k]) = cursor'[k] /\ cursor'[k] <= Len(log)
               /\ \A i \in 1..cursor'[k] : pages'[k][i] = log[i].id
               /\ rpc'[k] = "read" => cursor'[k] < snap'[k] /\ snap'[k] <= Count
    <3>1. /\ Len(pages[k]) = cursor[k] /\ cursor[k] <= Len(log)
          /\ \A i \in 1..cursor[k] : pages[k][i] = log[i].id
          /\ rpc[k] = "read" => cursor[k] < snap[k] /\ snap[k] <= Count
      BY DEF ReadOK
    <3>2. CASE k = r
      <4>1. cursor'[k] = cursor[k] /\ pages'[k] = pages[k]
        BY <2>1
      <4>2. cursor'[k] < snap'[k] /\ snap'[k] <= Count
        BY <1>0, <2>1, <3>2
      <4>3. QED
        BY <3>1, <4>1, <4>2
    <3>3. CASE k # r
      BY <2>1, <3>1, <3>3
    <3>4. QED
      BY <3>2, <3>3
  <2>3. QED
    BY <1>0, <2>1, <2>2 DEF ReadOK
<1>2. CASE ReadRecords(r)
  <2> DEFINE n == Cardinality(PageSeqs(r))
             page == [i \in 1..n |-> log[index[cursor[r] + i]].id]
  <2>1. rpc[r] = "read" /\ snap' = [snap EXCEPT ![r] = 0]
    BY <1>2 DEF ReadRecords
  <2>2. /\ n \in Nat /\ cursor[r] + n <= Count
        /\ \A s \in PageSeqs(r) : Intact(s)
        /\ page \in Seq(Event) /\ Len(page) = n
        /\ \A i \in 1..n : page[i] = log[cursor[r] + i].id
    BY <2>1, NextPage
  <2>3. /\ pages' = [pages EXCEPT ![r] = @ \o page]
        /\ cursor' = [cursor EXCEPT ![r] = @ + Len(page)]
        /\ rpc' = [rpc EXCEPT ![r] = "idle"]
    BY <1>2, <2>2 DEF ReadRecords
  <2> HIDE DEF n, page
  <2>4. /\ pages[r] \in Seq(Event) /\ Len(pages[r]) = cursor[r] /\ cursor[r] \in Nat
        /\ \A i \in 1..cursor[r] : pages[r][i] = log[i].id
    BY <1>0 DEF ReadOK
  <2>5. /\ pages[r] \o page \in Seq(Event) /\ Len(pages[r] \o page) = cursor[r] + n
        /\ \A i \in 1..(cursor[r] + n) : (pages[r] \o page)[i] = log[i].id
    <3>1. /\ pages[r] \o page \in Seq(Event)
          /\ Len(pages[r] \o page) = Len(pages[r]) + Len(page)
          /\ \A i \in 1..(Len(pages[r]) + Len(page)) : (pages[r] \o page)[i] =
                 IF i <= Len(pages[r]) THEN pages[r][i] ELSE page[i - Len(pages[r])]
      BY <2>2, <2>4, ConcatProperties
    <3>2. ASSUME NEW i \in 1..(cursor[r] + n)
          PROVE  (pages[r] \o page)[i] = log[i].id
      <4>1. CASE i <= cursor[r]
        BY <2>2, <2>4, <3>1, <4>1
      <4>2. CASE ~(i <= cursor[r])
        <5>1. i - cursor[r] \in 1..n /\ cursor[r] + (i - cursor[r]) = i
          BY <2>2, <2>4, <4>2
        <5>2. (pages[r] \o page)[i] = page[i - cursor[r]]
          BY <2>2, <2>4, <3>1, <4>2
        <5>3. page[i - cursor[r]] = log[cursor[r] + (i - cursor[r])].id
          BY <2>2, <5>1
        <5>4. QED
          BY <5>1, <5>2, <5>3
      <4>3. QED
        BY <4>1, <4>2
    <3>3. QED
      BY <2>2, <2>4, <3>1, <3>2
  <2>6. /\ rpc' \in [Reader -> {"idle", "read"}] /\ cursor' \in [Reader -> Nat]
        /\ pages' \in [Reader -> Seq(Event)] /\ snap' \in [Reader -> Nat]
        /\ \A k \in Reader :
               /\ rpc'[k] = IF k = r THEN "idle" ELSE rpc[k]
               /\ cursor'[k] = IF k = r THEN cursor[r] + n ELSE cursor[k]
               /\ pages'[k] = IF k = r THEN pages[r] \o page ELSE pages[k]
               /\ k # r => snap'[k] = snap[k]
    BY <1>0, <2>1, <2>2, <2>3, <2>4, <2>5
  <2>7. ASSUME NEW k \in Reader
        PROVE  /\ Len(pages'[k]) = cursor'[k] /\ cursor'[k] <= Len(log)
               /\ \A i \in 1..cursor'[k] : pages'[k][i] = log[i].id
               /\ rpc'[k] = "read" => cursor'[k] < snap'[k] /\ snap'[k] <= Count
    <3>1. CASE k = r
      <4>1. /\ rpc'[k] = "idle" /\ cursor'[k] = cursor[r] + n
            /\ pages'[k] = pages[r] \o page
        BY <2>6, <3>1
      <4>2. cursor[r] + n <= Len(log)
        BY <1>0, <2>2, <2>4
      <4>3. QED
        BY <2>5, <4>1, <4>2
    <3>2. CASE k # r
      BY <2>6, <3>2 DEF ReadOK
    <3>3. QED
      BY <3>1, <3>2
  <2>8. QED
    BY <1>0, <2>1, <2>6, <2>7 DEF ReadOK
<1>3. QED
  BY <1>1, <1>2 DEF Read

-----------------------------------------------------------------------------
(* get(): its state.                                                       *)

(* The positions both files list are those of the shorter one.             *)
(* The positions both files list are those of the shorter one.             *)
LEMMA InBoth ==
    ASSUME NEW m \in Nat, NEW n \in Nat
    PROVE  \A i : i \in 1..Smaller(m, n) <=> i \in 1..n /\ i <= m
  BY DEF Smaller

(* A lookup's state keeps its types.                                       *)
LEMMA LookupsTypedStep ==
    ASSUME LookupsTyped, LInv, [DisposableNext]_disposableVars
    PROVE  LookupsTyped'
<1>0. ASSUME NEW g \in Getter, NEW i \in Candidates(g)
      PROVE  i \in Nat
  <2>1. FilesOK /\ Numbered /\ ids \in Seq(Seq(Byte))
    BY DEF LInv, RecoveryInv, IdsTyped
  <2>2. Count \in Nat
    BY <2>1, EndOfIndex
  <2>3. Len(ids) \in Nat
    BY <2>1
  <2>4. Smaller(Len(ids), Count) \in Nat
    BY <2>2, <2>3 DEF Smaller
  <2>5. i \in 1..Smaller(Len(ids), Count)
    BY DEF Candidates
  <2> DEFINE n == Smaller(Len(ids), Count)
  <2> HIDE DEF n
  <2>6. i \in 1..n /\ n \in Nat
    BY <2>4, <2>5 DEF n
  <2>7. QED
    BY <2>6
<1> USE DEF LookupsTyped
<1>1. CASE UNCHANGED getVars
  BY <1>1 DEF getVars
<1>2. ASSUME NEW g \in Getter, GetOnDisk(g)
      PROVE  LookupsTyped'
  <2>1. ASSUME NEW e \in Event, GetCall(g, e)
        PROVE  LookupsTyped'
    <3>1. \E o \in {"nothing", "committed", "answered"} : owed' = [owed EXCEPT ![g] = o]
      BY <2>1 DEF GetCall
    <3>2. /\ want' = [want EXCEPT ![g] = e] /\ place' = place
          /\ answer' = [answer EXCEPT ![g] = "none yet"]
      BY <2>1 DEF GetCall
    <3>3. QED
      BY <3>1, <3>2
  <2>2. CASE GetScan(g)
    <3>1. PICK i \in Candidates(g) : place' = [place EXCEPT ![g] = i]
      BY <2>2 DEF GetScan
    <3>2. i \in Nat
      BY <1>0, <3>1
    <3>3. QED
      BY <2>2, <3>1, <3>2 DEF GetScan
  <2>3. CASE GetMiss(g) \/ GetVerified(g)
    <3>1. PICK a \in {"found", "not found", "corrupt"} : Finish(g, a) /\ owed' = owed
      BY <2>3 DEF GetMiss, GetVerified
    <3>2. QED
      BY <3>1 DEF Finish
  <2>4. CASE GetStale(g) \/ GetGather(g)
    BY <2>4 DEF GetStale, GetGather
  <2>5. QED
    BY <1>2, <2>1, <2>2, <2>3, <2>4 DEF GetOnDisk
<1>3. ASSUME NEW g \in Getter, GetReplace(g)
      PROVE  LookupsTyped'
  BY <1>3 DEF GetReplace
<1>4. QED
  BY <1>1, <1>2, <1>3
     DEF DisposableNext, ReadersNext, Delete, disposableVars, allVars, getVars

-----------------------------------------------------------------------------
(* get(), while nobody pulled ids.txt from under a handle: a lookup that   *)
(* finds a line finds the record, and nobody rebuilds without the lock.    *)

(* What ids.txt says about a position is what the log says.                *)
LEMMA LineIsRecord ==
    ASSUME PInv, NEW i \in 1..Count
    PROVE  /\ log[index[i]].id = log[i].id
           /\ i <= Len(ids) => ids[i] = log[i].id
<1>1. Count \in Nat /\ Len(ids) \in Nat
  BY PTyped
<1>2. index[i] = i
  BY DEF PInv, ProtocolInv, LogInv
<1>3. i <= Len(ids) => ids[i] = log[i].id
  BY <1>1, PTyped
<1>4. QED
  BY <1>2, <1>3

(* A lookup in flight stays right while writers go on.                     *)
LEMMA SoundKept ==
    ASSUME LInv, LookupsSound, LogKept, UNCHANGED getVars
    PROVE  LookupsSound'
<1>1. Count \in Nat /\ Count <= Len(log) /\ Len(log) \in Nat /\ Count' \in Nat
  <2>1. Count \in Nat /\ Len(log) \in Nat /\ Count <= Len(log)
    BY EndOfIndex DEF LInv, RecoveryInv, Described
  <2>2. QED
    BY <2>1 DEF Count
<1>2. gpc' = gpc /\ want' = want /\ place' = place
  BY DEF getVars
<1>3. ASSUME NEW g \in Getter
      PROVE  Sound(g)'
  BY <1>1, <1>2 DEF LookupsSound, Sound, LogKept
<1>4. QED
  BY <1>3 DEF LookupsSound

(* A step of get() that writes nothing keeps lookups right.                *)
LEMMA SoundStep ==
    ASSUME PInv, LInv, LookupsTyped, LookupsSound, NEW g \in Getter,
           GetOnDisk(g), UNCHANGED vars
    PROVE  LookupsSound'
<1>0. /\ gpc \in [Getter -> {"idle", "scan", "fetch", "gather", "replace"}]
      /\ want \in [Getter -> Event \cup {NoEvent}] /\ place \in [Getter -> Nat]
      /\ log' = log /\ Count' = Count /\ Count \in Nat /\ Len(ids) \in Nat
  BY PTyped DEF LInv, GatheredOK, LookupsTyped, vars, Count
<1>1. ASSUME NEW k \in Getter, gpc'[k] = gpc[k], place'[k] = place[k],
             want'[k] = want[k]
      PROVE  Sound(k)'
  BY <1>0, <1>1 DEF LookupsSound, Sound
<1>2. ASSUME NEW k \in Getter, k # g
      PROVE  Sound(k)'
  <2>1. gpc'[k] = gpc[k] /\ place'[k] = place[k] /\ want'[k] = want[k]
    BY <1>0, <1>2 DEF GetOnDisk, GetCall, GetScan, GetMiss, GetVerified, GetStale,
           GetGather, Finish, GetGoto
  <2>2. QED
    BY <1>1, <2>1
<1>3. ASSUME \/ \E e \in Event : GetCall(g, e)
             \/ GetMiss(g) \/ GetVerified(g)
      PROVE  Sound(g)'
  <2>1. gpc'[g] \in {"idle", "scan"}
    BY <1>0, <1>3 DEF GetCall, GetMiss, GetVerified, Finish, GetGoto
  <2>2. QED
    BY <2>1 DEF Sound
<1>4. ASSUME GetScan(g)
      PROVE  Sound(g)'
  <2>1. PICK i \in Candidates(g) : place' = [place EXCEPT ![g] = i]
    BY <1>4 DEF GetScan
  <2>2. i \in 1..Count /\ i <= Len(ids) /\ ids[i] = want[g]
    <3>1. i \in 1..Smaller(Len(ids), Count) /\ ids[i] = want[g]
      BY <2>1 DEF Candidates
    <3>2. QED
      BY <1>0, <3>1, InBoth
  <2>3. log[i].id = want[g]
    BY <2>2, LineIsRecord
  <2>4. gpc'[g] = "fetch" /\ place'[g] = i /\ want'[g] = want[g]
    BY <1>0, <1>4, <2>1 DEF GetScan, GetGoto
  <2>5. QED
    BY <1>0, <2>2, <2>3, <2>4 DEF Sound
<1>5. ASSUME gpc[g] = "fetch"
      PROVE  Agrees(g)
  <2>1. place[g] \in 1..Count /\ log[place[g]].id = want[g]
    BY <1>5 DEF LookupsSound, Sound
  <2>2. place[g] <= Count
    BY <1>0, <2>1
  <2>3. log[index[place[g]]].id = log[place[g]].id
    BY <2>1, LineIsRecord
  <2>4. QED
    BY <2>1, <2>2, <2>3 DEF Agrees
<1>6. ~GetStale(g) /\ ~GetGather(g)
  BY <1>5 DEF GetStale, GetGather, LookupsSound, Sound
<1>7. Sound(g)'
  BY <1>3, <1>4, <1>6 DEF GetOnDisk
<1>8. QED
  BY <1>2, <1>7 DEF LookupsSound

(* ids.txt may go while no handle has read it: an offset that is the end   *)
(* of a line and zero is the end of no line.                               *)
LEMMA DeleteUnread ==
    ASSUME PInv, Quiet, UNCHANGED <<log, logTorn, writerVars>>,
           \/ DeleteIds /\ \A h \in Handle : offset[h] = 0
           \/ DeleteIndex
    PROVE  PInv'
<1>1. /\ lock = NoHandle
      /\ UNCHANGED <<log, logTorn, lock, pc, arg, known, offset, returned>>
  BY DEF Quiet, writerVars
<1>2. \A h \in Handle : pc[h] \notin Locked
  BY <1>1, NoHandleAssumption DEF PInv, ProtocolInv, LockInv
<1>3. LockInv' /\ PhaseInv' /\ AnswersLogged'
  BY <1>1, <1>2, PhaseOutside
     DEF PInv, ProtocolInv, LockInv, PhaseInv, AnswersLogged
<1>4. /\ log \in Seq(Record) /\ logTorn \in BOOLEAN /\ index \in Seq(Nat)
      /\ indexTorn \in BOOLEAN /\ IdsTyped /\ Len(log) \in Nat
  BY PTyped DEF PInv, TypeOK
<1>5. ASSUME FilesOK', IdsTyped', LogInv', IdsInv', CacheInv'
      PROVE  PInv'
  <2>1. TypeOK'
    BY <1>1, <1>5 DEF PInv, TypeOK, FilesOK, IdsTyped
  <2>2. QED
    BY <1>3, <1>5, <2>1 DEF PInv, ProtocolInv
<1>6. CASE DeleteIndex
  <2>1. index' = <<>> /\ indexTorn' = FALSE /\ ids' = ids /\ idsTorn' = idsTorn
    BY <1>6 DEF DeleteIndex
  <2>2. index' \in Seq(Nat) /\ Len(index') = 0
    BY <2>1
  <2>3. indexTorn' \in BOOLEAN
    BY <2>1, Zenon
  <2>4. FilesOK' /\ IdsTyped'
    BY <1>1, <1>4, <2>1, <2>2, <2>3 DEF FilesOK, IdsTyped
  <2>5. LogInv'
    BY <1>1, <1>4, <2>2 DEF PInv, ProtocolInv, LogInv, Count
  <2>6. IdsInv'
    BY <1>1, <2>1 DEF PInv, ProtocolInv, IdsInv
  <2>7. CacheInv'
    BY <1>1, <1>4, <2>1, PTyped, CachesKept DEF PInv, ProtocolInv, caches
  <2>8. QED
    BY <1>5, <2>4, <2>5, <2>6, <2>7
<1>7. ASSUME DeleteIds, \A h \in Handle : offset[h] = 0
      PROVE  PInv'
  <2>1. ids' = <<>> /\ idsTorn' = <<>> /\ index' = index /\ indexTorn' = indexTorn
    BY <1>7 DEF DeleteIds
  <2>2. FilesOK' /\ IdsTyped' /\ Len(ids') = 0
    BY <1>1, <1>4, <2>1 DEF FilesOK, IdsTyped
  <2>3. LogInv'
    BY <1>1, <2>1 DEF PInv, ProtocolInv, LogInv, Count
  <2>4. IdsInv'
    BY <1>1, <1>4, <2>1, <2>2 DEF IdsInv
  <2>5. ASSUME NEW h \in Handle
        PROVE  HasRead(h, 0)'
    <3>1. PICK n \in 0..Len(ids) : HasRead(h, n)
      BY DEF PInv, ProtocolInv, CacheInv
    <3>2. EndOf(0) = 0 /\ EndOf(n) = 0
      BY <1>4, <1>7, <3>1, EndIsNat DEF HasRead
    <3>3. n = 0
      <4> SUFFICES ASSUME n # 0 PROVE FALSE
        OBVIOUS
      <4>1. Len(ids) \in Nat
        BY <1>4 DEF IdsTyped
      <4>2. 0 \in 0..Len(ids) /\ 0 < n
        BY <4>1
      <4>3. EndOf(0) < EndOf(n)
        BY <1>4, <4>2, EndGrows
      <4>4. QED
        BY <3>2, <4>3
    <3>4. HasRead(h, 0)
      BY <3>1, <3>3
    <3>5. QED
      BY <1>1, <3>4, ReadStays
  <2>6. CacheInv'
    <3>1. 0 \in 0..Len(ids')
      BY <2>2
    <3>2. QED
      BY <2>5, <3>1 DEF CacheInv
  <2>7. QED
    BY <1>5, <2>2, <2>3, <2>4, <2>6
<1>8. QED
  BY <1>6, <1>7

(* Every step keeps this layer.                                            *)
LEMMA FootStep ==
    ASSUME LInv, LookupsTyped, FootInv, [DisposableNext]_disposableVars,
           LogKept \/ Delete
    PROVE  FootInv'
<1> SUFFICES ASSUME ~underfoot'
             PROVE  PInv' /\ LookupsSound'
  BY DEF FootInv
<1>1. CASE Delete
  <2>1. /\ Quiet /\ UNCHANGED <<log, logTorn, writerVars, getVars>>
        /\ DeleteIds \/ DeleteIndex
    BY <1>1 DEF Delete
  <2>2. ~underfoot /\ (DeleteIds => \A h \in Handle : offset[h] = 0)
    <3>1. DeleteIds => underfoot' = (underfoot \/ \E h \in Handle : offset[h] # 0)
      BY DEF DeleteIds
    <3>2. DeleteIndex => underfoot' = underfoot
      BY DEF DeleteIndex
    <3>3. ~underfoot
      <4>1. CASE DeleteIds
        BY <3>1, <4>1, Zenon
      <4>2. CASE DeleteIndex
        BY <3>2, <4>2, Zenon
      <4>3. QED
        BY <2>1, <4>1, <4>2
    <3>4. ASSUME DeleteIds, NEW h \in Handle
          PROVE  offset[h] = 0
      BY <3>1, <3>4, Zenon
    <3>5. QED
      BY <3>3, <3>4
  <2>3. PInv'
    BY <2>1, <2>2, DeleteUnread DEF FootInv
  <2>4. \A g \in Getter : gpc'[g] = "idle"
    BY <2>1 DEF Quiet, getVars
  <2>5. LookupsSound'
    BY <2>4 DEF LookupsSound, Sound
  <2>6. QED
    BY <2>3, <2>5
<1>2. CASE ~Delete
  <2>1. ~underfoot /\ LogKept /\ PInv /\ LookupsSound
    BY <1>2 DEF FootInv, DisposableNext, disposableVars
  <2>2. CASE [Next]_vars /\ UNCHANGED getVars
    BY <2>1, <2>2, StepP, SoundKept
  <2>3. ASSUME NEW g \in Getter, GetOnDisk(g), UNCHANGED vars
        PROVE  PInv' /\ LookupsSound'
    BY <2>1, <2>3, StepP, SoundStep
  <2>4. ASSUME NEW g \in Getter, GetReplace(g)
        PROVE  FALSE
    BY <2>1, <2>4 DEF GetReplace, LookupsSound, Sound
  <2>5. QED
    BY <1>2, <2>2, <2>3, <2>4
       DEF DisposableNext, ReadersNext, disposableVars, allVars, vars, getVars
<1>3. QED
  BY <1>1, <1>2

-----------------------------------------------------------------------------
(* get(), until the first deletion: what was answered for is found.        *)

(* append() lists its event in ids.txt before it answers, and no writer    *)
(* shortens the list.                                                      *)
LEMMA AnsweredListedStep ==
    ASSUME Inv, AnsweredListed, [Next]_vars
    PROVE  AnsweredListed' /\ returned \subseteq returned'
<1>0. /\ PInv /\ Len(ids) \in Nat /\ Count \in Nat /\ Len(log) \in Nat
      /\ Len(ids) <= Len(log) /\ ids \in Seq(Seq(Byte)) /\ returned \subseteq Event \X Nat
  <2>1. PInv
    BY DEF Inv, PInv, IInv
  <2>2. QED
    BY <2>1, PTyped DEF IdsTyped, PInv, TypeOK
<1>1. ASSUME returned' = returned, Len(ids') \in Nat, Len(ids) <= Len(ids')
      PROVE  AnsweredListed' /\ returned \subseteq returned'
  <2>1. \A a \in returned : a[2] \in Nat
    BY <1>0
  <2>2. QED
    BY <1>0, <1>1, <2>1 DEF AnsweredListed
<1>2. ASSUME NEW h \in Handle, WriteIds(h)
      PROVE  returned' = returned /\ Len(ids') \in Nat /\ Len(ids) <= Len(ids')
  <2>1. \E x : ids' = Append(ids, x) /\ returned' = returned
    BY <1>2 DEF WriteIds
  <2>2. Len(ids') = Len(ids) + 1
    BY <1>0, <2>1
  <2>3. QED
    BY <1>0, <2>1, <2>2
<1>3. ASSUME NEW h \in Handle, Rebuild(h)
      PROVE  returned' = returned /\ Len(ids') \in Nat /\ Len(ids) <= Len(ids')
  <2>1. pc[h] = "rebuild" /\ ids' = CommittedIds /\ returned' = returned
    BY <1>3 DEF Rebuild
  <2>2. Len(log) = Count
    BY <1>0, <2>1 DEF PInv, ProtocolInv, PhaseInv, Phase
  <2>3. Len(CommittedIds) = Count
    BY <1>0 DEF CommittedIds
  <2>4. QED
    BY <1>0, <2>1, <2>2, <2>3
<1>4. ASSUME NEW h \in Handle, NEW e, NEW n \in Nat, n <= Len(ids), ids' = ids,
             returned' = returned \cup {<<e, n>>}
      PROVE  AnsweredListed' /\ returned \subseteq returned'
  BY <1>4 DEF AnsweredListed
<1>5. ASSUME NEW h \in Handle, ReturnExisting(h)
      PROVE  AnsweredListed' /\ returned \subseteq returned'
  <2>1. /\ pc[h] = "lookup" /\ arg[h] \in DOMAIN known[h] /\ ids' = ids
        /\ returned' = returned \cup {<<arg[h], known[h][arg[h]]>>}
    BY <1>5 DEF ReturnExisting, IsRepeat, files
  <2>2. Len(ids) = Count /\ HasRead(h, Count)
    BY <1>0, <2>1 DEF PInv, ProtocolInv, PhaseInv, Phase
  <2>3. PICK i \in 1..Count : log[i].id = arg[h]
    BY <2>1, <2>2 DEF HasRead, LogIds
  <2>4. known[h][arg[h]] = i
    BY <2>2, <2>3 DEF HasRead
  <2>5. i \in Nat /\ i <= Len(ids)
    BY <1>0, <2>2
  <2>6. QED
    BY <1>4, <2>1, <2>4, <2>5
<1>6. ASSUME NEW h \in Handle, ReturnNew(h)
      PROVE  AnsweredListed' /\ returned \subseteq returned'
  <2>1. pc[h] = "done" /\ ids' = ids /\ returned' = returned \cup {<<arg[h], Count>>}
    BY <1>6 DEF ReturnNew, files
  <2>2. Len(ids) = Count
    BY <1>0, <2>1 DEF PInv, ProtocolInv, PhaseInv, Phase
  <2>3. Count \in Nat /\ Count <= Len(ids)
    BY <1>0, <2>2
  <2>4. QED
    BY <1>4, <2>1, <2>3
<1>7. CASE UNCHANGED vars
  BY <1>0, <1>1, <1>7 DEF vars
<1>8. ASSUME NEW h \in Handle,
             \/ \E e \in Event : Request(h, e)
             \/ Acquire(h) \/ RecoverRagged(h) \/ RecoverReset(h) \/ RecoverClean(h)
             \/ CommitTail(h) \/ TruncateLog(h) \/ Dedupe(h) \/ WriteLog(h)
             \/ WriteIndex(h) \/ TearTail(h) \/ TearLog(h) \/ TearIds(h)
             \/ TearIndex(h) \/ Raise(h) \/ Crash(h)
      PROVE  ids' = ids /\ returned' = returned
  BY <1>8 DEF Request, Acquire, RecoverRagged, RecoverReset, RecoverClean, CommitTail,
         TruncateLog, Dedupe, WriteLog, WriteIndex, TearTail, TearLog, TearIds,
         TearIndex, Raise, Crash, files
<1>9. QED
  BY <1>0, <1>1, <1>2, <1>3, <1>5, <1>6, <1>7, <1>8 DEF Next, Work, Recover, Fault

(* A lookup that is not touched stays settled.                             *)
LEMMA SettledKept ==
    ASSUME LookupsSettled, UNCHANGED getVars, returned \subseteq returned'
    PROVE  LookupsSettled'
<1>1. gpc' = gpc /\ want' = want /\ owed' = owed /\ answer' = answer
  BY DEF getVars
<1>2. ASSUME NEW g \in Getter
      PROVE  Settled(g)'
  BY <1>1 DEF LookupsSettled, Settled
<1>3. QED
  BY <1>2 DEF LookupsSettled

(* A step of get(): an answered event is listed, so the scan meets it, and *)
(* the record agrees.                                                      *)
LEMMA SettledStep ==
    ASSUME Inv, LInv, AnsweredListed, LookupsTyped, LookupsSound, LookupsSettled,
           NEW g \in Getter, GetOnDisk(g), UNCHANGED vars
    PROVE  LookupsSettled'
<1>0. /\ gpc \in [Getter -> {"idle", "scan", "fetch", "gather", "replace"}]
      /\ want \in [Getter -> Event \cup {NoEvent}]
      /\ owed \in [Getter -> {"nothing", "committed", "answered"}]
      /\ answer \in [Getter -> {"none yet", "found", "not found", "corrupt"}]
      /\ returned' = returned
  BY DEF LInv, GatheredOK, LookupsTyped, vars
<1>1. PInv /\ Count \in Nat /\ Len(ids) \in Nat
  <2>1. PInv
    BY DEF Inv, PInv, IInv
  <2>2. QED
    BY <2>1, PTyped
<1>2. ASSUME NEW k \in Getter, k # g
      PROVE  Settled(k)'
  <2>1. /\ gpc'[k] = gpc[k] /\ want'[k] = want[k]
        /\ answer'[k] = answer[k] /\ owed'[k] = owed[k]
    BY <1>0, <1>2 DEF GetOnDisk, GetCall, GetScan, GetMiss, GetVerified, GetStale,
           GetGather, Finish, GetGoto
  <2>2. Settled(k)
    BY DEF LookupsSettled
  <2>3. QED
    BY <1>0, <2>1, <2>2, Zenon DEF Settled
<1>3. ASSUME NEW e \in Event, GetCall(g, e)
      PROVE  Settled(g)'
  <2>1. /\ gpc'[g] = "scan" /\ want'[g] = e /\ answer'[g] = "none yet"
    BY <1>0, <1>3 DEF GetCall, GetGoto
  <2>2. owed'[g] = "answered" => \E a \in returned : a[1] = e
    BY <1>0, <1>3 DEF GetCall
  <2>3. QED
    BY <1>0, <2>1, <2>2 DEF Settled
<1>4. ASSUME GetScan(g)
      PROVE  Settled(g)'
  <2>1. /\ gpc[g] = "scan" /\ gpc'[g] = "fetch" /\ want'[g] = want[g]
        /\ answer'[g] = answer[g] /\ owed'[g] = owed[g]
    BY <1>0, <1>4 DEF GetScan, GetGoto
  <2>2. answer[g] = "none yet" /\ (owed[g] = "answered" => \E a \in returned : a[1] = want[g])
    BY <2>1 DEF LookupsSettled, Settled
  <2>3. gpc'[g] # "idle"
    BY <2>1
  <2>4. QED
    BY <1>0, <2>1, <2>2, <2>3, Zenon DEF Settled
<1>5. ASSUME GetMiss(g)
      PROVE  Settled(g)'
  <2>1. gpc[g] = "scan" /\ Candidates(g) = {}
    BY <1>5 DEF GetMiss
  <2>2. owed[g] # "answered"
    <3> SUFFICES ASSUME owed[g] = "answered" PROVE FALSE
      OBVIOUS
    <3>1. PICK a \in returned : a[1] = want[g]
      BY <2>1 DEF LookupsSettled, Settled
    <3>2. a[2] \in 1..Count /\ log[index[a[2]]].id = a[1] /\ a[2] <= Len(ids)
      BY <3>1 DEF Inv, IInv, AnswersHold, AnsweredListed
    <3>3. ids[a[2]] = want[g]
      BY <1>1, <3>1, <3>2, LineIsRecord
    <3>4. a[2] \in 1..Smaller(Len(ids), Count)
      BY <1>1, <3>2, InBoth
    <3>5. QED
      BY <2>1, <3>3, <3>4 DEF Candidates
  <2>3. gpc'[g] = "idle" /\ owed'[g] = owed[g]
    BY <1>0, <1>5 DEF GetMiss, Finish, GetGoto
  <2>4. QED
    BY <2>2, <2>3 DEF Settled
<1>6. ASSUME gpc[g] = "fetch"
      PROVE  Agrees(g)
  <2>1. place[g] \in 1..Count /\ log[place[g]].id = want[g]
    BY <1>6 DEF LookupsSound, Sound
  <2>2. place[g] <= Count
    BY <1>1, <2>1
  <2>3. log[index[place[g]]].id = log[place[g]].id
    BY <1>1, <2>1, LineIsRecord
  <2>4. QED
    BY <2>1, <2>2, <2>3 DEF Agrees
<1>7. ASSUME GetVerified(g)
      PROVE  Settled(g)'
  <2>1. Finish(g, "found") /\ owed' = owed
    BY <1>6, <1>7 DEF GetVerified
  <2>2. gpc'[g] = "idle" /\ answer'[g] = "found"
    BY <1>0, <2>1 DEF Finish, GetGoto
  <2>3. QED
    BY <2>2 DEF Settled
<1>8. ~GetStale(g) /\ ~GetGather(g)
  BY <1>6 DEF GetStale, GetGather, LookupsSound, Sound
<1>9. Settled(g)'
  BY <1>3, <1>4, <1>5, <1>7, <1>8 DEF GetOnDisk
<1>10. QED
  BY <1>2, <1>9 DEF LookupsSettled

(* Every step keeps this layer.                                            *)
LEMMA WholeStep ==
    ASSUME LInv, LookupsTyped, FootInv, WholeInv, deletes \in Nat,
           [DisposableNext]_disposableVars
    PROVE  WholeInv'
<1> SUFFICES ASSUME deletes' = 0
             PROVE  (~underfoot /\ Inv /\ AnsweredListed /\ LookupsSettled)'
  BY DEF WholeInv
<1>1. ~Delete
  BY DEF Delete
<1>2. deletes = 0 /\ underfoot' = underfoot
  BY <1>1 DEF DisposableNext, disposableVars
<1>3. ~underfoot /\ Inv /\ AnsweredListed /\ LookupsSettled /\ LookupsSound
  BY <1>2 DEF WholeInv, FootInv
<1>4. CASE [Next]_vars /\ UNCHANGED getVars
  <2>1. Inv' /\ AnsweredListed' /\ returned \subseteq returned'
    BY <1>3, <1>4, StepInv, AnsweredListedStep
  <2>2. QED
    BY <1>2, <1>3, <1>4, <2>1, SettledKept
<1>5. ASSUME NEW g \in Getter, GetOnDisk(g), UNCHANGED vars
      PROVE  (~underfoot /\ Inv /\ AnsweredListed /\ LookupsSettled)'
  <2>1. Inv' /\ AnsweredListed'
    BY <1>3, <1>5, StepInv, AnsweredListedStep
  <2>2. QED
    BY <1>2, <1>3, <1>5, <2>1, SettledStep
<1>6. ASSUME NEW g \in Getter, GetReplace(g)
      PROVE  FALSE
  BY <1>3, <1>6 DEF GetReplace, LookupsSound, Sound
<1>7. QED
  BY <1>1, <1>4, <1>5, <1>6
     DEF DisposableNext, ReadersNext, disposableVars, allVars, vars, getVars

-----------------------------------------------------------------------------
(* The invariant holds initially.                                          *)
LEMMA InitDInv == DisposableInit => DInv /\ deletes \in Nat
<1> SUFFICES ASSUME DisposableInit PROVE DInv /\ deletes \in Nat
  OBVIOUS
<1>0. Init /\ Inv /\ PInv /\ deletes = 0 /\ ~underfoot
  BY InitInv, InitP DEF DisposableInit, ReadersInit
<1>1. RecoveryInv
  <2>1. FilesOK /\ HandlesOK
    BY <1>0 DEF PInv, TypeOK, FilesOK, HandlesOK
  <2>2. Numbered /\ LockInv
    BY <1>0 DEF PInv, ProtocolInv, LogInv, Numbered
  <2>3. Recovered
    BY <1>0 DEF Init, Recovered
  <2>4. QED
    BY <2>1, <2>2, <2>3 DEF RecoveryInv
<1>2. Described /\ IdsTyped /\ log = <<>> /\ Len(log) = 0 /\ Count = 0
  BY <1>0, PTyped DEF Described, Init, Count
<1>3. /\ gpc = [g \in Getter |-> "idle"] /\ gathered = [g \in Getter |-> <<>>]
      /\ rpc = [r \in Reader |-> "idle"] /\ snap = [r \in Reader |-> 0]
      /\ cursor = [r \in Reader |-> 0] /\ pages = [r \in Reader |-> <<>>]
  BY DEF DisposableInit, ReadersInit
<1>4. <<>> \in Seq(Event)
  OBVIOUS
<1>5. GatheredOK
  <2>1. \A g \in Getter : gathered[g] = <<>> /\ Len(gathered[g]) = 0
    BY <1>3
  <2>2. gathered \in [Getter -> Seq(Event)]
    BY <1>3, <1>4
  <2>3. QED
    BY <1>2, <1>3, <2>1, <2>2 DEF GatheredOK
<1>6. ReadOK
  <2>1. \A r \in Reader : Len(pages[r]) = 0 /\ cursor[r] = 0 /\ rpc[r] = "idle"
    BY <1>3
  <2>2. pages \in [Reader -> Seq(Event)]
    BY <1>3, <1>4
  <2>3. QED
    BY <1>2, <1>3, <2>1, <2>2 DEF ReadOK
<1>7. LookupsTyped /\ LookupsSound /\ LookupsSettled
  BY DEF DisposableInit, ReadersInit, LookupsTyped, LookupsSound, Sound,
         LookupsSettled, Settled
<1>8. AnsweredListed
  BY <1>0 DEF Init, AnsweredListed
<1>9. QED
  BY <1>0, <1>1, <1>2, <1>5, <1>6, <1>7, <1>8 DEF DInv, LInv, FootInv, WholeInv

(* Every step keeps it.                                                    *)
LEMMA StepDInv == DInv /\ deletes \in Nat /\ [DisposableNext]_disposableVars
                      => (DInv /\ deletes \in Nat)'
<1> SUFFICES ASSUME DInv, deletes \in Nat, [DisposableNext]_disposableVars
             PROVE  (DInv /\ deletes \in Nat)'
  OBVIOUS
<1>0. LInv /\ ReadOK /\ LookupsTyped /\ FootInv /\ WholeInv
  BY DEF DInv
<1>1. LInv' /\ (LogKept \/ Delete)
  BY <1>0, LooseStep
<1>2. LookupsTyped' /\ FootInv' /\ WholeInv'
  BY <1>0, <1>1, LookupsTypedStep, FootStep, WholeStep
<1>3. ReadOK'
  <2>1. CASE LogKept /\ UNCHANGED readVars
    BY <1>0, <1>1, <2>1, PagesKept
  <2>2. ASSUME NEW r \in Reader, Read(r), UNCHANGED vars
        PROVE  ReadOK'
    BY <1>0, <2>2, ReadStep
  <2>3. CASE Delete
    <3>1. /\ UNCHANGED readVars /\ log' = log /\ \A r \in Reader : rpc[r] = "idle"
      BY <2>3 DEF Delete, Quiet
    <3>2. QED
      BY <1>0, <3>1 DEF ReadOK, readVars
  <2>4. QED
    BY <1>1, <2>1, <2>2, <2>3
       DEF DisposableNext, ReadersNext, disposableVars, allVars, readVars
<1>4. deletes' \in Nat
  BY DEF DisposableNext, Delete, disposableVars
<1>5. QED
  BY <1>1, <1>2, <1>3, <1>4 DEF DInv

(* So it always holds.                                                     *)
LEMMA DInvHolds == DisposableSpec => []DInv
<1>1. QED
  BY InitDInv, StepDInv, PTL DEF DisposableSpec

(* jsonl.py read(): readers take no lock, whatever writers, lookups and    *)
(* deletions happen beside them, and their pages are the log.              *)
THEOREM PagesAreExact == DisposableSpec => []PagesAreHistory
<1>1. DInv => PagesAreHistory
  BY DEF DInv, ReadOK, PagesAreHistory
<1>2. QED
  BY <1>1, DInvHolds, PTL

(* jsonl.py _dedupe_map: every record keeps its number, whatever is        *)
(* deleted, and nothing is stored twice while no handle had read an        *)
(* ids.txt that was deleted.                                               *)
THEOREM NothingStoredTwice == DisposableSpec => []LogDecides
<1>1. DInv => LogDecides
  <2> SUFFICES ASSUME DInv PROVE LogDecides
    OBVIOUS
  <2>1. \A i \in 1..Len(log) : log[i].seq = i
    BY DEF DInv, LInv, RecoveryInv, Numbered
  <2>2. ASSUME ~underfoot
        PROVE  /\ \A i, j \in 1..Len(log) : log[i].id = log[j].id => i = j
               /\ AnswersLogged
    BY <2>2 DEF DInv, FootInv, PInv, ProtocolInv, LogInv
  <2>3. QED
    BY <2>1, <2>2 DEF LogDecides
<1>2. QED
  BY <1>1, DInvHolds, PTL

(* jsonl.py get(): until a sidecar is deleted, an event that append() had  *)
(* answered for when get() was called is found, without a lock.            *)
THEOREM AnsweredIsFound == DisposableSpec => []FoundWhileWhole
<1>1. DInv => FoundWhileWhole
  BY DEF DInv, LInv, GatheredOK, WholeInv, LookupsSettled, Settled, FoundWhileWhole,
         GetFindsAnswered
<1>2. QED
  BY <1>1, DInvHolds, PTL
=============================================================================
