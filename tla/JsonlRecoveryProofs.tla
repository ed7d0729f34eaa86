------------------------- MODULE JsonlRecoveryProofs -------------------------
(***************************************************************************)
(* Proofs about recovery (jsonl.py _recover, _commit_tail) that do not     *)
(* need the history of the files: whatever a power cut left of the three   *)
(* files, or whoever deleted a sidecar, the numbering of the log survives  *)
(* every step and a writer past recovery sees an index of the whole log.   *)
(***************************************************************************)
EXTENDS JsonlPowerLoss, JsonlBackendProofs

-----------------------------------------------------------------------------
(* The inductive invariant, far weaker than IInv: the files need not agree *)
(* with each other, the sidecar and the caches may say anything.           *)

FilesOK ==
    /\ log \in Seq(Record) /\ logTorn \in BOOLEAN
    /\ index \in Seq(Nat) /\ indexTorn \in BOOLEAN

(* Handles: what each is doing, and for which event.                       *)
HandlesOK ==
    /\ lock \in Handle \cup {NoHandle}
    /\ pc \in [Handle -> Locked \cup {"idle", "wait"}]
    /\ arg \in [Handle -> Event \cup {NoEvent}]
    /\ \A h \in Handle : arg[h] = NoEvent <=> pc[h] = "idle"

(* The log and its index count from one, without a gap.                    *)
Numbered ==
    /\ \A i \in 1..Len(log) : log[i].seq = i
    /\ \A i \in 1..Count : index[i] = i

(* Whoever is past a step of recovery finds what that step restores.       *)
Recovered ==
    \A h \in Handle :
        /\ pc[h] = "truncate" => ~indexTorn /\ Len(log) = Count
        /\ pc[h] \in {"dedupe", "rebuild", "lookup"} => Clean /\ Len(log) = Count
        /\ pc[h] \in {"ids", "index"} => Clean /\ Len(log) = Count + 1

(* The inductive invariant.                                                *)
RecoveryInv == FilesOK /\ HandlesOK /\ LockInv /\ Numbered /\ Recovered

-----------------------------------------------------------------------------
(* Control: who holds the flock and what each handle is appending depend   *)
(* on no file.                                                             *)
LEMMA ControlStep ==
    ASSUME HandlesOK, LockInv, [Next]_vars
    PROVE  HandlesOK' /\ LockInv'
<1> USE DEF HandlesOK, LockInv, Goto
<1>1. CASE UNCHANGED vars
  BY <1>1 DEF vars
<1>2. ASSUME NEW h \in Handle, NEW e \in Event, Request(h, e)
      PROVE  HandlesOK' /\ LockInv'
  BY <1>2, NoEventAssumption DEF Request, Locked
<1>3. ASSUME NEW h \in Handle, Acquire(h)
      PROVE  HandlesOK' /\ LockInv'
  BY <1>3, NoHandleAssumption DEF Acquire, Locked
<1>4. ASSUME NEW h \in Handle, NEW to \in Locked, pc[h] \in Locked,
             Goto(h, to), UNCHANGED <<lock, arg>>
      PROVE  HandlesOK' /\ LockInv'
  BY <1>4 DEF Locked
<1>5. ASSUME NEW h \in Handle, pc[h] \in Locked, Release(h)
      PROVE  HandlesOK' /\ LockInv'
  BY <1>5, NoHandleAssumption, NoEventAssumption DEF Release, Locked
<1>6. ASSUME NEW h \in Handle, Crash(h)
      PROVE  HandlesOK' /\ LockInv'
  <2>1. lock' = (IF lock = h THEN NoHandle ELSE lock)
    BY <1>6 DEF Crash
  <2>2. pc' = [pc EXCEPT ![h] = "idle"] /\ arg' = [arg EXCEPT ![h] = NoEvent]
    BY <1>6 DEF Crash
  <2>3. QED
    BY <2>1, <2>2, NoHandleAssumption, NoEventAssumption DEF Locked
<1>7. ASSUME NEW h \in Handle, RecoverRagged(h) \/ RecoverReset(h)
      PROVE  HandlesOK' /\ LockInv'
  BY <1>7 DEF RecoverRagged, RecoverReset
<1>8. ASSUME NEW h \in Handle,
             \/ RecoverClean(h) \/ CommitTail(h) \/ TruncateLog(h) \/ Dedupe(h)
             \/ Rebuild(h) \/ WriteLog(h) \/ WriteIds(h) \/ WriteIndex(h)
             \/ TearTail(h) \/ TearLog(h) \/ TearIds(h) \/ TearIndex(h)
      PROVE  HandlesOK' /\ LockInv'
  <2>1. /\ pc[h] \in Locked /\ UNCHANGED <<lock, arg>>
        /\ \E to \in Locked : Goto(h, to)
    BY <1>8 DEF RecoverClean, CommitTail, TruncateLog, Dedupe, Rebuild, WriteLog,
           WriteIds, WriteIndex, TearTail, TearLog, TearIds, TearIndex, Locked
  <2>2. QED
    BY <2>1, <1>4
<1>9. ASSUME NEW h \in Handle, ReturnExisting(h) \/ ReturnNew(h) \/ Raise(h)
      PROVE  HandlesOK' /\ LockInv'
  <2>1. pc[h] \in Locked /\ Release(h)
    BY <1>9 DEF ReturnExisting, ReturnNew, Raise, Locked
  <2>2. QED
    BY <2>1, <1>5
<1>10. QED
  BY <1>1, <1>2, <1>3, <1>6, <1>7, <1>8, <1>9 DEF Next, Work, Recover, Fault

-----------------------------------------------------------------------------
(* Files.                                                                  *)

(* The recovered end of the log is the number of index entries.            *)
LEMMA EndOfIndex ==
    ASSUME FilesOK, Numbered
    PROVE  CommittedEnd = Count /\ Count \in Nat /\ Len(log) \in Nat
  BY DEF FilesOK, Numbered, CommittedEnd, Count

(* Committing the tail goes on counting.                                   *)
LEMMA LongerTail ==
    ASSUME FilesOK, Numbered, NEW n \in Nat, index' = index \o TailEntries(n)
    PROVE  /\ index' \in Seq(Nat) /\ Count' = Count + n
           /\ \A i \in 1..Count' : index'[i] = i
<1> DEFINE t == [i \in 1..n |-> Count + i]
<1>0. Count \in Nat /\ Count = Len(index) /\ index \in Seq(Nat)
  BY EndOfIndex DEF FilesOK, Count
<1>1. TailEntries(n) = t
  BY EndOfIndex DEF TailEntries
<1>2. t \in Seq(Nat) /\ Len(t) = n /\ \A i \in 1..n : t[i] = Count + i
  BY <1>0
<1> HIDE DEF t
<1>3. /\ index' \in Seq(Nat) /\ Len(index') = Count + n
      /\ \A i \in 1..(Count + n) :
             index'[i] = IF i <= Count THEN index[i] ELSE t[i - Count]
  <2>1. index' = index \o t
    BY <1>1
  <2>2. /\ index \o t \in Seq(Nat) /\ Len(index \o t) = Len(index) + Len(t)
        /\ \A i \in 1..(Len(index) + Len(t)) :
               (index \o t)[i] = IF i <= Len(index) THEN index[i] ELSE t[i - Len(index)]
    BY <1>0, <1>2, ConcatProperties
  <2>3. Len(index) = Count /\ Len(t) = n
    BY <1>0, <1>2
  <2>4. QED
    BY <2>1, <2>2, <2>3
<1>4. ASSUME NEW i \in 1..(Count + n)
      PROVE  index'[i] = i
  <2>1. CASE i <= Count
    BY <1>0, <1>3, <2>1 DEF Numbered
  <2>2. CASE ~(i <= Count)
    <3>1. i - Count \in 1..n /\ Count + (i - Count) = i
      BY <1>0, <2>2
    <3>2. index'[i] = t[i - Count]
      BY <1>3, <2>2
    <3>3. t[i - Count] = Count + (i - Count)
      BY <1>2, <3>1
    <3>4. QED
      BY <3>1, <3>2, <3>3
  <2>3. QED
    BY <2>1, <2>2
<1>5. QED
  BY <1>3, <1>4 DEF Count

(* What one step does to the log and the index: nothing, or one of four    *)
(* things, each by a handle that holds the flock.                          *)
LEMMA FilesStep ==
    ASSUME RecoveryInv, [Next]_vars
    PROVE  FilesOK' /\ Numbered'
<1>0. /\ log \in Seq(Record) /\ index \in Seq(Nat) /\ Count \in Nat
      /\ Len(log) \in Nat /\ logTorn \in BOOLEAN /\ indexTorn \in BOOLEAN
      /\ CommittedEnd = Count
  BY EndOfIndex DEF RecoveryInv, FilesOK
<1>1. ASSUME UNCHANGED <<log, index>>,
             logTorn' \in BOOLEAN, indexTorn' \in BOOLEAN
      PROVE  FilesOK' /\ Numbered'
  BY <1>1 DEF RecoveryInv, FilesOK, Numbered, Count
<1>2. CASE UNCHANGED vars
  BY <1>0, <1>1, <1>2 DEF vars
<1>3. ASSUME NEW h \in Handle, RecoverReset(h)
      PROVE  FilesOK' /\ Numbered'
  BY <1>0, <1>3 DEF RecoverReset, RecoveryInv, FilesOK, Numbered, Count
<1>4. ASSUME NEW h \in Handle, NEW n \in Nat, index' = index \o TailEntries(n),
             UNCHANGED <<log, logTorn>>, indexTorn' \in BOOLEAN
      PROVE  FilesOK' /\ Numbered'
  <2>1. index' \in Seq(Nat) /\ \A i \in 1..Count' : index'[i] = i
    BY <1>4, LongerTail DEF RecoveryInv
  <2>2. QED
    BY <1>4, <2>1 DEF RecoveryInv, FilesOK, Numbered
<1>5. ASSUME NEW h \in Handle, CommitTail(h)
      PROVE  FilesOK' /\ Numbered'
  <2>1. Len(log) - CommittedEnd \in Nat
    BY <1>0, <1>5 DEF CommitTail, HasTail
  <2>2. QED
    BY <1>0, <1>4, <1>5, <2>1 DEF CommitTail
<1>6. ASSUME NEW h \in Handle, TearTail(h)
      PROVE  FilesOK' /\ Numbered'
  <2>1. PICK n \in 0..(Len(log) - CommittedEnd - 1) :
            index' = index \o TailEntries(n)
    BY <1>6 DEF TearTail
  <2>2. n \in Nat
    BY <1>0, <2>1
  <2>3. QED
    BY <1>4, <1>6, <2>1, <2>2 DEF TearTail
<1>7. ASSUME NEW h \in Handle, WriteLog(h)
      PROVE  FilesOK' /\ Numbered'
  <2>1. Len(log) = Count /\ arg[h] \in Event
    BY <1>7 DEF WriteLog, RecoveryInv, Recovered, HandlesOK
  <2>2. [seq |-> Count + 1, id |-> arg[h]] \in Record
    BY <1>0, <2>1 DEF Record
  <2>3. /\ log' = Append(log, [seq |-> Count + 1, id |-> arg[h]])
        /\ UNCHANGED <<logTorn, index, indexTorn>>
    BY <1>7 DEF WriteLog
  <2>4. /\ log' \in Seq(Record) /\ Len(log') = Len(log) + 1
        /\ \A i \in 1..Len(log') :
               log'[i] = IF i <= Len(log) THEN log[i]
                         ELSE [seq |-> Count + 1, id |-> arg[h]]
    BY <1>0, <2>2, <2>3
  <2>5. \A i \in 1..Len(log') : log'[i].seq = i
    BY <1>0, <2>1, <2>4 DEF RecoveryInv, Numbered
  <2>6. QED
    BY <2>3, <2>4, <2>5 DEF RecoveryInv, FilesOK, Numbered, Count
<1>8. ASSUME NEW h \in Handle, WriteIndex(h)
      PROVE  FilesOK' /\ Numbered'
  <2>1. Len(log) = Count + 1
    BY <1>8 DEF WriteIndex, RecoveryInv, Recovered
  <2>2. index' = Append(index, Len(log)) /\ UNCHANGED <<log, logTorn, indexTorn>>
    BY <1>8 DEF WriteIndex
  <2>3. /\ index' \in Seq(Nat) /\ Len(index') = Count + 1
        /\ \A i \in 1..(Count + 1) : index'[i] = IF i <= Count THEN index[i] ELSE Len(log)
    BY <1>0, <2>2 DEF Count
  <2>4. QED
    BY <1>0, <2>1, <2>2, <2>3 DEF RecoveryInv, FilesOK, Numbered, Count
<1>9. ASSUME NEW h \in Handle,
             \/ \E e \in Event : Request(h, e)
             \/ Acquire(h) \/ RecoverRagged(h) \/ RecoverClean(h)
             \/ TruncateLog(h) \/ Dedupe(h) \/ Rebuild(h) \/ ReturnExisting(h)
             \/ WriteIds(h) \/ ReturnNew(h) \/ TearLog(h) \/ TearIds(h)
             \/ TearIndex(h) \/ Raise(h) \/ Crash(h)
      PROVE  FilesOK' /\ Numbered'
  <2>1. UNCHANGED <<log, index>> /\ logTorn' \in BOOLEAN /\ indexTorn' \in BOOLEAN
    BY <1>0, <1>9 DEF Request, Acquire, RecoverRagged, RecoverClean, TruncateLog,
           Dedupe, Rebuild, ReturnExisting, WriteIds, ReturnNew, TearLog, TearIds,
           TearIndex, Raise, Crash, files
  <2>2. QED
    BY <1>1, <2>1
<1>10. QED
  BY <1>2, <1>3, <1>5, <1>6, <1>7, <1>8, <1>9 DEF Next, Work, Recover, Fault

-----------------------------------------------------------------------------
(* While one handle holds the flock no other is past Acquire.              *)
LEMMA Alone ==
    ASSUME LockInv, NEW h \in Handle, pc[h] \in Locked
    PROVE  \A k \in Handle : k # h => pc[k] \notin Locked
  BY DEF LockInv

(* The phases: what a handle has checked on its way stays true under it.   *)
LEMMA RecoveredStep ==
    ASSUME RecoveryInv, [Next]_vars
    PROVE  Recovered'
<1>0. /\ log \in Seq(Record) /\ index \in Seq(Nat) /\ Count \in Nat
      /\ Len(log) \in Nat /\ CommittedEnd = Count
      /\ pc \in [Handle -> Locked \cup {"idle", "wait"}]
  BY EndOfIndex DEF RecoveryInv, FilesOK, HandlesOK
<1>1. ASSUME UNCHANGED <<log, logTorn, index, indexTorn>>, NEW h \in Handle,
             NEW to \in {"idle", "wait", "recover", "rebuild", "done", "failed"},
             Goto(h, to), to = "rebuild" => pc[h] = "dedupe"
      PROVE  Recovered'
  BY <1>0, <1>1 DEF Goto, RecoveryInv, Recovered, Clean, Count
<1>2. CASE UNCHANGED vars
  BY <1>2 DEF vars, RecoveryInv, Recovered, Clean, Count
<1>3. ASSUME NEW h \in Handle, NEW to \in Locked, pc[h] \in Locked,
             Goto(h, to) \/ (pc' = pc /\ to = pc[h]),
             /\ to = "truncate" => ~indexTorn' /\ Len(log') = Len(index')
             /\ to \in {"dedupe", "rebuild", "lookup"} =>
                    ~logTorn' /\ ~indexTorn' /\ Len(log') = Len(index')
             /\ to \in {"ids", "index"} =>
                    ~logTorn' /\ ~indexTorn' /\ Len(log') = Len(index') + 1
      PROVE  Recovered'
  <2>1. \A k \in Handle : k # h => pc[k] \notin Locked
    BY <1>3, Alone DEF RecoveryInv
  <2>2. \A k \in Handle : pc'[k] = IF k = h THEN to ELSE pc[k]
    BY <1>0, <1>3 DEF Goto
  <2>3. ASSUME NEW k \in Handle, k # h
        PROVE  pc'[k] \notin Locked
    BY <2>1, <2>2, <2>3
  <2>4. QED
    BY <1>3, <2>2, <2>3 DEF Recovered, Clean, Count, Locked
<1>4. ASSUME NEW h \in Handle, RecoverRagged(h) \/ RecoverReset(h)
      PROVE  Recovered'
  <2>1. pc[h] = "recover" /\ pc' = pc
    BY <1>4 DEF RecoverRagged, RecoverReset
  <2>2. QED
    BY <1>3, <2>1 DEF Locked
<1>5. ASSUME NEW h \in Handle, CommitTail(h)
      PROVE  Recovered'
  <2>1. Len(log) - Count \in Nat
    BY <1>0, <1>5 DEF CommitTail, HasTail
  <2>2. index' = index \o TailEntries(Len(log) - Count)
    BY <1>0, <1>5 DEF CommitTail
  <2>3. Len(index') = Count + (Len(log) - Count)
    BY <2>1, <2>2, LongerTail DEF RecoveryInv, Count
  <2>4. Len(log') = Len(index')
    BY <1>0, <1>5, <2>3 DEF CommitTail
  <2>5. pc[h] = "recover" /\ ~indexTorn' /\ Goto(h, "truncate")
    BY <1>5 DEF CommitTail
  <2>6. QED
    BY <1>3, <2>4, <2>5 DEF Locked
<1>6. ASSUME NEW h \in Handle,
             \/ RecoverClean(h) \/ TruncateLog(h) \/ Rebuild(h) \/ WriteIds(h)
      PROVE  Recovered'
  BY <1>0, <1>3, <1>6
     DEF RecoverClean, TruncateLog, Rebuild, WriteIds, files, RecoveryInv, Recovered,
         Clean, Count, Locked
<1>7. ASSUME NEW h \in Handle, Dedupe(h)
      PROVE  Recovered'
  <2>1. PICK to \in {"lookup", "rebuild"} : Goto(h, to)
    BY <1>7 DEF Dedupe
  <2>2. pc[h] = "dedupe" /\ UNCHANGED files
    BY <1>7 DEF Dedupe
  <2>3. QED
    BY <1>3, <2>1, <2>2 DEF files, RecoveryInv, Recovered, Clean, Count, Locked
<1>8. ASSUME NEW h \in Handle, WriteLog(h)
      PROVE  Recovered'
  <2>1. Clean /\ Len(log) = Count /\ pc[h] = "lookup" /\ Goto(h, "ids")
    BY <1>8 DEF WriteLog, RecoveryInv, Recovered
  <2>2. Len(log') = Len(log) + 1 /\ UNCHANGED <<logTorn, index, indexTorn>>
    BY <1>0, <1>8 DEF WriteLog
  <2>3. QED
    BY <1>3, <2>1, <2>2 DEF Clean, Count, Locked
<1>9. ASSUME NEW h \in Handle,
             \/ WriteIndex(h) \/ TearTail(h) \/ TearLog(h) \/ TearIds(h)
             \/ TearIndex(h)
      PROVE  Recovered'
  <2>1. pc[h] \in Locked /\ \E to \in {"done", "failed"} : Goto(h, to)
    BY <1>9 DEF WriteIndex, TearTail, TearLog, TearIds, TearIndex, Locked
  <2>2. QED
    BY <1>3, <2>1 DEF Locked
<1>10. ASSUME NEW h \in Handle,
              \/ \E e \in Event : Request(h, e)
              \/ Acquire(h) \/ ReturnExisting(h) \/ ReturnNew(h) \/ Raise(h)
              \/ Crash(h)
       PROVE  Recovered'
  <2>1. /\ UNCHANGED <<log, logTorn, index, indexTorn>>
        /\ \E to \in {"idle", "wait", "recover"} : Goto(h, to)
    BY <1>10 DEF Request, Acquire, ReturnExisting, ReturnNew, Raise, Crash, Release,
           files
  <2>2. QED
    BY <1>1, <2>1
<1>11. QED
  BY <1>2, <1>4, <1>5, <1>6, <1>7, <1>8, <1>9, <1>10 DEF Next, Work, Recover, Fault

(* Every step of a writer keeps the invariant.                             *)
LEMMA RecoveryStep == RecoveryInv /\ [Next]_vars => RecoveryInv'
  BY ControlStep, FilesStep, RecoveredStep DEF RecoveryInv

-----------------------------------------------------------------------------
(* After a power cut.                                                      *)
LEMMA PowerInitRecovery == PowerInit => RecoveryInv
<1> SUFFICES ASSUME PowerInit PROVE RecoveryInv
  OBVIOUS
<1>1. N \in Nat
  BY EventAssumption, FS_CardinalityType DEF N
<1>2. PICK written \in SetToSeqs(Event), l \in 0..N, x \in 0..N :
          /\ log = [k \in 1..l |-> [seq |-> k, id |-> written[k]]]
          /\ index = [k \in 1..x |-> k]
          /\ logTorn \in Torn(l) /\ indexTorn \in Torn(x)
  BY DEF PowerInit
<1>3. written \in [1..N -> Event]
  BY DEF SetToSeqs, N
<1>4. FilesOK /\ Numbered
  <2>1. l \in Nat /\ x \in Nat /\ l <= N
    BY <1>1
  <2>2. \A k \in 1..l : [seq |-> k, id |-> written[k]] \in Record
    BY <1>1, <1>3, <2>1 DEF Record
  <2>3. log \in Seq(Record) /\ Len(log) = l /\ \A k \in 1..l : log[k].seq = k
    BY <1>2, <2>1, <2>2
  <2>4. index \in Seq(Nat) /\ Len(index) = x /\ \A k \in 1..x : index[k] = k
    BY <1>2, <2>1
  <2>5. logTorn \in BOOLEAN /\ indexTorn \in BOOLEAN
    BY <1>2 DEF Torn
  <2>6. QED
    BY <2>3, <2>4, <2>5 DEF FilesOK, Numbered, Count
<1>5. HandlesOK /\ LockInv /\ Recovered
  BY NoHandleAssumption DEF PowerInit, HandlesOK, LockInv, Recovered, Locked
<1>6. QED
  BY <1>4, <1>5 DEF RecoveryInv

(* jsonl.py _recover: whatever prefixes of the three files a power cut     *)
(* left, and however often writers die while they recover, a writer past   *)
(* recovery has an index of the whole log, numbered by position.           *)
THEOREM RecoveryIsComplete == PowerSpec => []RecoveryRestores
<1>1. RecoveryInv => RecoveryRestores
  <2> SUFFICES ASSUME RecoveryInv, NEW h \in Handle,
                      pc[h] \in {"dedupe", "rebuild", "lookup"}
               PROVE  /\ ~logTorn /\ ~indexTorn
                      /\ index = [i \in 1..Len(log) |-> i]
                      /\ \A i \in 1..Len(log) : log[i].seq = i
    BY DEF RecoveryRestores
  <2>1. ~logTorn /\ ~indexTorn /\ Len(log) = Len(index)
    BY DEF RecoveryInv, Recovered, Clean, Count
  <2>2. index \in Seq(Nat) /\ \A i \in 1..Len(index) : index[i] = i
    BY DEF RecoveryInv, FilesOK, Numbered, Count
  <2>3. index = [i \in 1..Len(log) |-> i]
    BY <2>1, <2>2
  <2>4. QED
    BY <2>1, <2>3 DEF RecoveryInv, Numbered
<1>2. QED
  BY PowerInitRecovery, RecoveryStep, <1>1, PTL DEF PowerSpec
=============================================================================
