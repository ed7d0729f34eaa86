------------------------- MODULE JsonlBackendProofs -------------------------
(***************************************************************************)
(* Proofs about JsonlBackend for any number of handles and events, ids of  *)
(* any length, under unlimited process crashes, failed writes and torn     *)
(* writes.  The invariant is JsonlBackend's own, proved in two layers:     *)
(* ProtocolInv, one action at a time, which a lost index does not disturb  *)
(* either; then what IInv adds, which only holds while nothing is lost.    *)
(***************************************************************************)
EXTENDS JsonlBackend, FiniteSetTheorems, SequenceTheorems, TLAPS

PInv == TypeOK /\ ProtocolInv

Inv == TypeOK /\ IInv

-----------------------------------------------------------------------------
(* ids.txt by the byte: where its lines end.                               *)

IdsTyped == ids \in Seq(Seq(Byte)) /\ idsTorn \in Seq(Byte)

(* A line end is a number, and the start of the file is the first.         *)
LEMMA EndIsNat ==
    ASSUME IdsTyped, NEW n \in 0..Len(ids)
    PROVE  IsFiniteSet(Bytes(n)) /\ EndOf(n) \in Nat /\ EndOf(0) = 0
<1> DEFINE line(i) == {i} \X (0..Len(ids[i]))
           S == {line(i) : i \in 1..n}
<1>1. n \in Nat /\ \A i \in 1..n : i \in 1..Len(ids)
  BY DEF IdsTyped
<1>2. ASSUME NEW i \in 1..n
      PROVE  IsFiniteSet(line(i))
  <2>1. IsFiniteSet({i}) /\ IsFiniteSet(0..Len(ids[i]))
    <3>1. ids[i] \in Seq(Byte)
      BY <1>1 DEF IdsTyped
    <3>2. Len(ids[i]) \in Nat
      BY <3>1
    <3>3. IsFiniteSet({i})
      BY FS_Singleton
    <3>4. 0 \in Int /\ Len(ids[i]) \in Int
      BY <3>2
    <3>5. IsFiniteSet(0..Len(ids[i]))
      BY <3>4, FS_Interval
    <3>6. QED
      BY <3>3, <3>5
  <2>2. QED
    BY <2>1, FS_Product
<1> HIDE DEF line
<1>3. IsFiniteSet(S)
  <2>1. IsFiniteSet(1..n)
    BY <1>1, FS_Interval
  <2> DEFINE f == [i \in 1..n |-> line(i)]
  <2>2. f \in Surjection(1..n, S)
    BY DEF Surjection
  <2> HIDE DEF f, S
  <2>3. QED
    BY <2>1, <2>2, FS_Surjection
<1>4. \A T \in S : IsFiniteSet(T)
  BY <1>2
<1>5. IsFiniteSet(UNION S)
  BY <1>3, <1>4, FS_UNION
<1>6. IsFiniteSet(Bytes(n))
  BY <1>5 DEF Bytes, line
<1>7. EndOf(n) \in Nat
  BY <1>6, FS_CardinalityType DEF EndOf
<1>8. Bytes(0) = {}
  BY DEF Bytes
<1>9. EndOf(0) = 0
  BY <1>8, FS_EmptySet DEF EndOf
<1>10. QED
  BY <1>6, <1>7, <1>9

EndsTyped == \A n \in 0..Len(ids) : EndOf(n) \in Nat

LEMMA EndsAreTyped == IdsTyped => EndsTyped
  BY EndIsNat DEF EndsTyped

(* Later lines end later: by the newline, and by another byte if they are  *)
(* not empty.                                                              *)
LEMMA EndGrows ==
    ASSUME IdsTyped, NEW i \in 0..Len(ids), NEW j \in 0..Len(ids), i < j
    PROVE  /\ EndOf(i) < EndOf(j)
           /\ ids[j] # <<>> => EndOf(i) + 1 < EndOf(j)
<1>0. i \in Nat /\ j \in Nat /\ Len(ids) \in Nat /\ j \in 1..j /\ j \notin 1..i
  BY DEF IdsTyped
<1>1. IsFiniteSet(Bytes(i)) /\ IsFiniteSet(Bytes(j)) /\ EndOf(i) \in Nat /\ EndOf(j) \in Nat
  BY EndIsNat
<1>2. ids[j] \in Seq(Byte) /\ Len(ids[j]) \in Nat
  <2>1. j \in 1..Len(ids)
    BY <1>0
  <2>2. QED
    BY <2>1 DEF IdsTyped
<1>3. Bytes(i) \subseteq Bytes(j)
  BY <1>0 DEF Bytes
<1>4. \A x \in Bytes(i) : x[1] \in 1..i
  BY DEF Bytes
<1>5. <<j, 0>> \in Bytes(j) /\ <<j, 0>> \notin Bytes(i)
  <2>1. <<j, 0>> \in {j} \X (0..Len(ids[j]))
    BY <1>2
  <2>2. QED
    BY <1>0, <1>4, <2>1 DEF Bytes
<1> DEFINE S == Bytes(i) \cup {<<j, 0>>}
<1>6. S \subseteq Bytes(j) /\ IsFiniteSet(S) /\ Cardinality(S) = EndOf(i) + 1
  BY <1>1, <1>3, <1>5, FS_AddElement DEF EndOf
<1>7. EndOf(i) + 1 <= EndOf(j)
  BY <1>1, <1>6, FS_Subset DEF EndOf
<1>8. ASSUME ids[j] # <<>>
      PROVE  EndOf(i) + 2 <= EndOf(j)
  <2>1. 1 \in 0..Len(ids[j])
    BY <1>2, <1>8, EmptySeq
  <2>2. <<j, 1>> \in {j} \X (0..Len(ids[j]))
    BY <2>1
  <2>3. <<j, 1>> \in Bytes(j) /\ <<j, 1>> \notin Bytes(i)
    BY <1>0, <1>4, <2>2 DEF Bytes
  <2>4. <<j, 1>> \notin S
    BY <2>3
  <2>5. S \cup {<<j, 1>>} \subseteq Bytes(j)
    BY <1>6, <2>3
  <2> HIDE DEF S
  <2>6. Cardinality(S \cup {<<j, 1>>}) = Cardinality(S) + 1
        /\ IsFiniteSet(S \cup {<<j, 1>>})
    BY <1>6, <2>4, FS_AddElement
  <2>7. Cardinality(S \cup {<<j, 1>>}) <= Cardinality(Bytes(j))
    BY <1>1, <2>5, FS_Subset
  <2>8. QED
    BY <1>1, <1>6, <2>6, <2>7 DEF EndOf
<1>9. QED
  BY <1>1, <1>7, <1>8

(* Where a line ends depends on the lines up to it only.                   *)
LEMMA SameEnd ==
    ASSUME NEW n \in Nat, \A i \in 1..n : ids'[i] = ids[i]
    PROVE  EndOf(n)' = EndOf(n)
<1>1. Bytes(n)' = Bytes(n)
  BY DEF Bytes
<1>2. QED
  BY <1>1 DEF EndOf

(* Reading on from the end of the n-th line gives the lines after it, and  *)
(* leads to the end of the last one.                                       *)
LEMMA ReadOn ==
    ASSUME IdsTyped, \A i \in 1..Len(ids) : ids[i] # <<>>, NEW n \in 0..Len(ids)
    PROVE  /\ LinesFrom(EndOf(n)) = SubSeq(ids, n + 1, Len(ids))
           /\ ReadUpTo(EndOf(n)) = EndOf(Len(ids))
<1>0. n \in Nat /\ Len(ids) \in Nat /\ Len(ids) \in 0..Len(ids) /\ Len(idsTorn) \in Nat
  BY DEF IdsTyped
<1>1. EndOf(n) \in Nat /\ \A i \in 0..Len(ids) : EndOf(i) \in Nat
  BY <1>0, EndIsNat
<1>2. {i \in 1..Len(ids) : EndOf(i) - 1 <= EndOf(n)} = 1..n
  <2>1. ASSUME NEW i \in 1..Len(ids), i <= n
        PROVE  EndOf(i) - 1 <= EndOf(n)
    <3>1. CASE i = n
      BY <1>1, <3>1
    <3>2. CASE i < n
      <4>1. EndOf(i) < EndOf(n)
        BY <1>0, <3>2, EndGrows
      <4>2. QED
        BY <1>0, <1>1, <4>1
    <3>3. QED
      BY <1>0, <2>1, <3>1, <3>2
  <2>2. ASSUME NEW i \in 1..Len(ids), n < i
        PROVE  ~(EndOf(i) - 1 <= EndOf(n))
    <3>1. EndOf(n) + 1 < EndOf(i)
      BY <1>0, <2>2, EndGrows
    <3>2. EndOf(i) \in Nat
      BY <1>0, <1>1
    <3>3. QED
      BY <1>1, <3>1, <3>2
  <2>3. QED
    BY <1>0, <2>1, <2>2
<1>3. Cardinality(1..n) = n
  BY <1>0, FS_Interval
<1>4. LinesFrom(EndOf(n)) = SubSeq(ids, n + 1, Len(ids))
  <2> DEFINE at == EndOf(n)
             behind == Cardinality({i \in 1..Len(ids) : EndOf(i) - 1 <= at})
  <2>1. behind = n
    BY <1>2, <1>3
  <2>2. at <= EndOf(behind)
    BY <1>1, <2>1
  <2> HIDE DEF behind
  <2>3. LinesFrom(at) = SubSeq(ids, behind + 1, Len(ids))
    BY <2>2 DEF LinesFrom, behind
  <2>4. QED
    BY <2>1, <2>3
<1>5. EndOf(n) <= EndOf(Len(ids))
  <2>1. CASE n = Len(ids)
    BY <1>1, <2>1
  <2>2. CASE n < Len(ids)
    <3>1. EndOf(n) < EndOf(Len(ids))
      BY <1>0, <2>2, EndGrows
    <3>2. QED
      BY <1>0, <1>1, <3>1
  <2>3. QED
    BY <1>0, <2>1, <2>2
<1>6. ReadUpTo(EndOf(n)) = EndOf(Len(ids))
  BY <1>0, <1>1, <1>5 DEF ReadUpTo, FileSize
<1>7. QED
  BY <1>4, <1>6

-----------------------------------------------------------------------------
(* Caches.                                                                 *)

(* What a handle has read it has read, as long as its cache and the lines  *)
(* it stands for stay.                                                     *)
LEMMA ReadStays ==
    ASSUME NEW k, NEW n \in Nat, HasRead(k, n),
           known'[k] = known[k], offset'[k] = offset[k],
           \A i \in 1..n : ids'[i] = ids[i] /\ log'[i].id = log[i].id
    PROVE  HasRead(k, n)'
<1>1. EndOf(n)' = EndOf(n)
  BY SameEnd
<1>2. LogIds(n)' = LogIds(n)
  BY DEF LogIds
<1>3. QED
  BY <1>1, <1>2 DEF HasRead

(* A handle that has read nothing.                                         *)
LEMMA NothingRead ==
    ASSUME IdsTyped, NEW k, known[k] = NoIds, offset[k] = 0
    PROVE  HasRead(k, 0)
<1>1. 0 \in 0..Len(ids)
  BY DEF IdsTyped
<1>2. EndOf(0) = 0
  BY <1>1, EndIsNat
<1>3. LogIds(0) = {} /\ DOMAIN NoIds = {}
  BY DEF LogIds, NoIds
<1>4. QED
  BY <1>2, <1>3 DEF HasRead

(* Caches after a step of one handle: its own is as claimed, the others    *)
(* stand for lines that are still there.                                   *)
LEMMA CachesStay ==
    ASSUME IdsTyped, CacheInv, NEW h, NEW n \in 0..Len(ids'), HasRead(h, n)',
           \A k \in Handle : k # h => known'[k] = known[k] /\ offset'[k] = offset[k],
           Len(ids) <= Len(ids'), Len(ids') \in Nat,
           \A i \in 1..Len(ids) : ids'[i] = ids[i] /\ log'[i].id = log[i].id
    PROVE  CacheInv'
<1>1. ASSUME NEW k \in Handle, k # h
      PROVE  \E m \in 0..Len(ids') : HasRead(k, m)'
  <2>1. PICK m \in 0..Len(ids) : HasRead(k, m)
    BY DEF CacheInv
  <2>2. m \in Nat /\ m \in 0..Len(ids') /\ \A i \in 1..m : i \in 1..Len(ids)
    BY DEF IdsTyped
  <2>3. HasRead(k, m)'
    BY <1>1, <2>1, <2>2, ReadStays
  <2>4. QED
    BY <2>2, <2>3
<1>2. QED
  BY <1>1 DEF CacheInv

(* And after a step that touches no cache.                                 *)
LEMMA CachesKept ==
    ASSUME IdsTyped, CacheInv, UNCHANGED caches,
           Len(ids) <= Len(ids'), Len(ids') \in Nat,
           \A i \in 1..Len(ids) : ids'[i] = ids[i] /\ log'[i].id = log[i].id
    PROVE  CacheInv'
<1> SUFFICES ASSUME NEW k \in Handle
             PROVE  \E m \in 0..Len(ids') : HasRead(k, m)'
  BY DEF CacheInv
<1>1. PICK m \in 0..Len(ids) : HasRead(k, m)
  BY DEF CacheInv
<1>2. m \in Nat /\ m \in 0..Len(ids') /\ \A i \in 1..m : i \in 1..Len(ids)
  BY DEF IdsTyped
<1>3. HasRead(k, m)'
  BY <1>1, <1>2, ReadStays DEF caches
<1>4. QED
  BY <1>2, <1>3

-----------------------------------------------------------------------------
(* A set that a function on 1..n enumerates without repetition has n       *)
(* elements.                                                               *)
LEMMA EnumeratedCardinality ==
    ASSUME NEW S, NEW n \in Nat, NEW f \in [1..n -> S],
           \A i, j \in 1..n : f[i] = f[j] => i = j,
           \A x \in S : \E i \in 1..n : f[i] = x
    PROVE  IsFiniteSet(S) /\ Cardinality(S) = n
<1>1. f \in Bijection(1..n, S)
  BY DEF Bijection, Injection, Surjection, IsInjective
<1>2. ExistsBijection(1..n, S)
  BY <1>1 DEF ExistsBijection
<1>3. IsFiniteSet(1..n) /\ Cardinality(1..n) = n
  BY FS_Interval
<1>4. QED
  BY <1>2, <1>3, FS_Bijection

LEMMA PTyped ==
    ASSUME PInv
    PROVE  /\ IdsTyped /\ Len(ids) \in Nat /\ Len(ids) \in 0..Len(ids)
           /\ log \in Seq(Record) /\ Len(log) \in Nat /\ Count \in Nat
           /\ index \in Seq(Nat) /\ Count = Len(index)
           /\ Count <= Len(log) /\ Len(ids) <= Len(log) /\ CommittedEnd = Count
           /\ \A i \in 1..Len(log) : log[i] \in Record /\ log[i].id \in Event
           /\ \A i \in 1..Len(ids) : i \in 1..Len(log) /\ ids[i] = log[i].id
           /\ \A i \in 1..Len(ids) : ids[i] # <<>>
<1>1. IdsTyped /\ log \in Seq(Record) /\ index \in Seq(Nat)
  BY DEF IdsTyped, PInv, TypeOK
<1>2. Len(ids) \in Nat /\ Len(log) \in Nat /\ Count \in Nat /\ Count = Len(index)
  BY <1>1 DEF IdsTyped, Count
<1>3. \A i \in 1..Len(log) : log[i] \in Record /\ log[i].id \in Event
  <2>1. \A i \in 1..Len(log) : log[i] \in Record
    BY <1>1
  <2>2. QED
    BY <2>1 DEF Record
<1>4. Count <= Len(log) /\ Len(ids) <= Len(log) /\ CommittedEnd = Count
  <2>1. Count <= Len(log) /\ \A i \in 1..Count : index[i] = i
    BY DEF PInv, ProtocolInv, LogInv
  <2>2. CommittedEnd = Count
    BY <1>2, <2>1 DEF CommittedEnd
  <2>3. Len(ids) <= Len(log)
    BY DEF PInv, ProtocolInv, IdsInv
  <2>4. QED
    BY <2>1, <2>2, <2>3
<1>5. \A i \in 1..Len(ids) : i \in 1..Len(log) /\ ids[i] = log[i].id
  BY <1>2, <1>4 DEF PInv, ProtocolInv, IdsInv
<1>6. \A i \in 1..Len(ids) : ids[i] # <<>>
  BY <1>3, <1>5, IdAssumption
<1>7. QED
  BY <1>1, <1>2, <1>3, <1>4, <1>5, <1>6

(* The first n records of the log carry n ids.                             *)
LEMMA LogIdsCardinality ==
    ASSUME PInv, NEW n \in 0..Len(log)
    PROVE  IsFiniteSet(LogIds(n)) /\ Cardinality(LogIds(n)) = n
<1> DEFINE f == [i \in 1..n |-> log[i].id]
<1>1. n \in Nat /\ \A i \in 1..n : i \in 1..Len(log)
  BY PTyped
<1>2. f \in [1..n -> LogIds(n)]
  BY DEF LogIds
<1>3. \A i, j \in 1..n : f[i] = f[j] => i = j
  BY <1>1 DEF PInv, ProtocolInv, LogInv
<1>4. \A x \in LogIds(n) : \E i \in 1..n : f[i] = x
  BY DEF LogIds
<1> HIDE DEF f
<1>5. QED
  BY <1>1, <1>2, <1>3, <1>4, EnumeratedCardinality

LEMMA LogIdsAreEvents ==
    ASSUME PInv, NEW n \in 0..Len(log)
    PROVE  LogIds(n) \subseteq Event /\ LogIds(n) \subseteq Seq(Byte)
<1>1. \A i \in 1..n : log[i].id \in Event
  BY PTyped
<1>2. LogIds(n) \subseteq Event
  BY <1>1 DEF LogIds
<1>3. QED
  BY <1>2, IdAssumption

(* Dedupe under the invariant: refreshing a cache that holds the first m   *)
(* ids with the lines after them gives exactly the ids on disk, each with  *)
(* its position in the log.                                                *)
LEMMA RefreshedIds ==
    ASSUME PInv, NEW h \in Handle, NEW m \in 0..Len(ids), HasRead(h, m)
    PROVE  LET refreshed == SetDefault(known[h], LinesFrom(offset[h]))
           IN  /\ DOMAIN refreshed = LogIds(Len(ids))
               /\ \A i \in 1..Len(ids) : refreshed[log[i].id] = i
               /\ refreshed \in [DOMAIN refreshed -> Nat]
               /\ Cardinality(DOMAIN refreshed) = Len(ids)
<1> DEFINE fresh == SubSeq(ids, m + 1, Len(ids))
           refreshed == SetDefault(known[h], fresh)
<1>0. LinesFrom(offset[h]) = fresh
  BY PTyped, ReadOn DEF HasRead
<1>1. /\ m \in Nat /\ Len(ids) \in Nat /\ m <= Len(ids)
      /\ Len(ids) <= Len(log) /\ Len(log) \in Nat
      /\ DOMAIN known[h] = LogIds(m)
      /\ \A i \in 1..m : known[h][log[i].id] = i
      /\ \A i \in 1..Len(ids) : ids[i] = log[i].id
      /\ \A i, j \in 1..Len(log) : log[i].id = log[j].id => i = j
  BY PTyped DEF PInv, ProtocolInv, LogInv, HasRead
<1>2. /\ Len(fresh) = Len(ids) - m
      /\ \A k \in 1..(Len(ids) - m) : fresh[k] = log[m + k].id
  <2>1. ids \in Seq(Seq(Byte))
    BY PTyped DEF IdsTyped
  <2>2. /\ m + 1 \in 1..(Len(ids) + 1)
        /\ Len(ids) \in m..Len(ids)
    BY <1>1
  <2>3. /\ Len(fresh) = Len(ids) - m
        /\ \A k \in 1..(Len(ids) - m) : fresh[k] = ids[m + k]
    <3>1. /\ Len(fresh) = Len(ids) - (m + 1) + 1
          /\ \A k \in 1..(Len(ids) - (m + 1) + 1) : fresh[k] = ids[(m + 1) + k - 1]
      <4>1. CASE m = Len(ids)
        <5>1. fresh = <<>>
          BY <1>1, <2>1, <4>1, SubSeqProperties
        <5>2. QED
          BY <1>1, <4>1, <5>1
      <4>2. CASE m < Len(ids)
        BY <1>1, <2>1, <4>2, SubSeqProperties
      <4>3. QED
        BY <1>1, <4>1, <4>2
    <3>2. \A k \in 1..(Len(ids) - m) : (m + 1) + k - 1 = m + k
      BY <1>1
    <3> HIDE DEF fresh
    <3>3. QED
      BY <1>1, <3>1, <3>2
  <2> HIDE DEF fresh
  <2>4. \A k \in 1..(Len(ids) - m) : m + k \in 1..Len(ids)
    BY <1>1
  <2>5. QED
    BY <1>1, <2>3, <2>4
<1> HIDE DEF fresh
<1>3. ASSUME NEW k \in 0..(Len(ids) - m)
      PROVE  LogIds(m) \cup LineSet(fresh, k) = LogIds(m + k)
  <2>1. \A j \in 1..k : fresh[j] = log[m + j].id
    BY <1>1, <1>2
  <2> DEFINE Later == {log[m + j].id : j \in 1..k}
  <2>6. LineSet(fresh, k) = Later
    BY <2>1 DEF LineSet
  <2>2. ASSUME NEW x \in LogIds(m + k)
        PROVE  x \in LogIds(m) \cup LineSet(fresh, k)
    <3>1. PICK i \in 1..(m + k) : x = log[i].id
      BY DEF LogIds
    <3>2. CASE i <= m
      <4>1. i \in 1..m
        BY <3>1, <3>2, <1>1
      <4>2. QED
        BY <4>1, <3>1 DEF LogIds
    <3>3. CASE i > m
      <4>1. i - m \in 1..k /\ m + (i - m) = i
        BY <3>1, <3>3, <1>1
      <4>2. QED
        BY <4>1, <3>1, <2>6
    <3>4. QED
      BY <3>2, <3>3, <1>1
  <2>3. LogIds(m) \subseteq LogIds(m + k)
    BY <1>1 DEF LogIds
  <2>4. LineSet(fresh, k) \subseteq LogIds(m + k)
    BY <2>6, <1>1 DEF LogIds
  <2>5. QED
    BY <2>2, <2>3, <2>4
<1>4. ASSUME NEW n \in 0..Len(ids)
      PROVE  IsFiniteSet(LogIds(n)) /\ Cardinality(LogIds(n)) = n
  <2>1. n \in 0..Len(log)
    BY <1>1
  <2>2. QED
    BY <2>1, LogIdsCardinality
<1>5. DOMAIN refreshed = LogIds(Len(ids))
  <2>1. m + Len(fresh) = Len(ids) /\ Len(fresh) \in 0..(Len(ids) - m)
    BY <1>1, <1>2
  <2>2. DOMAIN refreshed = LogIds(m) \cup LineSet(fresh, Len(fresh))
    BY <1>1 DEF SetDefault
  <2>3. QED
    BY <2>1, <2>2, <1>3
<1>6. ASSUME NEW i \in 1..Len(ids)
      PROVE  refreshed[log[i].id] = i
  <2>1. log[i].id \in DOMAIN refreshed
    BY <1>5 DEF LogIds
  <2>2. CASE i <= m
    <3>1. log[i].id \in DOMAIN known[h] /\ known[h][log[i].id] = i
      BY <2>2, <1>1 DEF LogIds
    <3>2. QED
      BY <2>1, <3>1 DEF SetDefault
  <2>3. CASE i > m
    <3> DEFINE k == i - m
    <3>1. k \in 1..Len(fresh) /\ m + k = i /\ fresh[k] = log[i].id
      BY <2>3, <1>1, <1>2
    <3>2. log[i].id \notin DOMAIN known[h]
      BY <2>3, <1>1 DEF LogIds
    <3>3. \A j \in 1..Len(fresh) : fresh[j] = log[i].id => j = k
      <4>1. ASSUME NEW j \in 1..Len(fresh), fresh[j] = log[i].id
            PROVE  j = k
        <5>1. m + j \in 1..Len(log) /\ log[m + j].id = log[i].id
          BY <4>1, <1>1, <1>2
        <5>2. QED
          BY <5>1, <1>1
      <4>2. QED
        BY <4>1
    <3>4. FirstAt(fresh, log[i].id) = k
      <4> HIDE DEF fresh, k
      <4>1. fresh[k] = log[i].id /\ \A j \in 1..(k - 1) : fresh[j] # log[i].id
        BY <3>1, <3>3, <1>1, <1>2
      <4>2. QED
        BY <3>1, <3>3, <4>1 DEF FirstAt
    <3>5. refreshed[log[i].id]
              = Cardinality(DOMAIN known[h] \cup LineSet(fresh, k))
      BY <2>1, <3>2, <3>4 DEF SetDefault
    <3>6. DOMAIN known[h] \cup LineSet(fresh, k) = LogIds(i)
      BY <3>1, <1>1, <1>2, <1>3
    <3>7. i \in 0..Len(ids)
      BY <1>1
    <3> HIDE DEF refreshed, k
    <3>8. QED
      BY <3>5, <3>6, <3>7, <1>4
  <2>4. QED
    BY <2>2, <2>3, <1>1
<1>7. refreshed \in [DOMAIN refreshed -> Nat]
  <2>1. \A e \in DOMAIN refreshed : refreshed[e] \in Nat
    BY <1>5, <1>6 DEF LogIds
  <2>2. refreshed = [e \in DOMAIN refreshed |-> refreshed[e]]
    BY DEF SetDefault
  <2>3. QED
    BY <2>1, <2>2
<1>8. Len(ids) \in 0..Len(ids)
  BY <1>1
<1>9. Cardinality(DOMAIN refreshed) = Len(ids)
  BY <1>4, <1>5, <1>8
<1> HIDE DEF refreshed
<1>10. QED
  BY <1>0, <1>5, <1>6, <1>7, <1>9 DEF refreshed

(* Rebuild over a log that is wholly committed re-derives every id, each   *)
(* with its position.                                                      *)
LEMMA RebuiltIds ==
    ASSUME PInv, Len(log) = Count
    PROVE  /\ CommittedIds \in Seq(Event)
           /\ Len(CommittedIds) = Count
           /\ \A i \in 1..Count : CommittedIds[i] = log[i].id
           /\ DOMAIN Enumerate(CommittedIds) = LogIds(Count)
           /\ \A i \in 1..Count : Enumerate(CommittedIds)[log[i].id] = i
           /\ Enumerate(CommittedIds) \in [DOMAIN Enumerate(CommittedIds) -> Nat]
<1> DEFINE s == CommittedIds
<1>1. /\ Count \in Nat
      /\ \A i \in 1..Count : index[i] = i /\ log[i].id \in Event
      /\ \A i, j \in 1..Count : log[i].id = log[j].id => i = j
  BY PTyped DEF PInv, ProtocolInv, LogInv
<1>2. /\ s \in Seq(Event) /\ Len(s) = Count
      /\ \A i \in 1..Count : s[i] = log[i].id
  BY <1>1 DEF CommittedIds
<1> HIDE DEF s
<1>3. DOMAIN Enumerate(s) = LogIds(Count)
  BY <1>2 DEF Enumerate, LineSet, LogIds
<1>4. ASSUME NEW i \in 1..Count
      PROVE  Enumerate(s)[log[i].id] = i
  <2>1. log[i].id \in LineSet(s, Len(s))
    BY <1>2 DEF LineSet
  <2>2. s[i] = log[i].id /\ \A j \in (i + 1)..Len(s) : s[j] # log[i].id
    BY <1>1, <1>2
  <2>3. \A k \in 1..Len(s) : s[k] = log[i].id => k = i
    BY <1>1, <1>2
  <2>4. QED
    BY <1>1, <1>2, <2>1, <2>2, <2>3 DEF Enumerate
<1>5. Enumerate(s) \in [DOMAIN Enumerate(s) -> Nat]
  <2>1. \A e \in DOMAIN Enumerate(s) : Enumerate(s)[e] \in Nat
    BY <1>1, <1>3, <1>4 DEF LogIds
  <2>2. Enumerate(s) = [e \in DOMAIN Enumerate(s) |-> Enumerate(s)[e]]
    BY DEF Enumerate
  <2>3. QED
    BY <2>1, <2>2
<1>6. QED
  BY <1>2, <1>3, <1>4, <1>5 DEF s

-----------------------------------------------------------------------------
(* One lemma per action: the invariant survives it.                        *)
-----------------------------------------------------------------------------
(* The first layer, one lemma per action: the protocol survives it.        *)

(* While one handle is in its critical section no other one is.            *)
LEMMA Exclusion ==
    ASSUME PInv, NEW h \in Handle, pc[h] \in Locked
    PROVE  \A k \in Handle : k # h => pc[k] \notin Locked
  BY DEF PInv, ProtocolInv, LockInv

(* Nothing is expected of a handle outside its critical section.           *)
LEMMA PhaseOutside ==
    ASSUME NEW k, pc'[k] \notin Locked
    PROVE  Phase(k)'
  BY DEF Phase, Locked

(* A step of the handle that holds the flock, inside its critical section: *)
(* the others are outside theirs before and after.                         *)
LEMMA InsideStep ==
    ASSUME PInv, NEW h \in Handle, pc[h] \in Locked, NEW to \in Locked,
           Goto(h, to), lock' = lock, Phase(h)'
    PROVE  /\ LockInv' /\ PhaseInv' /\ pc'[h] = to
           /\ pc' \in [Handle -> Locked \cup {"idle", "wait"}]
           /\ arg' = arg => \A k \in Handle : arg'[k] = NoEvent <=> pc'[k] = "idle"
<1>1. pc \in [Handle -> Locked \cup {"idle", "wait"}]
      /\ \A k \in Handle : arg[k] = NoEvent <=> pc[k] = "idle"
  BY DEF PInv, TypeOK
<1>2. /\ pc'[h] = to /\ pc' \in [Handle -> Locked \cup {"idle", "wait"}]
      /\ \A k \in Handle : k # h => pc'[k] = pc[k]
  BY <1>1 DEF Goto
<1>3. \A k \in Handle : k # h => pc[k] \notin Locked
  BY Exclusion
<1>4. PhaseInv'
  BY <1>2, <1>3, PhaseOutside DEF PhaseInv
<1>5. LockInv'
  BY <1>2 DEF PInv, ProtocolInv, LockInv
<1>6. arg' = arg => \A k \in Handle : arg'[k] = NoEvent <=> pc'[k] = "idle"
  BY <1>1, <1>2 DEF Locked
<1>7. QED
  BY <1>2, <1>4, <1>5, <1>6

(* A step of the handle that holds the flock, out of its critical section. *)
LEMMA LeavingStep ==
    ASSUME PInv, NEW h \in Handle, pc[h] \in Locked, Release(h)
    PROVE  /\ LockInv' /\ PhaseInv' /\ lock' \in Handle \cup {NoHandle}
           /\ pc' \in [Handle -> Locked \cup {"idle", "wait"}]
           /\ arg' \in [Handle -> Event \cup {NoEvent}]
           /\ \A k \in Handle : arg'[k] = NoEvent <=> pc'[k] = "idle"
<1>1. /\ pc \in [Handle -> Locked \cup {"idle", "wait"}]
      /\ arg \in [Handle -> Event \cup {NoEvent}]
      /\ \A k \in Handle : arg[k] = NoEvent <=> pc[k] = "idle"
  BY DEF PInv, TypeOK
<1>2. /\ lock' = NoHandle /\ pc' = [pc EXCEPT ![h] = "idle"]
      /\ arg' = [arg EXCEPT ![h] = NoEvent]
  BY DEF Release, Goto
<1>3. \A k \in Handle : k # h => pc[k] \notin Locked
  BY Exclusion
<1>4. \A k \in Handle : pc'[k] \notin Locked
  BY <1>1, <1>2, <1>3 DEF Locked
<1>5. PhaseInv'
  BY <1>4, PhaseOutside DEF PhaseInv
<1>6. LockInv'
  BY <1>2, <1>4, NoHandleAssumption DEF LockInv
<1>7. QED
  BY <1>1, <1>2, <1>5, <1>6

(* The rest of the type invariant, for a cache that stays or takes a       *)
(* new map.                                                                *)
CachesTyped ==
    /\ known = [h \in Handle |-> known[h]]
    /\ \A h \in Handle :
           /\ DOMAIN known[h] \subseteq Seq(Byte)
           /\ known[h] \in [DOMAIN known[h] -> Nat]
    /\ offset \in [Handle -> Nat]

LEMMA CacheTaken ==
    ASSUME CachesTyped, NEW h \in Handle, NEW map, NEW end \in Nat,
           DOMAIN map \subseteq Seq(Byte), map \in [DOMAIN map -> Nat],
           known' = [known EXCEPT ![h] = map], offset' = [offset EXCEPT ![h] = end]
    PROVE  /\ CachesTyped' /\ known'[h] = map /\ offset'[h] = end
           /\ \A k \in Handle : k # h => known'[k] = known[k] /\ offset'[k] = offset[k]
<1>1. \A k \in Handle : known'[k] = IF k = h THEN map ELSE known[k]
  BY DEF CachesTyped
<1>2. \A k \in Handle : offset'[k] = IF k = h THEN end ELSE offset[k]
  BY DEF CachesTyped
<1>3. known' = [k \in Handle |-> known'[k]] /\ offset' \in [Handle -> Nat]
  BY DEF CachesTyped
<1>4. \A k \in Handle : DOMAIN known'[k] \subseteq Seq(Byte)
                        /\ known'[k] \in [DOMAIN known'[k] -> Nat]
  BY <1>1 DEF CachesTyped
<1>5. QED
  BY <1>1, <1>2, <1>3, <1>4 DEF CachesTyped

(* Forgetting: an empty cache has read nothing.                            *)
LEMMA CacheForgotten ==
    ASSUME PInv, NEW h \in Handle, Invalidate(h),
           UNCHANGED <<log, ids, idsTorn>>
    PROVE  CachesTyped' /\ CacheInv'
<1>1. DOMAIN NoIds = {} /\ NoIds \in [DOMAIN NoIds -> Nat] /\ 0 \in Nat
  BY DEF NoIds
<1>2. CachesTyped
  BY DEF PInv, TypeOK, CachesTyped
<1>3. known' = [known EXCEPT ![h] = NoIds] /\ offset' = [offset EXCEPT ![h] = 0]
  BY DEF Invalidate
<1> HIDE DEF NoIds
<1>4. /\ CachesTyped' /\ known'[h] = NoIds /\ offset'[h] = 0
      /\ \A k \in Handle : k # h => known'[k] = known[k] /\ offset'[k] = offset[k]
  <2>1. DOMAIN NoIds \subseteq Seq(Byte)
    BY <1>1
  <2>2. QED
    BY <1>1, <1>2, <1>3, <2>1, CacheTaken
<1>5. IdsTyped /\ IdsTyped' /\ Len(ids) \in Nat /\ 0 \in 0..Len(ids)
  BY PTyped DEF IdsTyped
<1>6. HasRead(h, 0)'
  <2>1. EndOf(0)' = EndOf(0) /\ EndOf(0) = 0
    BY <1>5, EndIsNat, SameEnd
  <2>2. LogIds(0)' = {}
    BY DEF LogIds
  <2>3. QED
    BY <1>1, <1>4, <2>1, <2>2 DEF HasRead
<1>7. CacheInv'
  <2>1. CacheInv
    BY DEF PInv, ProtocolInv
  <2>2. QED
    BY <1>4, <1>5, <1>6, <2>1, CachesStay
<1>8. QED
  BY <1>4, <1>7

(* Steps that leave log, ids.txt and the caches alone leave what is said   *)
(* of them.                                                                *)
LEMMA ElsewhereStep ==
    ASSUME PInv, UNCHANGED <<log, ids, idsTorn, caches, returned>>
    PROVE  /\ IdsInv' /\ CacheInv' /\ AnswersLogged' /\ CachesTyped'
           /\ index' = index => LogInv'
           /\ \A k, n : HasRead(k, n) => HasRead(k, n)'
<1>1. CacheInv' /\ CachesTyped'
  <2>1. CacheInv'
    BY PTyped, CachesKept DEF PInv, ProtocolInv
  <2>2. QED
    BY <2>1 DEF PInv, TypeOK, CachesTyped, caches
<1>2. IdsInv' /\ AnswersLogged'
  BY DEF PInv, ProtocolInv, IdsInv, AnswersLogged
<1>3. index' = index => LogInv'
  BY DEF PInv, ProtocolInv, LogInv, Count
<1>4. \A k, n : HasRead(k, n) => HasRead(k, n)'
  BY DEF HasRead, EndOf, Bytes, LogIds, caches
<1>5. QED
  BY <1>1, <1>2, <1>3, <1>4

(* Steps that touch no file and no cache keep every other handle's phase.  *)
LEMMA PhaseKept ==
    ASSUME PInv, UNCHANGED <<files, caches>>, NEW k \in Handle,
           pc'[k] = pc[k], arg'[k] = arg[k]
    PROVE  Phase(k)'
<1>1. \A n : HasRead(k, n) => HasRead(k, n)'
  BY DEF HasRead, EndOf, Bytes, LogIds, files, caches
<1>2. Phase(k)
  BY DEF PInv, ProtocolInv, PhaseInv
<1>3. Count' = Count /\ UNCHANGED <<log, logTorn, ids, idsTorn, index, indexTorn>>
  BY DEF Count, files
<1>4. QED
  BY <1>1, <1>2, <1>3 DEF Phase, Clean

LEMMA InitP == Init => PInv
<1> SUFFICES ASSUME Init PROVE PInv
  OBVIOUS
<1>1. DOMAIN NoIds = {} /\ NoIds \in [DOMAIN NoIds -> Nat]
  BY DEF NoIds
<1>2. IdsTyped /\ Len(ids) = 0 /\ ids = <<>> /\ idsTorn = <<>>
  BY DEF Init, IdsTyped
<1>3. known = [h \in Handle |-> NoIds] /\ offset = [h \in Handle |-> 0]
  BY DEF Init
<1>4. CachesTyped
  BY <1>1, <1>3 DEF CachesTyped
<1>5. CacheInv
  <2>1. ASSUME NEW h \in Handle
        PROVE  HasRead(h, 0)
    BY <1>2, <1>3, NothingRead
  <2>2. QED
    BY <1>2, <2>1 DEF CacheInv
<1>6. TypeOK
  <2>1. log \in Seq(Record) /\ index \in Seq(Nat) /\ returned = {}
    BY DEF Init
  <2>2. QED
    BY <1>2, <1>4, <2>1 DEF Init, TypeOK, CachesTyped, IdsTyped, Locked
<1>7. LogInv /\ IdsInv /\ AnswersLogged
  BY <1>2 DEF Init, LogInv, IdsInv, AnswersLogged, Count
<1>8. LockInv /\ PhaseInv
  BY NoHandleAssumption DEF Init, LockInv, PhaseInv, Phase, Locked
<1>9. QED
  BY <1>5, <1>6, <1>7, <1>8 DEF PInv, ProtocolInv

LEMMA RequestInv ==
    ASSUME PInv, NEW h \in Handle, NEW e \in Event, Request(h, e)
    PROVE  PInv'
<1>1. /\ UNCHANGED <<files, lock, caches, returned>> /\ pc[h] = "idle"
      /\ arg' = [arg EXCEPT ![h] = e] /\ pc' = [pc EXCEPT ![h] = "wait"]
  BY DEF Request, Goto
<1>2. IdsInv' /\ CacheInv' /\ AnswersLogged' /\ CachesTyped' /\ LogInv'
  BY <1>1, ElsewhereStep DEF files
<1>3. TypeOK'
  BY <1>1, <1>2, NoEventAssumption DEF PInv, TypeOK, CachesTyped, files
<1>4. LockInv'
  BY <1>1 DEF PInv, TypeOK, ProtocolInv, LockInv, Locked
<1>5. PhaseInv'
  <2> SUFFICES ASSUME NEW k \in Handle PROVE Phase(k)'
    BY DEF PhaseInv
  <2>1. CASE k = h
    BY <1>1, <2>1, PhaseOutside DEF PInv, TypeOK, Locked
  <2>2. CASE k # h
    BY <1>1, <2>2, PhaseKept DEF PInv, TypeOK
  <2>3. QED
    BY <2>1, <2>2
<1>6. QED
  BY <1>2, <1>3, <1>4, <1>5 DEF PInv, ProtocolInv

LEMMA AcquireInv ==
    ASSUME PInv, NEW h \in Handle, Acquire(h)
    PROVE  PInv'
<1>1. /\ UNCHANGED <<files, arg, caches, returned>> /\ pc[h] = "wait"
      /\ lock = NoHandle /\ lock' = h /\ pc' = [pc EXCEPT ![h] = "recover"]
  BY DEF Acquire, Goto
<1>2. IdsInv' /\ CacheInv' /\ AnswersLogged' /\ CachesTyped' /\ LogInv'
  BY <1>1, ElsewhereStep DEF files
<1>3. TypeOK'
  BY <1>1, <1>2 DEF PInv, TypeOK, CachesTyped, files, Locked
<1>4. LockInv'
  BY <1>1, NoHandleAssumption DEF PInv, TypeOK, ProtocolInv, LockInv, Locked
<1>5. PhaseInv'
  <2> SUFFICES ASSUME NEW k \in Handle PROVE Phase(k)'
    BY DEF PhaseInv
  <2>1. CASE k = h
    BY <1>1, <2>1 DEF PInv, TypeOK, Phase
  <2>2. CASE k # h
    BY <1>1, <2>2, PhaseKept DEF PInv, TypeOK
  <2>3. QED
    BY <2>1, <2>2
<1>6. QED
  BY <1>2, <1>3, <1>4, <1>5 DEF PInv, ProtocolInv

LEMMA RecoverRaggedInv ==
    ASSUME PInv, NEW h \in Handle, RecoverRagged(h)
    PROVE  PInv'
<1>1. /\ UNCHANGED <<log, logTorn, ids, idsTorn, index, lock, pc, arg, caches, returned>>
      /\ pc[h] = "recover" /\ indexTorn' = FALSE
  BY DEF RecoverRagged
<1>2. IdsInv' /\ CacheInv' /\ AnswersLogged' /\ CachesTyped' /\ LogInv'
  BY <1>1, ElsewhereStep
<1>3. TypeOK'
  BY <1>1, <1>2 DEF PInv, TypeOK, CachesTyped
<1>4. Goto(h, "recover")
  BY <1>1 DEF Goto, PInv, TypeOK
<1>5. Phase(h)'
  BY <1>1 DEF Phase
<1>6. LockInv' /\ PhaseInv'
  BY <1>1, <1>4, <1>5, InsideStep DEF Locked
<1>7. QED
  BY <1>2, <1>3, <1>6 DEF PInv, ProtocolInv

LEMMA RecoverResetInv ==
    ASSUME PInv, NEW h \in Handle, RecoverReset(h)
    PROVE  FALSE
  BY PTyped DEF RecoverReset

LEMMA RecoverCleanInv ==
    ASSUME PInv, NEW h \in Handle, RecoverClean(h)
    PROVE  PInv'
<1>1. /\ UNCHANGED <<files, lock, arg, caches, returned>>
      /\ pc[h] = "recover" /\ Goto(h, "dedupe")
      /\ ~indexTorn /\ ~logTorn /\ Len(log) = Count
  BY PTyped DEF RecoverClean
<1>2. IdsInv' /\ CacheInv' /\ AnswersLogged' /\ CachesTyped' /\ LogInv'
  BY <1>1, ElsewhereStep DEF files
<1>3. Phase(h)'
  <2>1. pc'[h] = "dedupe"
    BY <1>1 DEF Goto, PInv, TypeOK
  <2>2. QED
    BY <1>1, <2>1 DEF Phase, Clean, Count, files
<1>4. /\ LockInv' /\ PhaseInv' /\ pc' \in [Handle -> Locked \cup {"idle", "wait"}]
      /\ \A k \in Handle : arg'[k] = NoEvent <=> pc'[k] = "idle"
  BY <1>1, <1>3, InsideStep DEF Locked
<1>5. TypeOK'
  BY <1>1, <1>2, <1>4 DEF PInv, TypeOK, CachesTyped, files
<1>6. QED
  BY <1>2, <1>4, <1>5 DEF PInv, ProtocolInv

(* The first n records past the index go into it.                          *)
LEMMA LongerIndex ==
    ASSUME PInv, NEW n \in Nat, index' = index \o TailEntries(n)
    PROVE  /\ index' \in Seq(Nat) /\ Count' = Count + n
           /\ \A i \in 1..Count' : index'[i] = i
<1> DEFINE t == [i \in 1..n |-> Count + i]
<1>0. Count \in Nat /\ Count = Len(index) /\ index \in Seq(Nat) /\ CommittedEnd = Count
      /\ \A i \in 1..Count : index[i] = i
  BY PTyped DEF PInv, ProtocolInv, LogInv
<1>1. TailEntries(n) = t
  BY <1>0 DEF TailEntries
<1>2. t \in Seq(Nat) /\ Len(t) = n /\ \A i \in 1..n : t[i] = Count + i
  BY <1>0
<1> HIDE DEF t
<1>3. /\ index' \in Seq(Nat) /\ Len(index') = Count + n
      /\ \A i \in 1..(Count + n) :
             index'[i] = IF i <= Count THEN index[i] ELSE t[i - Count]
  BY <1>0, <1>1, <1>2, ConcatProperties
<1>4. ASSUME NEW i \in 1..(Count + n)
      PROVE  index'[i] = i
  <2>1. CASE i <= Count
    BY <1>0, <1>3, <2>1
  <2>2. CASE ~(i <= Count)
    <3>1. i - Count \in 1..n /\ Count + (i - Count) = i
      BY <1>0, <2>2
    <3>2. QED
      BY <1>2, <1>3, <2>2, <3>1
  <2>3. QED
    BY <2>1, <2>2
<1>5. QED
  BY <1>3, <1>4 DEF Count

LEMMA CommitTailInv ==
    ASSUME PInv, NEW h \in Handle, CommitTail(h)
    PROVE  PInv'
<1>1. /\ UNCHANGED <<log, logTorn, ids, idsTorn, indexTorn, lock, arg, caches, returned>>
      /\ pc[h] = "recover" /\ Goto(h, "truncate") /\ ~indexTorn
      /\ index' = index \o TailEntries(Len(log) - Count)
  BY PTyped DEF CommitTail
<1>2. IdsInv' /\ CacheInv' /\ AnswersLogged' /\ CachesTyped'
  BY <1>1, ElsewhereStep
<1>3. /\ index' \in Seq(Nat) /\ Count' = Len(log)
      /\ \A i \in 1..Count' : index'[i] = i
  <2>1. Len(log) - Count \in Nat /\ Count + (Len(log) - Count) = Len(log)
    BY PTyped
  <2>2. QED
    BY <1>1, <2>1, LongerIndex
<1>4. LogInv'
  <2>1. /\ \A i \in 1..Len(log) : log[i].seq = i
        /\ \A i, j \in 1..Len(log) : log[i].id = log[j].id => i = j
    BY DEF PInv, ProtocolInv, LogInv
  <2>2. Len(log) <= Len(log)
    BY PTyped
  <2>3. QED
    BY <1>1, <1>3, <2>1, <2>2 DEF LogInv
<1>5. Phase(h)'
  <2>1. pc'[h] = "truncate"
    BY <1>1 DEF Goto, PInv, TypeOK
  <2>2. QED
    BY <1>1, <1>3, <2>1 DEF Phase
<1>6. /\ LockInv' /\ PhaseInv' /\ pc' \in [Handle -> Locked \cup {"idle", "wait"}]
      /\ \A k \in Handle : arg'[k] = NoEvent <=> pc'[k] = "idle"
  BY <1>1, <1>5, InsideStep DEF Locked
<1>7. TypeOK'
  BY <1>1, <1>2, <1>3, <1>6 DEF PInv, TypeOK, CachesTyped
<1>8. QED
  BY <1>2, <1>4, <1>6, <1>7 DEF PInv, ProtocolInv

LEMMA TearTailInv ==
    ASSUME PInv, NEW h \in Handle, TearTail(h)
    PROVE  PInv' /\ Count <= Count'
<1>1. /\ UNCHANGED <<log, logTorn, ids, idsTorn, lock, arg, caches, returned>>
      /\ pc[h] = "recover" /\ Goto(h, "failed") /\ indexTorn' = TRUE
      /\ \E n \in 0..(Len(log) - Count - 1) : index' = index \o TailEntries(n)
  BY PTyped DEF TearTail
<1>2. IdsInv' /\ CacheInv' /\ AnswersLogged' /\ CachesTyped'
  BY <1>1, ElsewhereStep
<1>3. /\ index' \in Seq(Nat) /\ Count' <= Len(log) /\ Count <= Count'
      /\ \A i \in 1..Count' : index'[i] = i
  <2>1. PICK n \in 0..(Len(log) - Count - 1) : index' = index \o TailEntries(n)
    BY <1>1
  <2>2. n \in Nat /\ Count + n <= Len(log) /\ Count <= Count + n
    BY PTyped
  <2>3. QED
    BY <2>1, <2>2, LongerIndex
<1>4. LogInv'
  <2>1. /\ \A i \in 1..Len(log) : log[i].seq = i
        /\ \A i, j \in 1..Len(log) : log[i].id = log[j].id => i = j
    BY DEF PInv, ProtocolInv, LogInv
  <2>2. QED
    BY <1>1, <1>3, <2>1 DEF LogInv
<1>5. Phase(h)'
  BY <1>1 DEF Phase, Goto, PInv, TypeOK
<1>6. /\ LockInv' /\ PhaseInv' /\ pc' \in [Handle -> Locked \cup {"idle", "wait"}]
      /\ \A k \in Handle : arg'[k] = NoEvent <=> pc'[k] = "idle"
  BY <1>1, <1>5, InsideStep DEF Locked
<1>7. TypeOK'
  BY <1>1, <1>2, <1>3, <1>6 DEF PInv, TypeOK, CachesTyped
<1>8. QED
  BY <1>2, <1>3, <1>4, <1>6, <1>7 DEF PInv, ProtocolInv

LEMMA TruncateLogInv ==
    ASSUME PInv, NEW h \in Handle, TruncateLog(h)
    PROVE  PInv'
<1>1. /\ UNCHANGED <<log, ids, idsTorn, index, indexTorn, lock, arg, returned>>
      /\ pc[h] = "truncate" /\ Goto(h, "dedupe") /\ logTorn' = FALSE /\ Invalidate(h)
  BY DEF TruncateLog
<1>2. CachesTyped' /\ CacheInv'
  BY <1>1, CacheForgotten
<1>3. LogInv' /\ IdsInv' /\ AnswersLogged'
  BY <1>1 DEF PInv, ProtocolInv, LogInv, IdsInv, AnswersLogged, Count
<1>4. Phase(h)'
  <2>1. pc'[h] = "dedupe"
    BY <1>1 DEF Goto, PInv, TypeOK
  <2>2. ~indexTorn /\ Len(log) = Count
    BY <1>1 DEF PInv, ProtocolInv, PhaseInv, Phase
  <2>3. QED
    BY <1>1, <2>1, <2>2 DEF Phase, Clean, Count
<1>5. /\ LockInv' /\ PhaseInv' /\ pc' \in [Handle -> Locked \cup {"idle", "wait"}]
      /\ \A k \in Handle : arg'[k] = NoEvent <=> pc'[k] = "idle"
  BY <1>1, <1>4, InsideStep DEF Locked
<1>6. TypeOK'
  BY <1>1, <1>2, <1>5 DEF PInv, TypeOK, CachesTyped
<1>7. QED
  BY <1>2, <1>3, <1>5, <1>6 DEF PInv, ProtocolInv

LEMMA DedupeInv ==
    ASSUME PInv, NEW h \in Handle, Dedupe(h)
    PROVE  PInv'
<1> DEFINE refreshed == SetDefault(known[h], LinesFrom(offset[h]))
           to == IF Cardinality(DOMAIN refreshed) = Count THEN "lookup" ELSE "rebuild"
<1>1. /\ pc[h] = "dedupe" /\ UNCHANGED <<files, lock, arg, returned>>
      /\ known' = [known EXCEPT ![h] = refreshed]
      /\ offset' = [offset EXCEPT ![h] = ReadUpTo(offset[h])]
      /\ Goto(h, to)
  BY DEF Dedupe
<1>2. PICK m \in 0..Len(ids) : HasRead(h, m)
  BY DEF PInv, ProtocolInv, CacheInv
<1>3. /\ DOMAIN refreshed = LogIds(Len(ids))
      /\ \A i \in 1..Len(ids) : refreshed[log[i].id] = i
      /\ refreshed \in [DOMAIN refreshed -> Nat]
      /\ Cardinality(DOMAIN refreshed) = Len(ids)
  BY <1>2, RefreshedIds
<1> HIDE DEF refreshed
<1>4. /\ IdsTyped /\ Len(ids) \in Nat /\ Len(ids) \in 0..Len(ids) /\ Len(ids) \in 0..Len(log)
      /\ Count \in Nat
  BY PTyped
<1>5. ReadUpTo(offset[h]) = EndOf(Len(ids)) /\ EndOf(Len(ids)) \in Nat
  <2>1. offset[h] = EndOf(m)
    BY <1>2 DEF HasRead
  <2>2. ReadUpTo(EndOf(m)) = EndOf(Len(ids))
    BY PTyped, ReadOn
  <2>3. EndOf(Len(ids)) \in Nat
    BY <1>4, EndIsNat
  <2>4. QED
    BY <2>1, <2>2, <2>3
<1>6. /\ CachesTyped' /\ known'[h] = refreshed /\ offset'[h] = EndOf(Len(ids))
      /\ \A k \in Handle : k # h => known'[k] = known[k] /\ offset'[k] = offset[k]
  <2>1. DOMAIN refreshed \subseteq Seq(Byte)
    BY <1>3, <1>4, LogIdsAreEvents
  <2>2. CachesTyped
    BY DEF PInv, TypeOK, CachesTyped
  <2>3. PICK end \in Nat : end = EndOf(Len(ids))
    BY <1>5
  <2>4. known' = [known EXCEPT ![h] = refreshed] /\ offset' = [offset EXCEPT ![h] = end]
    BY <1>1, <1>5, <2>3
  <2>5. /\ CachesTyped' /\ known'[h] = refreshed /\ offset'[h] = end
        /\ \A k \in Handle : k # h => known'[k] = known[k] /\ offset'[k] = offset[k]
    BY <1>3, <2>1, <2>2, <2>4, CacheTaken
  <2>6. QED
    BY <2>3, <2>5
<1>7. UNCHANGED <<log, logTorn, ids, idsTorn, index, indexTorn>>
  BY <1>1 DEF files
<1>8. PICK n \in Nat : n = Len(ids)
  BY <1>4
<1>8a. HasRead(h, n)'
  <2>1. EndOf(n)' = EndOf(n) /\ LogIds(n)' = LogIds(n)
    BY <1>7 DEF EndOf, Bytes, LogIds
  <2>2. QED
    BY <1>3, <1>6, <1>7, <1>8, <2>1 DEF HasRead
<1>9. CacheInv'
  <2>1. n \in 0..Len(ids') /\ Len(ids') \in Nat /\ Len(ids) <= Len(ids')
    BY <1>4, <1>7, <1>8
  <2>2. CacheInv
    BY DEF PInv, ProtocolInv
  <2>3. QED
    BY <1>4, <1>6, <1>7, <1>8a, <2>1, <2>2, CachesStay
<1>10. LogInv' /\ IdsInv' /\ AnswersLogged'
  BY <1>1, <1>7 DEF PInv, ProtocolInv, LogInv, IdsInv, AnswersLogged, Count
<1>11. Phase(h)'
  <2>1. Clean /\ Len(log) = Count
    BY <1>1 DEF PInv, ProtocolInv, PhaseInv, Phase
  <2>2. pc'[h] = to
    BY <1>1 DEF Goto, PInv, TypeOK
  <2>3. CASE Cardinality(DOMAIN refreshed) = Count
    <3>1. Len(ids) = Count /\ pc'[h] = "lookup"
      BY <1>3, <2>2, <2>3
    <3>2. idsTorn = <<>>
      BY <1>4, <2>1, <3>1 DEF PInv, ProtocolInv, IdsInv
    <3>3. HasRead(h, Count)'
      <4>1. Count' = n
        BY <1>7, <1>8, <3>1 DEF Count
      <4>2. QED
        BY <1>8a, <4>1 DEF HasRead, LogIds
    <3>4. QED
      BY <1>7, <2>1, <3>1, <3>2, <3>3 DEF Phase, Clean, Count
  <2>4. CASE Cardinality(DOMAIN refreshed) # Count
    <3>1. pc'[h] = "rebuild"
      BY <2>2, <2>4
    <3>2. QED
      BY <1>7, <2>1, <3>1 DEF Phase, Clean, Count
  <2>5. QED
    BY <2>3, <2>4
<1>12. /\ LockInv' /\ PhaseInv' /\ pc' \in [Handle -> Locked \cup {"idle", "wait"}]
       /\ \A k \in Handle : arg'[k] = NoEvent <=> pc'[k] = "idle"
  <2>1. to \in Locked /\ pc[h] \in Locked
    BY <1>1 DEF Locked
  <2> HIDE DEF to
  <2>2. QED
    BY <1>1, <1>11, <2>1, InsideStep
<1>13. TypeOK'
  BY <1>1, <1>6, <1>7, <1>12 DEF PInv, TypeOK, CachesTyped
<1>14. QED
  BY <1>9, <1>10, <1>12, <1>13 DEF PInv, ProtocolInv

LEMMA RebuildInv ==
    ASSUME PInv, NEW h \in Handle, Rebuild(h)
    PROVE  PInv'
<1> DEFINE map == Enumerate(CommittedIds)
<1>1. /\ pc[h] = "rebuild" /\ Goto(h, "lookup")
      /\ ids' = CommittedIds /\ idsTorn' = <<>>
      /\ known' = [known EXCEPT ![h] = map]
      /\ offset' = [offset EXCEPT ![h] = FileSize']
      /\ UNCHANGED <<log, logTorn, index, indexTorn, lock, arg, returned>>
  BY DEF Rebuild
<1>2. Clean /\ Len(log) = Count
  BY <1>1 DEF PInv, ProtocolInv, PhaseInv, Phase
<1>3. /\ CommittedIds \in Seq(Event) /\ Len(CommittedIds) = Count
      /\ \A i \in 1..Count : CommittedIds[i] = log[i].id
      /\ DOMAIN map = LogIds(Count)
      /\ \A i \in 1..Count : map[log[i].id] = i
      /\ map \in [DOMAIN map -> Nat]
  BY <1>2, RebuiltIds
<1> HIDE DEF map
<1>4. /\ Count \in Nat /\ Count \in 0..Len(log) /\ Len(ids) \in Nat /\ Len(ids) <= Count
      /\ IdsTyped /\ \A i \in 1..Len(ids) : i \in 1..Count /\ ids[i] = log[i].id
  BY <1>2, PTyped
<1>5. ids' \in Seq(Seq(Byte)) /\ IdsTyped' /\ Len(ids') = Count
      /\ \A i \in 1..Count : ids'[i] = log[i].id
  <2>1. CommittedIds \in Seq(Seq(Byte))
    <3>1. \A i \in 1..Len(CommittedIds) : CommittedIds[i] \in Seq(Byte)
      BY <1>3, IdAssumption
    <3>2. QED
      BY <1>3, <3>1
  <2>2. QED
    BY <1>1, <1>3, <2>1 DEF IdsTyped
<1>6. PICK n \in Nat : n = Count
  BY <1>4
<1>6a. FileSize' = EndOf(n)' /\ FileSize' \in Nat
  <2>1. IdsTyped' => EndsTyped'
    BY EndsAreTyped, PTL
  <2>2. EndOf(n)' \in Nat
    BY <1>5, <1>6, <2>1 DEF EndsTyped
  <2>3. FileSize' = EndOf(Len(ids))' + Len(idsTorn')
    BY DEF FileSize
  <2>4. Len(idsTorn') = 0
    BY <1>1
  <2>5. EndOf(Len(ids))' = EndOf(n)'
    BY <1>5, <1>6 DEF EndOf, Bytes
  <2>6. QED
    BY <2>2, <2>3, <2>4, <2>5
<1>7. /\ CachesTyped' /\ known'[h] = map /\ offset'[h] = EndOf(n)'
      /\ \A k \in Handle : k # h => known'[k] = known[k] /\ offset'[k] = offset[k]
  <2>1. DOMAIN map \subseteq Seq(Byte)
    BY <1>3, <1>4, LogIdsAreEvents
  <2>2. CachesTyped
    BY DEF PInv, TypeOK, CachesTyped
  <2>3. PICK end \in Nat : end = FileSize'
    BY <1>6a
  <2>4. known' = [known EXCEPT ![h] = map] /\ offset' = [offset EXCEPT ![h] = end]
    BY <1>1, <2>3
  <2>5. /\ CachesTyped' /\ known'[h] = map /\ offset'[h] = end
        /\ \A k \in Handle : k # h => known'[k] = known[k] /\ offset'[k] = offset[k]
    BY <1>3, <2>1, <2>2, <2>4, CacheTaken
  <2>6. QED
    BY <1>6a, <2>3, <2>5
<1>8. HasRead(h, n)'
  <2>1. LogIds(n)' = LogIds(n)
    BY <1>1 DEF LogIds
  <2>2. QED
    BY <1>1, <1>3, <1>6, <1>7, <2>1 DEF HasRead
<1>9. CacheInv'
  <2>1. n \in 0..Len(ids') /\ Len(ids') \in Nat /\ Len(ids) <= Len(ids')
    BY <1>4, <1>5, <1>6
  <2>2. \A i \in 1..Len(ids) : ids'[i] = ids[i] /\ log'[i].id = log[i].id
    BY <1>1, <1>4, <1>5
  <2>3. CacheInv
    BY DEF PInv, ProtocolInv
  <2>4. QED
    BY <1>4, <1>7, <1>8, <2>1, <2>2, <2>3, CachesStay
<1>10. LogInv' /\ AnswersLogged'
  BY <1>1 DEF PInv, ProtocolInv, LogInv, AnswersLogged, Count
<1>11. IdsInv'
  BY <1>1, <1>2, <1>4, <1>5 DEF IdsInv
<1>12. Phase(h)'
  <2>1. pc'[h] = "lookup"
    BY <1>1 DEF Goto, PInv, TypeOK
  <2>2. Count' = n
    BY <1>1, <1>6 DEF Count
  <2>3. HasRead(h, Count)'
    BY <1>8, <2>2 DEF HasRead, LogIds
  <2>4. QED
    BY <1>1, <1>2, <1>5, <1>6, <2>1, <2>2, <2>3 DEF Phase, Clean
<1>13. /\ LockInv' /\ PhaseInv' /\ pc' \in [Handle -> Locked \cup {"idle", "wait"}]
       /\ \A k \in Handle : arg'[k] = NoEvent <=> pc'[k] = "idle"
  BY <1>1, <1>12, InsideStep DEF Locked
<1>14. TypeOK'
  BY <1>1, <1>5, <1>7, <1>13 DEF PInv, TypeOK, CachesTyped, IdsTyped
<1>15. QED
  BY <1>9, <1>10, <1>11, <1>13, <1>14 DEF PInv, ProtocolInv

LEMMA ReturnExistingInv ==
    ASSUME PInv, NEW h \in Handle, ReturnExisting(h)
    PROVE  PInv' /\ Len(log) = Count
<1>1. /\ pc[h] = "lookup" /\ arg[h] \in DOMAIN known[h] /\ Release(h)
      /\ returned' = returned \cup {<<arg[h], known[h][arg[h]]>>}
      /\ UNCHANGED <<files, caches>>
  BY DEF ReturnExisting, IsRepeat
<1>2. Len(log) = Count /\ HasRead(h, Count)
  BY <1>1 DEF PInv, ProtocolInv, PhaseInv, Phase
<1>3. PICK i \in 1..Count : log[i].id = arg[h] /\ known[h][arg[h]] = i
  <2>1. PICK i \in 1..Count : log[i].id = arg[h]
    BY <1>1, <1>2 DEF HasRead, LogIds
  <2>2. QED
    BY <1>2, <2>1 DEF HasRead
<1>4. arg[h] \in Event /\ i \in Nat
  BY <1>1, <1>3, PTyped DEF PInv, TypeOK
<1>5. LogInv' /\ IdsInv'
  BY <1>1 DEF PInv, ProtocolInv, LogInv, IdsInv, Count, files
<1>6. CacheInv' /\ CachesTyped'
  <2>1. CacheInv'
    BY <1>1, PTyped, CachesKept DEF PInv, ProtocolInv, files
  <2>2. QED
    BY <1>1, <2>1 DEF PInv, TypeOK, CachesTyped, caches
<1>7. AnswersLogged'
  BY <1>1, <1>2, <1>3 DEF PInv, ProtocolInv, AnswersLogged, files
<1>8. /\ LockInv' /\ PhaseInv' /\ lock' \in Handle \cup {NoHandle}
      /\ pc' \in [Handle -> Locked \cup {"idle", "wait"}]
      /\ arg' \in [Handle -> Event \cup {NoEvent}]
      /\ \A k \in Handle : arg'[k] = NoEvent <=> pc'[k] = "idle"
  BY <1>1, LeavingStep DEF Locked
<1>9. TypeOK'
  BY <1>1, <1>3, <1>4, <1>6, <1>8 DEF PInv, TypeOK, CachesTyped, files
<1>10. QED
  BY <1>2, <1>5, <1>6, <1>7, <1>8, <1>9 DEF PInv, ProtocolInv

LEMMA WriteLogInv ==
    ASSUME PInv, NEW h \in Handle, WriteLog(h)
    PROVE  PInv' /\ Len(log) = Count
<1> DEFINE r == [seq |-> Count + 1, id |-> arg[h]]
<1>1. /\ pc[h] = "lookup" /\ arg[h] \notin DOMAIN known[h] /\ Goto(h, "ids")
      /\ log' = Append(log, r)
      /\ UNCHANGED <<logTorn, ids, idsTorn, index, indexTorn,
                     lock, arg, caches, returned>>
  BY DEF WriteLog, IsRepeat
<1>2. /\ Clean /\ Len(log) = Count /\ Len(ids) = Count /\ idsTorn = <<>>
      /\ HasRead(h, Count)
  BY <1>1 DEF PInv, ProtocolInv, PhaseInv, Phase
<1>3. arg[h] \in Event /\ r \in Record
  <2>1. arg[h] \in Event
    BY <1>1 DEF PInv, TypeOK
  <2>2. QED
    BY <2>1, PTyped DEF Record
<1>4. /\ r.seq = Count + 1 /\ r.id = arg[h]
      /\ log' \in Seq(Record) /\ Len(log') = Count + 1
      /\ \A i \in 1..Count : log'[i] = log[i]
      /\ log'[Count + 1] = r
  BY <1>1, <1>2, <1>3, PTyped
<1> HIDE DEF r
<1>5. \A i \in 1..Count : log[i].id # arg[h]
  BY <1>1, <1>2 DEF HasRead, LogIds
<1>6. LogInv'
  <2>1. /\ Count' = Count /\ Count \in Nat
        /\ \A i \in 1..Count : index'[i] = i
    BY <1>1, PTyped DEF Count, PInv, ProtocolInv, LogInv
  <2>2. \A i \in 1..Len(log') : i \in 1..Count \/ i = Count + 1
    BY <1>4, <2>1
  <2>3. \A i \in 1..Len(log') : log'[i].seq = i
    BY <1>2, <1>4, <2>2 DEF PInv, ProtocolInv, LogInv
  <2>4. \A i, j \in 1..Len(log') : log'[i].id = log'[j].id => i = j
    BY <1>2, <1>4, <1>5, <2>2 DEF PInv, ProtocolInv, LogInv
  <2>5. QED
    BY <1>4, <2>1, <2>3, <2>4 DEF LogInv
<1>7. IdsInv'
  BY <1>1, <1>2, <1>4, PTyped DEF IdsInv
<1>8. CacheInv' /\ CachesTyped'
  <2>1. /\ IdsTyped /\ Len(ids) <= Len(ids') /\ Len(ids') \in Nat
        /\ \A i \in 1..Len(ids) : ids'[i] = ids[i] /\ log'[i].id = log[i].id
    BY <1>1, <1>2, <1>4, PTyped
  <2>2. CacheInv'
    BY <1>1, <2>1, CachesKept DEF PInv, ProtocolInv
  <2>3. QED
    BY <1>1, <2>2 DEF PInv, TypeOK, CachesTyped, caches
<1>9. AnswersLogged'
  <2>1. \A a \in returned : a[2] \in 1..Count /\ log[a[2]].id = a[1]
    BY <1>2 DEF PInv, ProtocolInv, AnswersLogged
  <2>2. \A a \in returned : a[2] \in 1..Len(log')
    BY <1>4, <2>1, PTyped
  <2>3. QED
    BY <1>1, <1>4, <2>1, <2>2 DEF AnswersLogged
<1>10. Phase(h)'
  <2>1. pc'[h] = "ids"
    BY <1>1 DEF Goto, PInv, TypeOK
  <2>2. PICK n \in Nat : n = Count
    BY PTyped
  <2>3. HasRead(h, n)'
    BY <1>1, <1>2, <1>4, <2>2, ReadStays DEF caches
  <2>4. Count' = n
    BY <1>1, <2>2 DEF Count
  <2>5. HasRead(h, Count)'
    BY <2>3, <2>4 DEF HasRead, LogIds
  <2>6. QED
    BY <1>1, <1>2, <1>4, <2>1, <2>2, <2>4, <2>5 DEF Phase, Clean
<1>11. /\ LockInv' /\ PhaseInv' /\ pc' \in [Handle -> Locked \cup {"idle", "wait"}]
       /\ \A k \in Handle : arg'[k] = NoEvent <=> pc'[k] = "idle"
  BY <1>1, <1>10, InsideStep DEF Locked
<1>12. TypeOK'
  BY <1>1, <1>4, <1>8, <1>11 DEF PInv, TypeOK, CachesTyped
<1>13. QED
  BY <1>2, <1>6, <1>7, <1>8, <1>9, <1>11, <1>12 DEF PInv, ProtocolInv

LEMMA WriteIdsInv ==
    ASSUME PInv, NEW h \in Handle, WriteIds(h)
    PROVE  PInv'
<1>1. /\ pc[h] = "ids" /\ Goto(h, "index")
      /\ ids' = Append(ids, idsTorn \o arg[h]) /\ idsTorn' = <<>>
      /\ UNCHANGED <<log, logTorn, index, indexTorn, lock, arg, caches, returned>>
  BY DEF WriteIds
<1>2. /\ Clean /\ Len(log) = Count + 1 /\ Len(ids) = Count /\ idsTorn = <<>>
      /\ HasRead(h, Count) /\ log[Count + 1].id = arg[h]
  BY <1>1 DEF PInv, ProtocolInv, PhaseInv, Phase
<1>3. arg[h] \in Seq(Byte)
  <2>1. arg[h] \in Event
    BY <1>1 DEF PInv, TypeOK
  <2>2. QED
    BY <2>1, IdAssumption
<1>4. idsTorn \o arg[h] = arg[h]
  BY <1>2, <1>3
<1>5. /\ ids' \in Seq(Seq(Byte)) /\ Len(ids') = Count + 1
      /\ \A i \in 1..Count : ids'[i] = ids[i]
      /\ ids'[Count + 1] = arg[h]
  <2>1. ids \in Seq(Seq(Byte)) /\ Count \in Nat
    BY PTyped DEF IdsTyped
  <2>2. ids' = Append(ids, arg[h])
    BY <1>1, <1>4
  <2>3. QED
    BY <1>2, <1>3, <2>1, <2>2, AppendProperties
<1>6. LogInv' /\ AnswersLogged'
  BY <1>1 DEF PInv, ProtocolInv, LogInv, AnswersLogged, Count
<1>7. IdsInv'
  <2>1. \A i \in 1..(Count + 1) : i \in 1..Count \/ i = Count + 1
    BY PTyped
  <2>2. \A i \in 1..(Count + 1) : ids'[i] = log[i].id
    BY <1>2, <1>5, <2>1, PTyped
  <2>3. QED
    BY <1>1, <1>2, <1>5, <2>2, PTyped DEF IdsInv
<1>8. CacheInv' /\ CachesTyped'
  <2>1. /\ IdsTyped /\ Len(ids) <= Len(ids') /\ Len(ids') \in Nat
        /\ \A i \in 1..Len(ids) : ids'[i] = ids[i] /\ log'[i].id = log[i].id
    BY <1>1, <1>2, <1>5, PTyped
  <2>2. CacheInv'
    BY <1>1, <2>1, CachesKept DEF PInv, ProtocolInv
  <2>3. QED
    BY <1>1, <2>2 DEF PInv, TypeOK, CachesTyped, caches
<1>9. Phase(h)'
  <2>1. pc'[h] = "index"
    BY <1>1 DEF Goto, PInv, TypeOK
  <2>2. PICK n \in Nat : n = Count
    BY PTyped
  <2>3. HasRead(h, n)'
    BY <1>1, <1>2, <1>5, <2>2, ReadStays DEF caches
  <2>4. Count' = n
    BY <1>1, <2>2 DEF Count
  <2>5. HasRead(h, Count)'
    BY <2>3, <2>4 DEF HasRead, LogIds
  <2>6. QED
    BY <1>1, <1>2, <1>5, <2>1, <2>2, <2>4, <2>5 DEF Phase, Clean
<1>10. /\ LockInv' /\ PhaseInv' /\ pc' \in [Handle -> Locked \cup {"idle", "wait"}]
       /\ \A k \in Handle : arg'[k] = NoEvent <=> pc'[k] = "idle"
  BY <1>1, <1>9, InsideStep DEF Locked
<1>11. TypeOK'
  BY <1>1, <1>5, <1>8, <1>10 DEF PInv, TypeOK, CachesTyped
<1>12. QED
  BY <1>6, <1>7, <1>8, <1>10, <1>11 DEF PInv, ProtocolInv

LEMMA WriteIndexInv ==
    ASSUME PInv, NEW h \in Handle, WriteIndex(h)
    PROVE  PInv' /\ Count' = Count + 1
<1>1. /\ pc[h] = "index" /\ Goto(h, "done") /\ index' = Append(index, Len(log))
      /\ UNCHANGED <<log, logTorn, ids, idsTorn, indexTorn, lock, arg, caches, returned>>
  BY DEF WriteIndex
<1>2. /\ Clean /\ Len(log) = Count + 1 /\ Len(ids) = Count + 1 /\ idsTorn = <<>>
      /\ HasRead(h, Count) /\ log[Count + 1].id = arg[h]
  BY <1>1 DEF PInv, ProtocolInv, PhaseInv, Phase
<1>3. IdsInv' /\ CacheInv' /\ AnswersLogged' /\ CachesTyped'
      /\ \A n : HasRead(h, n) => HasRead(h, n)'
  BY <1>1, ElsewhereStep
<1>4. /\ index' \in Seq(Nat) /\ Count' = Count + 1
      /\ \A i \in 1..Count' : index'[i] = i
  <2>1. /\ index \in Seq(Nat) /\ Len(log) \in Nat /\ Count \in Nat /\ Count = Len(index)
        /\ \A i \in 1..Count : index[i] = i
    BY PTyped DEF PInv, ProtocolInv, LogInv
  <2>2. /\ index' \in Seq(Nat) /\ Len(index') = Count + 1
        /\ \A i \in 1..Count : index'[i] = index[i]
        /\ index'[Count + 1] = Count + 1
    BY <1>1, <1>2, <2>1, AppendProperties
  <2>3. \A i \in 1..(Count + 1) : i \in 1..Count \/ i = Count + 1
    BY <2>1
  <2>4. QED
    BY <2>1, <2>2, <2>3 DEF Count
<1>5. LogInv'
  <2>1. Count' <= Len(log')
    BY <1>1, <1>2, <1>4, PTyped
  <2>2. QED
    BY <1>1, <1>4, <2>1 DEF PInv, ProtocolInv, LogInv
<1>6. Phase(h)'
  <2>1. pc'[h] = "done"
    BY <1>1 DEF Goto, PInv, TypeOK
  <2>2. PICK n \in Nat : n = Count
    BY PTyped
  <2>3. HasRead(h, n)'
    BY <1>2, <1>3, <2>2
  <2>4. Count' = n + 1 /\ Count' - 1 = n /\ Count' # 0
    BY <1>4, <2>2
  <2>5. HasRead(h, Count - 1)'
    BY <2>3, <2>4 DEF HasRead, LogIds
  <2>6. QED
    BY <1>1, <1>2, <2>1, <2>2, <2>4, <2>5 DEF Phase, Clean
<1>7. /\ LockInv' /\ PhaseInv' /\ pc' \in [Handle -> Locked \cup {"idle", "wait"}]
       /\ \A k \in Handle : arg'[k] = NoEvent <=> pc'[k] = "idle"
  BY <1>1, <1>6, InsideStep DEF Locked
<1>8. TypeOK'
  BY <1>1, <1>3, <1>4, <1>7 DEF PInv, TypeOK, CachesTyped
<1>9. QED
  BY <1>3, <1>4, <1>5, <1>7, <1>8 DEF PInv, ProtocolInv

LEMMA ReturnNewInv ==
    ASSUME PInv, NEW h \in Handle, ReturnNew(h)
    PROVE  PInv' /\ Len(log) = Count
<1> DEFINE map == [e \in DOMAIN known[h] \cup {arg[h]} |->
                      IF e = arg[h] THEN Count ELSE known[h][e]]
<1>1. /\ pc[h] = "done" /\ Release(h)
      /\ known' = [known EXCEPT ![h] = map]
      /\ offset' = [offset EXCEPT ![h] = FileSize]
      /\ returned' = returned \cup {<<arg[h], Count>>}
      /\ UNCHANGED <<log, logTorn, ids, idsTorn, index, indexTorn>>
  BY DEF ReturnNew, files
<1>2. /\ Len(log) = Count /\ Len(ids) = Count /\ Count # 0 /\ idsTorn = <<>>
      /\ log[Count].id = arg[h] /\ HasRead(h, Count - 1)
  BY <1>1 DEF PInv, ProtocolInv, PhaseInv, Phase
<1>3. PICK n \in Nat : n = Count
  BY PTyped
<1>4. /\ n \in Nat \ {0} /\ n \in 0..Len(log) /\ n \in 0..Len(ids) /\ n \in 1..n
      /\ n - 1 \in Nat /\ Len(ids) \in Nat /\ IdsTyped /\ arg[h] \in Event
      /\ \A i \in 1..n : i \in 1..(n - 1) \/ i = n
  BY <1>1, <1>2, <1>3, PTyped DEF PInv, TypeOK
<1>5. /\ DOMAIN known[h] = LogIds(n - 1)
      /\ \A i \in 1..(n - 1) : known[h][log[i].id] = i
  BY <1>2, <1>3 DEF HasRead
<1>6. DOMAIN map = LogIds(n)
  <2>1. LogIds(n) = LogIds(n - 1) \cup {log[n].id}
    BY <1>4 DEF LogIds
  <2>2. QED
    BY <1>2, <1>3, <1>5, <2>1
<1>7. ASSUME NEW i \in 1..n
      PROVE  map[log[i].id] = i
  <2>1. log[i].id \in DOMAIN map
    BY <1>6 DEF LogIds
  <2>2. CASE i = n
    BY <1>2, <1>3, <2>1, <2>2
  <2>3. CASE i # n
    <3>1. i \in 1..(n - 1)
      BY <1>4, <2>3
    <3>2. log[i].id # arg[h]
      <4>1. log[i].id # log[n].id
        BY <1>2, <1>3, <1>4, <2>3 DEF PInv, ProtocolInv, LogInv
      <4>2. QED
        BY <1>2, <1>3, <4>1
    <3>3. QED
      BY <1>5, <2>1, <3>1, <3>2
  <2>4. QED
    BY <2>2, <2>3
<1>8. map \in [DOMAIN map -> Nat] /\ DOMAIN map \subseteq Seq(Byte)
  <2>1. ASSUME NEW e \in DOMAIN map
        PROVE  map[e] \in Nat
    <3> HIDE DEF map
    <3>1. PICK i \in 1..n : e = log[i].id
      BY <1>6 DEF LogIds
    <3>2. QED
      BY <1>4, <1>7, <3>1
  <2>2. map = [e \in DOMAIN map |-> map[e]]
    OBVIOUS
  <2>3. DOMAIN map \subseteq Seq(Byte)
    BY <1>4, <1>6, LogIdsAreEvents
  <2> HIDE DEF map
  <2>4. QED
    BY <2>1, <2>2, <2>3
<1> HIDE DEF map
<1>9. FileSize = EndOf(n) /\ EndOf(n) \in Nat
  <2>1. EndOf(n) \in Nat
    BY <1>4, EndIsNat
  <2>2. Len(idsTorn) = 0 /\ Len(ids) = n
    BY <1>2, <1>3
  <2>3. FileSize = EndOf(n) + 0
    BY <2>2 DEF FileSize
  <2>4. QED
    BY <2>1, <2>3
<1>10. /\ CachesTyped' /\ known'[h] = map /\ offset'[h] = EndOf(n)
       /\ \A k \in Handle : k # h => known'[k] = known[k] /\ offset'[k] = offset[k]
  <2>1. CachesTyped
    BY DEF PInv, TypeOK, CachesTyped
  <2>2. PICK end \in Nat : end = EndOf(n)
    BY <1>9
  <2>3. offset' = [offset EXCEPT ![h] = end]
    BY <1>1, <1>9, <2>2
  <2>4. /\ CachesTyped' /\ known'[h] = map /\ offset'[h] = end
        /\ \A k \in Handle : k # h => known'[k] = known[k] /\ offset'[k] = offset[k]
    BY <1>1, <1>8, <2>1, <2>3, CacheTaken
  <2>5. QED
    BY <2>2, <2>4
<1>11. CacheInv'
  <2>1. EndOf(n)' = EndOf(n) /\ LogIds(n)' = LogIds(n)
    BY <1>1 DEF EndOf, Bytes, LogIds
  <2>2. HasRead(h, n)'
    BY <1>1, <1>6, <1>7, <1>10, <2>1 DEF HasRead
  <2>3. /\ n \in 0..Len(ids') /\ Len(ids') \in Nat /\ Len(ids) <= Len(ids')
        /\ \A i \in 1..Len(ids) : ids'[i] = ids[i] /\ log'[i].id = log[i].id
    BY <1>1, <1>4
  <2>4. CacheInv
    BY DEF PInv, ProtocolInv
  <2>5. QED
    BY <1>4, <1>10, <2>2, <2>3, <2>4, CachesStay
<1>12. LogInv' /\ IdsInv'
  BY <1>1 DEF PInv, ProtocolInv, LogInv, IdsInv, Count
<1>13. AnswersLogged'
  BY <1>1, <1>2, <1>3, <1>4 DEF PInv, ProtocolInv, AnswersLogged
<1>14. /\ LockInv' /\ PhaseInv' /\ lock' \in Handle \cup {NoHandle}
       /\ pc' \in [Handle -> Locked \cup {"idle", "wait"}]
       /\ arg' \in [Handle -> Event \cup {NoEvent}]
       /\ \A k \in Handle : arg'[k] = NoEvent <=> pc'[k] = "idle"
  BY <1>1, LeavingStep DEF Locked
<1>15. TypeOK'
  BY <1>1, <1>3, <1>4, <1>10, <1>14 DEF PInv, TypeOK, CachesTyped
<1>16. QED
  BY <1>2, <1>11, <1>12, <1>13, <1>14, <1>15 DEF PInv, ProtocolInv

LEMMA TearLogInv ==
    ASSUME PInv, NEW h \in Handle, TearLog(h)
    PROVE  PInv'
<1>1. /\ UNCHANGED <<log, ids, idsTorn, index, indexTorn, lock, arg, caches, returned>>
      /\ pc[h] = "lookup" /\ Goto(h, "failed") /\ logTorn' = TRUE
  BY DEF TearLog
<1>2. IdsInv' /\ CacheInv' /\ AnswersLogged' /\ CachesTyped' /\ LogInv'
  BY <1>1, ElsewhereStep
<1>3. Phase(h)'
  BY <1>1 DEF Phase, Goto, PInv, TypeOK
<1>4. /\ LockInv' /\ PhaseInv' /\ pc' \in [Handle -> Locked \cup {"idle", "wait"}]
      /\ \A k \in Handle : arg'[k] = NoEvent <=> pc'[k] = "idle"
  BY <1>1, <1>3, InsideStep DEF Locked
<1>5. TypeOK'
  BY <1>1, <1>2, <1>4 DEF PInv, TypeOK, CachesTyped
<1>6. QED
  BY <1>2, <1>4, <1>5 DEF PInv, ProtocolInv

LEMMA TearIdsInv ==
    ASSUME PInv, NEW h \in Handle, TearIds(h)
    PROVE  PInv'
<1>1. /\ UNCHANGED <<log, logTorn, ids, index, indexTorn, lock, arg, caches, returned>>
      /\ pc[h] = "ids" /\ Goto(h, "failed")
  BY DEF TearIds
<1>2. idsTorn' \in Seq(Byte)
  <2>1. PICK k \in 1..Len(arg[h]) : idsTorn' = idsTorn \o SubSeq(arg[h], 1, k)
    BY DEF TearIds
  <2>2. arg[h] \in Seq(Byte)
    BY <1>1, IdAssumption DEF PInv, TypeOK
  <2>3. Len(arg[h]) \in Nat /\ \A i \in 1..Len(arg[h]) : arg[h][i] \in Byte
    BY <2>2
  <2>4. SubSeq(arg[h], 1, k) \in Seq(Byte)
    BY <2>3, SubSeqProperties
  <2>5. idsTorn \in Seq(Byte)
    BY DEF PInv, TypeOK
  <2>6. QED
    BY <2>1, <2>4, <2>5, ConcatProperties
<1>3. LogInv' /\ AnswersLogged'
  BY <1>1 DEF PInv, ProtocolInv, LogInv, AnswersLogged, Count
<1>4. IdsInv'
  <2>1. Len(ids) < Len(log)
    BY <1>1, PTyped DEF PInv, ProtocolInv, PhaseInv, Phase
  <2>2. QED
    BY <1>1, <2>1 DEF PInv, ProtocolInv, IdsInv
<1>5. CacheInv' /\ CachesTyped'
  <2>1. CacheInv'
    BY <1>1, PTyped, CachesKept DEF PInv, ProtocolInv
  <2>2. QED
    BY <1>1, <2>1 DEF PInv, TypeOK, CachesTyped, caches
<1>6. Phase(h)'
  BY <1>1 DEF Phase, Goto, PInv, TypeOK
<1>7. /\ LockInv' /\ PhaseInv' /\ pc' \in [Handle -> Locked \cup {"idle", "wait"}]
      /\ \A k \in Handle : arg'[k] = NoEvent <=> pc'[k] = "idle"
  BY <1>1, <1>6, InsideStep DEF Locked
<1>8. TypeOK'
  BY <1>1, <1>2, <1>5, <1>7 DEF PInv, TypeOK, CachesTyped
<1>9. QED
  BY <1>3, <1>4, <1>5, <1>7, <1>8 DEF PInv, ProtocolInv

LEMMA TearIndexInv ==
    ASSUME PInv, NEW h \in Handle, TearIndex(h)
    PROVE  PInv'
<1>1. /\ UNCHANGED <<log, logTorn, ids, idsTorn, index, lock, arg, caches, returned>>
      /\ pc[h] = "index" /\ Goto(h, "failed") /\ indexTorn' = TRUE
  BY DEF TearIndex
<1>2. IdsInv' /\ CacheInv' /\ AnswersLogged' /\ CachesTyped' /\ LogInv'
  BY <1>1, ElsewhereStep
<1>3. Phase(h)'
  BY <1>1 DEF Phase, Goto, PInv, TypeOK
<1>4. /\ LockInv' /\ PhaseInv' /\ pc' \in [Handle -> Locked \cup {"idle", "wait"}]
      /\ \A k \in Handle : arg'[k] = NoEvent <=> pc'[k] = "idle"
  BY <1>1, <1>3, InsideStep DEF Locked
<1>5. TypeOK'
  BY <1>1, <1>2, <1>4 DEF PInv, TypeOK, CachesTyped
<1>6. QED
  BY <1>2, <1>4, <1>5 DEF PInv, ProtocolInv

LEMMA RaiseInv ==
    ASSUME PInv, NEW h \in Handle, Raise(h)
    PROVE  PInv'
<1>1. UNCHANGED <<files, caches, returned>> /\ pc[h] \in Locked /\ Release(h)
  BY DEF Raise
<1>2. IdsInv' /\ CacheInv' /\ AnswersLogged' /\ CachesTyped' /\ LogInv'
  BY <1>1, ElsewhereStep DEF files
<1>3. /\ LockInv' /\ PhaseInv' /\ lock' \in Handle \cup {NoHandle}
      /\ pc' \in [Handle -> Locked \cup {"idle", "wait"}]
      /\ arg' \in [Handle -> Event \cup {NoEvent}]
      /\ \A k \in Handle : arg'[k] = NoEvent <=> pc'[k] = "idle"
  BY <1>1, LeavingStep
<1>4. TypeOK'
  BY <1>1, <1>2, <1>3 DEF PInv, TypeOK, CachesTyped, files
<1>5. QED
  BY <1>2, <1>3, <1>4 DEF PInv, ProtocolInv

LEMMA CrashInv ==
    ASSUME PInv, NEW h \in Handle, Crash(h)
    PROVE  PInv'
<1>1. /\ pc' = [pc EXCEPT ![h] = "idle"] /\ arg' = [arg EXCEPT ![h] = NoEvent]
      /\ lock' = (IF lock = h THEN NoHandle ELSE lock) /\ Invalidate(h)
      /\ UNCHANGED <<files, returned>>
  BY DEF Crash, Goto
<1>2. UNCHANGED <<log, logTorn, ids, idsTorn, index, indexTorn>>
  BY <1>1 DEF files
<1>3. CachesTyped' /\ CacheInv'
  BY <1>1, <1>2, CacheForgotten
<1>4. LogInv' /\ IdsInv' /\ AnswersLogged'
  BY <1>1, <1>2 DEF PInv, ProtocolInv, LogInv, IdsInv, AnswersLogged, Count
<1>5. LockInv'
  BY <1>1, NoHandleAssumption DEF PInv, TypeOK, ProtocolInv, LockInv, Locked
<1>6. PhaseInv'
  <2> SUFFICES ASSUME NEW k \in Handle PROVE Phase(k)'
    BY DEF PhaseInv
  <2>1. CASE k = h
    BY <1>1, <2>1, PhaseOutside DEF PInv, TypeOK, Locked
  <2>2. CASE k # h
    <3>1. /\ pc'[k] = pc[k] /\ arg'[k] = arg[k]
          /\ known'[k] = known[k] /\ offset'[k] = offset[k]
      BY <1>1, <2>2 DEF PInv, TypeOK, Invalidate
    <3>2. \A n : HasRead(k, n) => HasRead(k, n)'
      BY <1>2, <3>1 DEF HasRead, EndOf, Bytes, LogIds
    <3>3. Phase(k) /\ Count' = Count
      BY <1>2 DEF PInv, ProtocolInv, PhaseInv, Count
    <3>4. QED
      BY <1>2, <3>1, <3>2, <3>3 DEF Phase, Clean
  <2>3. QED
    BY <2>1, <2>2
<1>7. TypeOK'
  BY <1>1, <1>2, <1>3 DEF PInv, TypeOK, CachesTyped, Locked
<1>8. QED
  BY <1>3, <1>4, <1>5, <1>6, <1>7 DEF PInv, ProtocolInv

LEMMA StepP == PInv /\ [Next]_vars => PInv'
<1> SUFFICES ASSUME PInv, [Next]_vars PROVE PInv'
  OBVIOUS
<1>1. CASE UNCHANGED vars
  <2>1. UNCHANGED <<files, caches, log, ids, idsTorn, index, returned, lock, pc, arg>>
    BY <1>1 DEF vars, files, caches
  <2>2. IdsInv' /\ CacheInv' /\ AnswersLogged' /\ CachesTyped' /\ LogInv'
    BY <2>1, ElsewhereStep
  <2>3. PhaseInv' /\ LockInv'
    BY <2>1, PhaseKept DEF PhaseInv, LockInv, PInv, ProtocolInv
  <2>4. TypeOK'
    BY <2>1, <2>2 DEF PInv, TypeOK, CachesTyped, files
  <2>5. QED
    BY <2>2, <2>3, <2>4 DEF PInv, ProtocolInv
<1>2. ASSUME NEW h \in Handle, NEW e \in Event, Request(h, e)
      PROVE  PInv'
  BY <1>2, RequestInv
<1>3. ASSUME NEW h \in Handle, Acquire(h)
      PROVE  PInv'
  BY <1>3, AcquireInv
<1>4. ASSUME NEW h \in Handle, Recover(h)
      PROVE  PInv'
  BY <1>4, RecoverRaggedInv, RecoverResetInv, RecoverCleanInv, CommitTailInv,
     TruncateLogInv DEF Recover
<1>5. ASSUME NEW h \in Handle, Work(h)
      PROVE  PInv'
  BY <1>4, <1>5, DedupeInv, RebuildInv, ReturnExistingInv, WriteLogInv,
     WriteIdsInv, WriteIndexInv, ReturnNewInv DEF Work
<1>6. ASSUME NEW h \in Handle, Fault(h)
      PROVE  PInv'
  BY <1>6, TearTailInv, TearLogInv, TearIdsInv, TearIndexInv, RaiseInv, CrashInv
     DEF Fault
<1>7. QED
  BY <1>1, <1>2, <1>3, <1>5, <1>6 DEF Next

-----------------------------------------------------------------------------
(* The second layer.  What one step does to the committed records and to   *)
(* the answers has two shapes: nothing or one record is committed and      *)
(* nobody is answered, or nothing is committed and one answer is given,    *)
(* when the whole log is.                                                  *)

SameRecords == \A i \in 1..Count : log'[i] = log[i]

Commits(n) == SameRecords /\ Count' = Count + n /\ returned' = returned

Answers ==
    /\ SameRecords /\ Count' = Count /\ Len(log') = Count
    /\ \E e \in Event, n \in Nat : returned' = returned \cup {<<e, n>>}

LEMMA StepShape ==
    ASSUME Inv, [Next]_vars
    PROVE  (Commits(0) \/ Commits(1) \/ Answers) /\ Ahead'
<1> USE DEF Commits, Answers, SameRecords
<1>0. /\ PInv /\ Count \in Nat /\ log \in Seq(Record) /\ index \in Seq(Nat)
      /\ Len(log) \in Nat /\ Count <= Len(log) /\ Len(log) <= Count + 1
      /\ CommittedEnd = Count
  <2>1. PInv
    BY DEF Inv, IInv, PInv
  <2>2. QED
    BY <2>1, PTyped DEF Inv, IInv, Ahead
<1>1. ASSUME log' = log, index' = index, returned' = returned
      PROVE  Commits(0) /\ Ahead'
  BY <1>0, <1>1 DEF Count, Ahead
<1>2. CASE UNCHANGED vars
  BY <1>1, <1>2 DEF vars
<1>3. ASSUME NEW h \in Handle, CommitTail(h)
      PROVE  (Commits(0) \/ Commits(1)) /\ Ahead'
  <2> DEFINE n == Len(log) - CommittedEnd
  <2>1. n \in 0..1 /\ n \in Nat /\ Count + n = Len(log)
    BY <1>0
  <2>2. index' = index \o TailEntries(n) /\ log' = log /\ returned' = returned
    BY <1>3 DEF CommitTail
  <2> HIDE DEF n
  <2>3. Count' = Count + n
    BY <1>0, <2>1, <2>2, LongerIndex
  <2>4. Ahead'
    BY <1>0, <2>1, <2>2, <2>3 DEF Ahead
  <2>5. QED
    BY <1>0, <2>1, <2>2, <2>3, <2>4
<1>4. ASSUME NEW h \in Handle, TearTail(h)
      PROVE  Commits(0) /\ Ahead'
  <2>1. PICK n \in 0..(Len(log) - CommittedEnd - 1) :
            index' = index \o TailEntries(n)
    BY <1>4 DEF TearTail
  <2>2. n = 0 /\ n \in Nat
    BY <1>0
  <2>3. log' = log /\ returned' = returned
    BY <1>4 DEF TearTail
  <2>4. Count' = Count + 0
    BY <1>0, <2>1, <2>2, LongerIndex
  <2>5. QED
    BY <1>0, <2>3, <2>4 DEF Ahead
<1>5. ASSUME NEW h \in Handle, RecoverReset(h)
      PROVE  FALSE
  BY <1>0, <1>5, RecoverResetInv
<1>6. ASSUME NEW h \in Handle, WriteLog(h)
      PROVE  Commits(0) /\ Ahead'
  <2>1. Len(log) = Count
    BY <1>0, <1>6, WriteLogInv
  <2>2. /\ log' = Append(log, [seq |-> Count + 1, id |-> arg[h]])
        /\ index' = index /\ returned' = returned
    BY <1>6 DEF WriteLog
  <2>3. Len(log') = Count + 1 /\ \A i \in 1..Count : log'[i] = log[i]
    BY <1>0, <2>1, <2>2
  <2>4. QED
    BY <1>0, <2>2, <2>3 DEF Count, Ahead
<1>7. ASSUME NEW h \in Handle, WriteIndex(h)
      PROVE  Commits(1) /\ Ahead'
  <2>1. Count' = Count + 1 /\ log' = log /\ returned' = returned
    BY <1>0, <1>7, WriteIndexInv DEF WriteIndex
  <2>2. QED
    BY <1>0, <2>1 DEF Ahead
<1>8. ASSUME NEW h \in Handle, ReturnExisting(h)
      PROVE  Answers /\ Ahead'
  <2>1. arg[h] \in DOMAIN known[h] /\ arg[h] \in Event
    BY <1>8 DEF ReturnExisting, IsRepeat, Inv, TypeOK
  <2>2. known[h][arg[h]] \in Nat
    BY <2>1 DEF Inv, TypeOK
  <2>3. Len(log) = Count
    BY <1>0, <1>8, ReturnExistingInv
  <2>4. log' = log /\ Count' = Count
    BY <1>8 DEF ReturnExisting, files, Count
  <2>5. QED
    BY <1>0, <1>8, <2>1, <2>2, <2>3, <2>4 DEF ReturnExisting, Ahead
<1>9. ASSUME NEW h \in Handle, ReturnNew(h)
      PROVE  Answers /\ Ahead'
  <2>1. arg[h] \in Event
    BY <1>9 DEF ReturnNew, Inv, TypeOK
  <2>2. Len(log) = Count
    BY <1>0, <1>9, ReturnNewInv
  <2>3. log' = log /\ Count' = Count
    BY <1>9 DEF ReturnNew, files, Count
  <2>4. QED
    BY <1>0, <1>9, <2>1, <2>2, <2>3 DEF ReturnNew, Ahead
<1>10. ASSUME NEW h \in Handle,
              \/ \E e \in Event : Request(h, e)
              \/ Acquire(h) \/ RecoverRagged(h) \/ RecoverClean(h)
              \/ TruncateLog(h) \/ Dedupe(h) \/ Rebuild(h) \/ WriteIds(h)
              \/ TearLog(h) \/ TearIds(h) \/ TearIndex(h)
              \/ Raise(h) \/ Crash(h)
       PROVE  Commits(0) /\ Ahead'
  <2>1. log' = log /\ index' = index /\ returned' = returned
    BY <1>10 DEF Request, Acquire, RecoverRagged, RecoverClean, TruncateLog, Dedupe,
           Rebuild, WriteIds, TearLog, TearIds, TearIndex, Raise, Crash, files
  <2>2. QED
    BY <1>1, <2>1
<1>11. QED
  BY <1>2, <1>3, <1>4, <1>5, <1>6, <1>7, <1>8, <1>9, <1>10
     DEF Next, Work, Recover, Fault

(* What has been answered is committed, and stays where it is.             *)
LEMMA StepInv == Inv /\ [Next]_vars => Inv'
<1> SUFFICES ASSUME Inv, [Next]_vars PROVE Inv'
  OBVIOUS
<1>1. PInv /\ PInv'
  BY StepP DEF Inv, IInv, PInv
<1>2. (Commits(0) \/ Commits(1) \/ Answers) /\ Ahead'
  BY StepShape
<1>3. /\ Count \in Nat /\ \A i \in 1..Count : index[i] = i
      /\ \A i \in 1..Count' : index'[i] = i
  BY <1>1, PTyped DEF PInv, ProtocolInv, LogInv
<1>4. AnswersHold'
  <2>1. CASE Commits(0) \/ Commits(1)
    <3>1. returned' = returned /\ Count <= Count' /\ SameRecords /\ Count' \in Nat
      BY <1>3, <2>1 DEF Commits
    <3>2. ASSUME NEW a \in returned
          PROVE  a[2] \in 1..Count' /\ log'[index'[a[2]]].id = a[1]
      <4>1. a[2] \in 1..Count /\ log[index[a[2]]].id = a[1]
        BY DEF Inv, IInv, AnswersHold
      <4>2. a[2] \in 1..Count'
        BY <1>3, <3>1, <4>1
      <4>3. QED
        BY <1>3, <3>1, <4>1, <4>2 DEF SameRecords
    <3>3. QED
      BY <3>1, <3>2 DEF AnswersHold
  <2>2. CASE Answers
    <3>1. Len(log') = Count'
      BY <2>2 DEF Answers
    <3>2. QED
      BY <1>1, <1>3, <3>1 DEF PInv, ProtocolInv, AnswersLogged, AnswersHold
  <2>3. QED
    BY <1>2, <2>1, <2>2
<1>5. QED
  BY <1>1, <1>2, <1>4 DEF PInv, Inv, IInv

LEMMA InitInv == Init => Inv
<1> SUFFICES ASSUME Init PROVE Inv
  OBVIOUS
<1>1. Ahead /\ AnswersHold
  BY DEF Init, Ahead, AnswersHold, Count
<1>2. QED
  BY <1>1, InitP DEF PInv, Inv, IInv

(* Every committed record ends where its number says.                      *)
LEMMA EndIsCount ==
    ASSUME Inv
    PROVE  /\ CommittedEnd = Count /\ Count \in Nat /\ Len(log) \in Nat
           /\ Count <= Len(log) /\ Len(log) <= Count + 1
<1>1. PInv
  BY DEF Inv, IInv, PInv
<1>2. QED
  BY <1>1, PTyped DEF Inv, IInv, Ahead

(* The inductive invariant holds in every reachable state.                 *)
THEOREM InvHolds == Spec => []Inv
<1>1. QED
  BY InitInv, StepInv, PTL DEF Spec

(* jsonl.py append and _recover: the files, the caches and the step each   *)
(* process has reached fit together in every reachable state.              *)
THEOREM ProtocolInvariant == Spec => []IInv
<1>1. Inv => IInv
  BY DEF Inv
<1>2. QED
  BY <1>1, InvHolds, PTL

(* Types.                                                                  *)
THEOREM TypeCorrect == Spec => []TypeOK
<1>1. Inv => TypeOK
  BY DEF Inv
<1>2. QED
  BY <1>1, InvHolds, PTL

(* jsonl.py append and _recover: what append() answered stays true for     *)
(* ever, whatever crashes, torn writes and recoveries follow.              *)
THEOREM AnswersAreKept == Spec => []AnswersHold
<1>1. Inv => AnswersHold
  BY DEF Inv, IInv
<1>2. QED
  BY <1>1, InvHolds, PTL

(* jsonl.py Concurrency: no two commits share a sequence or an event, and  *)
(* every index entry leads to the record with its own number.              *)
THEOREM CommitsAreExact == Spec => []CommittedExact
<1>1. Inv => CommittedExact
  <2>1. ASSUME Inv
        PROVE  CommittedExact
    <3>1. \A i \in 1..Count : index[i] = i /\ i \in 1..Len(log)
      BY <2>1, EndIsCount DEF Inv, IInv, ProtocolInv, LogInv
    <3>2. QED
      BY <2>1, <3>1 DEF Inv, IInv, ProtocolInv, LogInv, CommittedExact, Readable
  <2>2. QED
    BY <2>1
<1>2. QED
  BY <1>1, InvHolds, PTL

(* jsonl.py Commit protocol: no step moves or changes a committed record.  *)
THEOREM CommitsAreKept == Spec => CommittedNeverTouched
<1>1. Inv /\ Inv' /\ [Next]_vars =>
          [/\ Count <= Count'
           /\ \A i \in 1..Count : log'[index'[i]] = log[index[i]]]_vars
  <2> SUFFICES ASSUME Inv, Inv', [Next]_vars
               PROVE  /\ Count <= Count'
                      /\ \A i \in 1..Count : log'[index'[i]] = log[index[i]]
    OBVIOUS
  <2>1. SameRecords /\ Count <= Count' /\ Count \in Nat /\ Count' \in Nat
    BY StepShape, EndIsCount DEF Commits, Answers
  <2>2. \A i \in 1..Count : index[i] = i /\ index'[i] = i
    BY <2>1 DEF Inv, IInv, ProtocolInv, LogInv
  <2>3. QED
    BY <2>1, <2>2 DEF SameRecords
<1>2. QED
  BY <1>1, InvHolds, PTL DEF Spec, CommittedNeverTouched

-----------------------------------------------------------------------------
(* Refinement: the committed records, read off the three files, behave as  *)
(* the abstract history.                                                   *)

CommittedShape ==
    /\ CommittedIds \in Seq(Event) /\ Len(CommittedIds) = Count
    /\ Count \in Nat
    /\ \A i \in 1..Count : CommittedIds[i] = log[i].id
    /\ \A i, j \in 1..Count : CommittedIds[i] = CommittedIds[j] => i = j

LEMMA CommittedSequence == Inv => CommittedShape
<1> SUFFICES ASSUME Inv PROVE CommittedShape
  OBVIOUS
<1>1. \A i \in 1..Len(log) : log[i] \in Record
  BY DEF Inv, TypeOK
<1>2. Count \in Nat /\ \A i \in 1..Count : i \in 1..Len(log)
  BY EndIsCount
<1>3. \A i \in 1..Count : index[i] = i /\ log[i].id \in Event
  BY <1>1, <1>2 DEF Inv, IInv, ProtocolInv, LogInv, Record
<1>4. /\ CommittedIds \in Seq(Event) /\ Len(CommittedIds) = Count
      /\ \A i \in 1..Count : CommittedIds[i] = log[i].id
  BY <1>2, <1>3 DEF CommittedIds
<1>5. \A i, j \in 1..Count : log[i].id = log[j].id => i = j
  BY <1>2 DEF Inv, IInv, ProtocolInv, LogInv
<1>6. QED
  BY <1>2, <1>4, <1>5 DEF CommittedShape

LEMMA UncommittedStep ==
    ASSUME Inv, Inv', SameRecords, Count' = Count
    PROVE  CommittedIds' = CommittedIds
<1>1. CommittedShape /\ (Inv' => CommittedShape')
  BY CommittedSequence, PTL
<1>2. CommittedShape'
  BY <1>1
<1>3. \A i \in 1..Len(CommittedIds) : CommittedIds'[i] = CommittedIds[i]
  BY <1>1, <1>2 DEF CommittedShape, SameRecords
<1>4. QED
  BY <1>1, <1>2, <1>3 DEF CommittedShape

LEMMA CommittingStep ==
    ASSUME Inv, Inv', Commits(1)
    PROVE  \E e \in Event : History!Commit(e)
<1> DEFINE e == log'[Count + 1].id
<1>0. CommittedShape /\ (Inv' => CommittedShape')
  BY CommittedSequence, PTL
<1>1. /\ CommittedIds \in Seq(Event) /\ Len(CommittedIds) = Count
      /\ \A i \in 1..Count : CommittedIds[i] = log[i].id
      /\ Count \in Nat
  BY <1>0 DEF CommittedShape
<1>2. /\ CommittedIds' \in Seq(Event) /\ Len(CommittedIds') = Count'
      /\ \A i \in 1..Count' : CommittedIds'[i] = log'[i].id
      /\ \A i, j \in 1..Count' : CommittedIds'[i] = CommittedIds'[j] => i = j
  BY <1>0 DEF CommittedShape
<1>3. Count' = Count + 1 /\ returned' = returned
      /\ \A i \in 1..Count : log'[i] = log[i]
  BY DEF Commits, SameRecords
<1>4. e = CommittedIds'[Count + 1] /\ e \in Event
  BY <1>1, <1>2, <1>3
<1> HIDE DEF e
<1>5. CommittedIds' = Append(CommittedIds, e)
  <2>1. Append(CommittedIds, e) \in Seq(Event)
        /\ Len(Append(CommittedIds, e)) = Count + 1
    BY <1>1, <1>4
  <2>2. \A i \in 1..(Count + 1) : CommittedIds'[i] = Append(CommittedIds, e)[i]
    BY <1>1, <1>2, <1>3, <1>4
  <2>3. QED
    BY <1>2, <1>3, <2>1, <2>2
<1>6. ~ History!Holds(e)
  BY <1>1, <1>2, <1>3, <1>4 DEF History!Holds
<1>7. QED
  BY <1>3, <1>4, <1>5, <1>6 DEF History!Commit

LEMMA AnsweringStep ==
    ASSUME Inv, Inv', Answers
    PROVE  \E e \in Event : \E seq \in 1..Len(CommittedIds) : History!Answer(e, seq)
<1>1. PICK e \in Event, n \in Nat : returned' = returned \cup {<<e, n>>}
  BY DEF Answers
<1>2. SameRecords /\ Count' = Count
  BY DEF Answers
<1>3. CommittedIds' = CommittedIds
  BY <1>2, UncommittedStep
<1>4. n \in 1..Count' /\ log'[index'[n]].id = e
  <2>1. <<e, n>> \in returned'
    BY <1>1
  <2>2. QED
    BY <2>1 DEF Inv, IInv, AnswersHold
<1>5. index'[n] = n /\ log'[n] = log[n] /\ n \in 1..Count
  BY <1>2, <1>4 DEF Inv, IInv, ProtocolInv, LogInv, SameRecords
<1>6. n \in 1..Len(CommittedIds) /\ CommittedIds[n] = e
  BY <1>4, <1>5, CommittedSequence DEF CommittedShape
<1>7. QED
  BY <1>1, <1>3, <1>6 DEF History!Answer

(* The commit protocol implements the history store's contract             *)
(* (history/backend.py, HistoryBackend.append): it stores one growing      *)
(* sequence of distinct events, and answers with an event's position only. *)
THEOREM CommitProtocolImplementsHistory == Spec => ImplementsHistory
<1>1. Init => History!Init
  BY DEF Init, History!Init, CommittedIds, Count
<1>2. Inv /\ Inv' /\ [Next]_vars => [History!Next]_(History!vars)
  <2> SUFFICES ASSUME Inv, Inv', [Next]_vars
               PROVE  [History!Next]_(History!vars)
    OBVIOUS
  <2>1. CASE Commits(0)
    <3>1. SameRecords /\ Count' = Count /\ returned' = returned
      BY <2>1, EndIsCount DEF Commits
    <3>2. QED
      BY <3>1, UncommittedStep DEF History!vars
  <2>2. CASE Commits(1)
    BY <2>2, CommittingStep DEF History!Next
  <2>3. CASE Answers
    BY <2>3, AnsweringStep DEF History!Next
  <2>4. QED
    BY <2>1, <2>2, <2>3, StepShape
<1>3. QED
  BY <1>1, <1>2, InvHolds, PTL DEF Spec, ImplementsHistory, History!Spec
=============================================================================
