----------------------------- MODULE HistoryList -----------------------------
(***************************************************************************)
(* `events list`: JsonlBackend.list over the records of several            *)
(* subscriptions.  A subscription's history is a sequence of               *)
(* [id, at, type] in sequence order; subscriptions are numbered in the     *)
(* order of their names, and at is the wall clock's recorded_at.           *)
(***************************************************************************)
EXTENDS Naturals, Sequences, FiniteSets

CONSTANTS
    AnyType,        \* no --type
    Chunk           \* _SCAN_CHUNK

ASSUME ChunkAssumption == Chunk \in Nat \ {0}

Larger(m, n) == IF m < n THEN n ELSE m

ChunkStart(high) == Larger(high + 1 - Chunk, 1)

(* _reverse: sequences from the newest to the oldest, chunk by chunk.      *)
Newest(log) ==
    LET down[high \in 0..Len(log)] ==
            IF high = 0 THEN <<>>
            ELSE LET low == ChunkStart(high)
                 IN  [i \in 1..(high + 1 - low) |-> high + 1 - i]
                         \o down[low - 1]
    IN  down[Len(log)]

(* The records of the log at places of the walk.                           *)
At(log, sub, places) ==
    {LET seq == Newest(log)[j]
     IN  [sub |-> sub, seq |-> seq, id |-> log[seq].id, at |-> log[seq].at] : j \in places}

(* The places of the walk at which a record has the type.                  *)
Wanted(log, type) ==
    {j \in 1..Len(Newest(log)) : type \in {AnyType, log[Newest(log)[j]].type}}

(* Mutant: max bounds the walk, not the records found.                     *)
CandidatesWalked(log, sub, type, max) ==
    At(log, sub, {j \in Wanted(log, type) : j <= max})

(* The walk ends when max records of the type are taken.                   *)
CandidatesOf(log, sub, type, max) ==
    LET wanted == Wanted(log, type)
    IN  At(log, sub, {j \in wanted : Cardinality({i \in wanted : i < j}) < max})

(* (recorded_at, subscription, seq), descending.                           *)
Before(r, s) ==
    \/ r.at > s.at
    \/ r.at = s.at /\ r.sub > s.sub
    \/ r.at = s.at /\ r.sub = s.sub /\ r.seq > s.seq

Sorted(records) ==
    [k \in 1..Cardinality(records) |->
        CHOOSE r \in records : Cardinality({s \in records : Before(s, r)}) = k - 1]

(* An event held by several subscriptions is reported at its first place:  *)
(* the ids of all records before a place have been seen there.             *)
Unique(records) ==
    LET fresh == {k \in 1..Len(records) :
                     \A j \in 1..(k - 1) : records[j].id # records[k].id}
    IN  [i \in 1..Cardinality(fresh) |->
            records[CHOOSE k \in fresh : Cardinality({j \in fresh : j < k}) = i - 1]]

List(logs, type, max) ==
    LET candidates == UNION {CandidatesOf(logs[sub], sub, type, max) :
                                sub \in DOMAIN logs}
        unique == Unique(Sorted(candidates))
    IN  IF Len(unique) < max THEN unique ELSE SubSeq(unique, 1, max)

-----------------------------------------------------------------------------
(* What list() promises: of all records of the type, the newest of each    *)
(* event; of those, the newest max, newest first.                          *)
Records(logs, type) ==
    UNION {{[sub |-> sub, seq |-> seq, id |-> logs[sub][seq].id, at |-> logs[sub][seq].at] :
               seq \in {n \in DOMAIN logs[sub] : type \in {AnyType, logs[sub][n].type}}} :
           sub \in DOMAIN logs}

LastRecords(logs, type) ==
    {r \in Records(logs, type) :
        \A s \in Records(logs, type) : s.id = r.id => s = r \/ Before(r, s)}

IsNewest(list, logs, type, max) ==
    LET last == LastRecords(logs, type)
    IN  /\ Len(list) = IF Cardinality(last) < max THEN Cardinality(last) ELSE max
        /\ \A i \in 1..Len(list) :
               /\ list[i] \in last
               /\ Cardinality({r \in last : Before(r, list[i])}) = i - 1
=============================================================================
