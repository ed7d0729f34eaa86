--------------------------- MODULE JsonlPowerLoss ---------------------------
(***************************************************************************)
(* JsonlBackend on a host that has lost power with fsync off (the          *)
(* default): each of the three files comes back as some prefix of what was *)
(* written, independently of the other two, and every process is gone.     *)
(* Answers given before the cut are void, the documented price of fsync    *)
(* off: returned holds what is promised from here on.                      *)
(***************************************************************************)
EXTENDS JsonlBackend, SequencesExt

ASSUME EventAssumption == IsFiniteSet(Event)

N == Cardinality(Event)

(* n whole pieces survive of N; half a piece may follow, of ids.txt        *)
(* whatever was written of its next line.                                  *)
Torn(n) == IF n < N THEN BOOLEAN ELSE {FALSE}

TornIds(written, n) ==
    IF n < N THEN {SubSeq(written[n + 1], 1, k) : k \in 0..Len(written[n + 1])}
             ELSE {<<>>}

(* Every event had been stored, in some order: what is left of fewer is a  *)
(* prefix of that too.                                                     *)
PowerInit ==
    /\ \E written \in SetToSeqs(Event), l, i, x \in 0..N :
           /\ log = [k \in 1..l |-> [seq |-> k, id |-> written[k]]]
           /\ ids = SubSeq(written, 1, i)
           /\ index = [k \in 1..x |-> k]
           /\ logTorn \in Torn(l) /\ idsTorn \in TornIds(written, i) /\ indexTorn \in Torn(x)
    /\ lock = NoHandle
    /\ pc = [h \in Handle |-> "idle"]
    /\ arg = [h \in Handle |-> NoEvent]
    /\ known = [h \in Handle |-> NoIds]
    /\ offset = [h \in Handle |-> 0]
    /\ returned = {}

PowerSpec == PowerInit /\ [][Next]_vars

-----------------------------------------------------------------------------
(* Whatever a power cut left, a writer that has got past recovery works on *)
(* an index that describes the whole log and nothing else, records being   *)
(* numbered by position: recovery may lose a tail, it never invents or     *)
(* renumbers a record (_recover 297-320, _commit_tail 322-346).            *)
RecoveryRestores ==
    \A h \in Handle :
        pc[h] \in {"dedupe", "rebuild", "lookup"} =>
            /\ ~logTorn /\ ~indexTorn
            /\ index = [i \in 1..Len(log) |-> i]
            /\ \A i \in 1..Len(log) : log[i].seq = i
=============================================================================
