------------------------------ MODULE Records -------------------------------
(***************************************************************************)
(* What is kept on disk under a subscription's name: the name itself       *)
(* (subs/record.py, history/__init__.py), its registry file                *)
(* (subs/registry.py), a record of its log (history/backend.py) and the    *)
(* text of its ids.txt (history/jsonl.py).                                 *)
(*                                                                         *)
(* Reading a record answers with the record or with the kind of error:     *)
(* "Format" for a store of another version, "Corrupt" for a damaged one,   *)
(* "TypeError" for what no handler expects.                                *)
(***************************************************************************)
EXTENDS Envelope

CONSTANTS
    MaxName,        \* MAX_NAME_LENGTH
    Code            \* the code point of each character of a file name

ASSUME MaxNameAssumption == MaxName \in Nat

TextOf(characters) == [text |-> characters]

Formats == {TextOf(<<"1">>)}    \* the versions of records this build reads

(* `$` lets one newline pass.                                              *)
IsSlug(text) ==
    LET body == BeforeLine(text)
    IN  /\ body # <<>> /\ body[1] \in Lower \cup Digit
        /\ Range(body) \subseteq Lower \cup Digit \cup {".", "_", "-"}

Climbs(text) == \E i \in 1..(Len(text) - 1) : text[i] = "." /\ text[i + 1] = "."

(* Mutant: the bound of a file name instead of the store's.                *)
NameProblemsLoose(name) ==
    IF ~Is("text", name) THEN {"not_a_string"}
    ELSE IF name.text = <<>> THEN {"empty"}
    ELSE {code \in {"too_long", "reserved_mqtt_char", "malformed"} :
             \/ code = "too_long" /\ Len(name.text) > 2 * MaxName
             \/ code = "reserved_mqtt_char" /\ Range(name.text) \cap {"#", "+", "/"} # {}
             \/ code = "malformed" /\ (~IsSlug(name.text) \/ Climbs(name.text))}

(* _name_errors: every reason a name is refused.                           *)
NameProblems(name) ==
    IF ~Is("text", name) THEN {"not_a_string"}
    ELSE IF name.text = <<>> THEN {"empty"}
    ELSE {code \in {"too_long", "reserved_mqtt_char", "malformed"} :
             \/ code = "too_long" /\ Len(name.text) > MaxName
             \/ code = "reserved_mqtt_char" /\ Range(name.text) \cap {"#", "+", "/"} # {}
             \/ code = "malformed" /\ (~IsSlug(name.text) \/ Climbs(name.text))}

(* _require_sub: the store's own grammar of the same name.                 *)
IsStoreName(name) ==
    Is("text", name) /\ IsSlug(name.text) /\ Len(BeforeLine(name.text)) <= MaxName

ClientIdFor(name) == TextOf(<<"events-cli-sub-">> \o name.text)

-----------------------------------------------------------------------------
(* One JSON file per name.                                                 *)

Suffix == <<".", "json">>

PathOf(name) == name.text \o Suffix

Stem(file) == TextOf(SubSeq(file, 1, Len(file) - Len(Suffix)))

RecordKeys == {"registryFormatVersion", "name", "pattern", "filter", "owner",
               "clientId", "created"}

(* SubscriptionRecord.new of a valid name and pattern.  The owner is the   *)
(* one given, this agent's nick, or the client id.                         *)
NewRecord(name, pattern, filter, owner, nick, created) ==
    [registryFormatVersion |-> TextOf(<<"1">>), name |-> name, pattern |-> pattern,
     filter |-> filter, clientId |-> ClientIdFor(name), created |-> created,
     owner |-> IF owner # Null THEN owner ELSE IF nick # Null THEN nick ELSE ClientIdFor(name)]

Refused(kind) == [refused |-> kind]

(* `version not in frozenset`: what cannot be hashed raises a TypeError.   *)
Unhashable(value) == Is("object", value) \/ Is("array", value)

RecordFromDict(payload) ==
    LET version == IF "registryFormatVersion" \in DOMAIN payload.object
                   THEN payload.object["registryFormatVersion"] ELSE Null
    IN  IF ~Is("object", payload) THEN Refused("Corrupt")
        ELSE IF Unhashable(version) THEN Refused("TypeError")
        ELSE IF version \notin Formats THEN Refused("Format")
        ELSE IF \E key \in RecordKeys : key \notin DOMAIN payload.object
                                        \/ ~Is("text", payload.object[key])
             THEN Refused("Corrupt")
        ELSE Restrict(payload.object, RecordKeys)

Load(file, payload) ==
    IF payload = NotJson THEN Refused("Corrupt")
    ELSE LET record == RecordFromDict(payload)
         IN  IF ~Is("refused", record) /\ record.name # Stem(file) THEN Refused("Corrupt")
                                                                   ELSE record

(* Two files in the order list() reports them, two names in that of        *)
(* names().                                                                *)
CodesOf(text) == [i \in 1..Len(text) |-> Code[text[i]]]

ListedBefore(one, other) == LexBefore(CodesOf(PathOf(one)), CodesOf(PathOf(other)))

NamedBefore(one, other) == LexBefore(CodesOf(one.text), CodesOf(other.text))

-----------------------------------------------------------------------------
(* HistoryRecord: an envelope and its place in the log.                    *)

HistoryToDict(record) ==
    [object |-> [storeFormatVersion |-> TextOf(<<"1">>), seq |-> record.seq,
                 subscription |-> record.subscription, recordedAt |-> record.recordedAt,
                 event |-> ToDict(record.envelope)]]

(* The same, written and read again.                                       *)
LoadsRecord(payload) ==
    [object |-> [key \in DOMAIN payload.object |->
                    IF key = "event" THEN LoadsObject(payload.object[key])
                                     ELSE Loads(payload.object[key])]]

HistoryKeys == {"seq", "subscription", "recordedAt", "event"}

(* str() of a value of a record that should be a text.                     *)
StrOf(value) == IF Is("text", value) THEN value ELSE TextOf(<<"repr">>)

HistoryFromDict(payload) ==
    LET version == IF "storeFormatVersion" \in DOMAIN payload.object
                   THEN payload.object["storeFormatVersion"] ELSE Null
        event == FromDict(payload.object["event"])
        seq == payload.object["seq"]
    IN  IF ~Is("object", payload) THEN Refused("Corrupt")
        ELSE IF Unhashable(version) THEN Refused("TypeError")
        ELSE IF version \notin Formats THEN Refused("Format")
        ELSE IF ~(HistoryKeys \subseteq DOMAIN payload.object) THEN Refused("Corrupt")
        ELSE IF event.problems # {} \/ ~Is("int", seq) THEN Refused("Corrupt")
        ELSE IF seq.int < 1 THEN Refused("Corrupt")
        ELSE [seq |-> seq, subscription |-> StrOf(payload.object["subscription"]),
              recordedAt |-> StrOf(payload.object["recordedAt"]), envelope |-> event.envelope]

-----------------------------------------------------------------------------
(* ids.txt: one line per id.                                               *)

SidecarOf(ids) == FlattenSeq([n \in DOMAIN ids |-> Append(ids[n], "nl")])

(* The last newline of the first n characters, or 0: bytes.rfind().        *)
LastNewline(text, n) ==
    CHOOSE i \in 0..n : /\ i = 0 \/ text[i] = "nl"
                        /\ \A j \in (i + 1)..n : text[j] # "nl"

(* The lines of the text that are not empty.                               *)
LinesOf(text) ==
    LET ends == {i \in 2..Len(text) : text[i] = "nl" /\ text[i - 1] # "nl"}
    IN  [n \in 1..Cardinality(ends) |->
            LET end == CHOOSE i \in ends : Cardinality({j \in ends : j < i}) = n - 1
            IN  SubSeq(text, LastNewline(text, end - 1) + 1, end - 1)]

(* Mutant: an id whose line is not complete is taken for one.              *)
ReadIdsToTheEnd(file, offset) ==
    LET blob == SubSeq(file, offset + 1, Len(file))
    IN  IF Len(file) <= offset THEN [lines |-> <<>>, offset |-> Len(file)]
        ELSE [lines |-> LinesOf(Append(blob, "nl")), offset |-> Len(file)]

(* The ids completed after offset, and where the next refresh starts.      *)
ReadIds(file, offset) ==
    LET blob == SubSeq(file, offset + 1, Len(file))
        cut == LastNewline(blob, Len(blob))
    IN  IF Len(file) <= offset THEN [lines |-> <<>>, offset |-> Len(file)]
        ELSE IF cut = 0 THEN [lines |-> <<>>, offset |-> offset]
        ELSE [lines |-> LinesOf(SubSeq(blob, 1, cut)), offset |-> offset + cut]
=============================================================================
