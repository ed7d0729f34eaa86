------------------------------ MODULE Envelope ------------------------------
(***************************************************************************)
(* core/envelope.py: which payloads are events, every reason why one is    *)
(* not, and the wire form of an event.                                     *)
(*                                                                         *)
(* A value of the program is a record with one field, its kind: "text",    *)
(* "int", "bool", "real", "null", "object", "array", "tuple" or, for what  *)
(* JSON does not know, "alien".  A text is a sequence of characters, told  *)
(* apart as far as the grammars do.  A time is a date-and-time and a zone; *)
(* a traceparent is its four groups.                                       *)
(*                                                                         *)
(* What an event's data holds is flat: a function from the path of every   *)
(* value inside to that value, where an object or an array is only its     *)
(* kind, as its items have paths of their own.  A path is the keys on the  *)
(* way; a place in an array is a key, too.                                 *)
(***************************************************************************)
EXTENDS Naturals, Integers, Sequences, FiniteSets, SequencesExt, Functions

CONSTANTS
    Lower, Upper, Digit,    \* letters and digits
    MaxId,                  \* _MAX_ID_LENGTH
    MaxType,                \* _MAX_TYPE_LENGTH
    MaxSource,              \* _MAX_SOURCE_LENGTH
    MaxVersion,             \* _MAX_SCHEMA_VERSION_LENGTH
    MaxDepth                \* _MAX_DATA_DEPTH

ASSUME DepthAssumption == MaxDepth \in Nat \ {0}

Alnum == Lower \cup Upper \cup Digit

Is(kind, value) == kind \in DOMAIN value

Null == [null |-> TRUE]
NotJson == [alien |-> "text"]   \* what json.loads refuses
BadKey == "7"                   \* stands for a key that is not a string

AnObject == [object |-> TRUE]   \* what stands in data for one with items
AnArray == [array |-> TRUE]
ATuple == [tuple |-> TRUE]

IsContainer(value) == Is("object", value) \/ Is("array", value) \/ Is("tuple", value)

(* `$` matches before a newline that ends the text, too.                   *)
BeforeLine(text) ==
    IF text # <<>> /\ Last(text) = "nl" THEN Front(text) ELSE text

IsIdentifier(text) ==
    LET body == BeforeLine(text)
    IN  /\ body # <<>> /\ body[1] \in Alnum
        /\ Range(body) \subseteq Alnum \cup {".", "_", ":", "+", "/", "=", "@", "-"}

(* Words of the given letters with one separator between two of them.      *)
IsJoined(text, letters, separators) ==
    LET body == BeforeLine(text)
    IN  /\ body # <<>> /\ Range(body) \subseteq letters \cup separators
        /\ \A i \in 1..Len(body) : body[i] \in separators =>
               i > 1 /\ i < Len(body) /\ body[i - 1] \in letters /\ body[i + 1] \in letters

IsEventType(text) == IsJoined(text, Lower \cup Digit, {".", "_", "-"})

IsVersion(text) == IsJoined(text, Digit, {"."})

(* urlsplit(text).scheme: control characters in front are stripped first.  *)
HasScheme(text) ==
    LET first == SelectInSeq(text, LAMBDA c : c # "ctl")
        url == IF first = 0 THEN <<>> ELSE SubSeq(text, first, Len(text))
        colon == SelectInSeq(url, LAMBDA c : c = ":")
    IN  /\ colon > 1 /\ url[1] \in Lower \cup Upper
        /\ \A i \in 1..(colon - 1) : url[i] \in Alnum \cup {"+", "-", "."}

IsSource(text) == Range(text) \cap {" ", "nl"} = {} /\ HasScheme(text)

IsTraceparent(text) ==
    LET groups == BeforeLine(text)
    IN  /\ Len(groups) = 4 /\ Range(groups) \subseteq {"0s", "fs", "hex"}
        /\ groups[1] # "fs" /\ groups[2] # "0s" /\ groups[3] # "0s"

-----------------------------------------------------------------------------
(* The checks of one field answer with the codes they report; fits says    *)
(* of a text whether it has the field's form.                              *)

FormProblem(value, fits) ==
    IF ~Is("text", value) THEN {"not_a_string"}
    ELSE IF value.text = <<>> THEN {"empty"}
    ELSE IF fits THEN {} ELSE {"malformed"}

TextProblem(value, max, fits) ==
    IF Is("text", value) /\ Len(value.text) > max THEN {"too_long"}
                                                  ELSE FormProblem(value, fits)

(* parse_rfc3339: the pattern lets a newline pass, fromisoformat does not. *)
TimeProblem(value) ==
    LET IsDate(text) == /\ Len(text) = 2 /\ text[1] = "date"
                        /\ text[2] \in {"Z", "z", "+00:00", "-00:00", "+02:00"}
        form == FormProblem(value, IsDate(value.text))
    IN  IF form # {} THEN form
        ELSE IF value.text[2] = "+02:00" THEN {"not_utc"} ELSE {}

AttemptProblem(value) ==
    IF ~Is("int", value) THEN {"not_an_integer"}
    ELSE IF value.int < 1 THEN {"out_of_range"} ELSE {}

(* The walk of data stops at a key that is not a string and at MaxDepth.   *)
Walked(items) ==
    {path \in DOMAIN items : /\ Len(path) <= MaxDepth
                             /\ \A i \in 1..(Len(path) - 1) : path[i] # BadKey}

ItemProblem(value, depth) ==
    CASE Is("real", value) -> IF value.real = "finite" THEN {} ELSE {"malformed"}
      [] Is("alien", value) -> {"unsupported_type"}
      [] IsContainer(value) -> IF depth >= MaxDepth THEN {"too_deep"} ELSE {}
      [] OTHER -> {}

(* The <<path, code>> reported at a path: a bad key is its object's.       *)
PathProblems(items, path) ==
    IF path[Len(path)] = BadKey
    THEN {<<<<"data">> \o SubSeq(path, 1, Len(path) - 1), "unsupported_type">>}
    ELSE {<<<<"data">> \o path, code>> : code \in ItemProblem(items[path], Len(path))}

DataProblems(value) ==
    IF Is("object", value)
    THEN UNION {PathProblems(value.object, path) : path \in Walked(value.object)}
    ELSE {<<<<"data">>, "not_an_object">>}

-----------------------------------------------------------------------------
Required == {"id", "type", "source", "time", "schemaVersion", "data"}

Optional == {"correlationId", "causationId", "runId", "traceparent", "producer",
             "deliveryAttempt"}

Field == Required \cup Optional

FieldProblems(name, value) ==
    LET one == CASE name = "type" -> TextProblem(value, MaxType, IsEventType(value.text))
                 [] name = "source" -> TextProblem(value, MaxSource, IsSource(value.text))
                 [] name = "time" -> TimeProblem(value)
                 [] name = "schemaVersion" -> TextProblem(value, MaxVersion, IsVersion(value.text))
                 [] name = "traceparent" -> FormProblem(value, IsTraceparent(value.text))
                 [] name = "deliveryAttempt" -> AttemptProblem(value)
                 [] OTHER -> TextProblem(value, MaxId, IsIdentifier(value.text))
    IN  IF name = "data" THEN DataProblems(value) ELSE {<<<<name>>, code>> : code \in one}

(* _collect_errors: an optional field that is None is absent.              *)
CollectErrors(envelope, skip) ==
    UNION {FieldProblems(name, envelope[name]) :
              name \in {n \in Field \ skip : n \in Optional => envelope[n] # Null}}

(* Mutant: the fields are looked at only once the keys are right.          *)
FromDictKeysFirst(payload) ==
    LET keys == IF Is("object", payload) THEN DOMAIN payload.object ELSE {}
        missing == Required \ keys
        envelope == [name \in Field |->
                        IF name \in keys THEN payload.object[name] ELSE Null]
        shape == {<<<<key>>, "unknown_field">> : key \in keys \ Field}
                     \cup {<<<<name>>, "missing">> : name \in missing}
    IN  [problems |-> IF ~Is("object", payload) THEN {<<<<>>, "not_an_object">>}
                      ELSE IF shape # {} THEN shape ELSE CollectErrors(envelope, {}),
         envelope |-> envelope]

FromDict(payload) ==
    LET keys == IF Is("object", payload) THEN DOMAIN payload.object ELSE {}
        missing == Required \ keys
        envelope == [name \in Field |->
                        IF name \in keys THEN payload.object[name] ELSE Null]
    IN  [problems |->
            IF ~Is("object", payload) THEN {<<<<>>, "not_an_object">>}
            ELSE {<<<<key>>, "unknown_field">> : key \in keys \ Field}
                     \cup {<<<<name>>, "missing">> : name \in missing}
                     \cup CollectErrors(envelope, missing),
         envelope |-> envelope]

(* Mutant: what is empty is left out.                                      *)
ToDictTruthy(envelope) ==
    [object |-> Restrict(envelope,
        {name \in Field : envelope[name] \notin {Null, [object |-> <<>>]}})]

ToDict(envelope) ==
    [object |-> Restrict(envelope, {name \in Field : name = "data" \/ envelope[name] # Null})]

-----------------------------------------------------------------------------
(* json.dumps and json.loads, used with allow_nan=False, of an object of   *)
(* such values.                                                            *)

Contents(value) ==
    IF IsContainer(value)
    THEN LET items == value[CHOOSE kind \in DOMAIN value : TRUE]
         IN  {items[path] : path \in DOMAIN items}
    ELSE {value}

Dumps(payload) ==
    \A key \in DOMAIN payload.object : \A value \in Contents(payload.object[key]) :
        ~Is("alien", value) /\ value # [real |-> "nan"]

(* The text can be written as UTF-8: no lone surrogate in it.              *)
Encodes(payload) ==
    \A key \in DOMAIN payload.object : \A value \in Contents(payload.object[key]) :
        Is("text", value) => "surrogate" \notin Range(value.text)

(* What comes back of a value: a tuple is an array on the wire.            *)
LoadsItems(items) ==
    [path \in DOMAIN items |-> IF Is("tuple", items[path]) THEN AnArray ELSE items[path]]

Loads(value) ==
    CASE Is("object", value) -> [object |-> LoadsItems(value.object)]
      [] Is("array", value) -> [array |-> LoadsItems(value.array)]
      [] Is("tuple", value) -> [array |-> LoadsItems(value.tuple)]
      [] OTHER -> value

LoadsObject(payload) ==
    [object |-> [key \in DOMAIN payload.object |-> Loads(payload.object[key])]]

-----------------------------------------------------------------------------
(* new_id: TimeBits of milliseconds above RandomBits of entropy, written   *)
(* in digits of DigitBits, the most significant first.                     *)
EncodeUlid(millis, entropy, layout) ==
    LET value == (millis % 2^layout.timeBits) * 2^layout.randomBits
                     + (entropy % 2^layout.randomBits)
        base == 2^layout.digitBits
    IN  [i \in 1..layout.length |-> (value \div base^(layout.length - i)) % base]

(* The order of texts, given as numbers.                                   *)
LexBefore(one, other) ==
    \E n \in 0..Len(one) :
        /\ n <= Len(other) /\ SubSeq(one, 1, n) = SubSeq(other, 1, n)
        /\ n < Len(other) /\ (n = Len(one) \/ one[n + 1] < other[n + 1])
=============================================================================
