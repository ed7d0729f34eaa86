---------------------------- MODULE MCAlgorithms ----------------------------
(* Texts and topics of up to three pieces; two subscriptions that may hold *)
(* the same events, recorded by a clock that repeats itself.               *)
EXTENDS Algorithms

LOCAL INSTANCE TLC

CONSTANTS
    Also,       \* characters of texts, besides those of every run
    Ids,        \* characters of ids in ids.txt
    Versions    \* what may stand for a record's version

CONSTANTS a, aLine, bad, e1, e2, e3, t1, t2, Times, OtherPort

SizeOf == [w \in {"events", a, aLine} |->
              IF w = "events" THEN 6 ELSE IF w = a THEN 1 ELSE 2]

UpTo(S, n) == UNION {[1..k -> S] : k \in 1..n}

PatternsUpTo2 == UpTo(Segment, 2)
TextsUpTo3 == UpTo(Segment, 3)
TopicsUpTo3 ==
    UpTo({<<"events">>, <<a>>, <<"">>, <<a, a>>, <<aLine>>, <<"$SYS">>}, 3)
FiltersUpTo3 == UpTo({<<"events">>, <<a>>, <<"$SYS">>, <<"+">>, <<"#">>}, 3)

TypeOf == [e \in {e1, e2, e3} |-> IF e = e3 THEN t2 ELSE t1]

(* Times is "steady" or, if the wall clock may be set back, "any".         *)
Ordered(at) ==
    Times = "steady" => \A i, j \in DOMAIN at : i <= j => at[i] <= at[j]

LogsOf3 ==
    UNION {{[i \in 1..n |-> [id |-> id[i], at |-> at[i], type |-> TypeOf[id[i]]]] :
               id \in {f \in [1..n -> {e1, e2, e3}] :
                          \A i, j \in 1..n : f[i] = f[j] => i = j},
               at \in {f \in [1..n -> 1..2] : Ordered(f)}} : n \in 0..3}

TwoHistories == [1..2 -> LogsOf3]

UpTo2Bindings ==
    {B \in SUBSET [address : {"127.0.0.1", "0.0.0.0", "::1", "::"},
                   port : {1883, OtherPort}] : Cardinality(B) <= 2}

T(text) == [text |-> text]

N(n) == [int |-> n]

(* An event with every field, and what may stand in its place.             *)
BaseEvent ==
    [id |-> T(<<"a">>), type |-> T(<<"a">>), source |-> T(<<"a", ":">>),
     time |-> T(<<"date", "Z">>), schemaVersion |-> T(<<"1">>),
     correlationId |-> T(<<"a">>), causationId |-> T(<<"1">>), runId |-> T(<<"A">>),
     producer |-> T(<<"a", "-">>), traceparent |-> T(<<"hex", "hex", "hex", "0s">>),
     deliveryAttempt |-> N(2), data |-> [object |-> (<<"k">> :> T(<<"a">>))]]

Texts == UNION {[1..n -> {"a", "1", ".", ":", "nl", "ctl"} \cup Also] : n \in 0..4}

Times4 == {T(<<date, zone>> \o line) :
              date \in {"date", "nodate"}, line \in {<<>>, <<"nl">>},
              zone \in {"Z", "z", "+00:00", "-00:00", "+02:00", "none"}}

Traces == {T(<<v, t, p, "hex">> \o line) :
              v, t, p \in {"0s", "fs", "hex", "HEX"}, line \in {<<>>, <<"nl">>, <<"hex">>}}

Odd == {Null, Absent, N(0), N(1), [bool |-> TRUE], T(<<>>), T(<<" ">>), [object |-> <<>>]}

Leaves == {T(<<c>>) : c \in {"a"} \cup Also} \cup
    {Null, N(0), [bool |-> FALSE], [real |-> "finite"], [real |-> "nan"], [alien |-> "set"]}

(* A value and those in it, by their paths from it.                        *)
Alone(value) == (<<>> :> value)

Under(container, key, tree) ==
    Alone(container) @@ [path \in {<<key>> \o below : below \in DOMAIN tree} |-> tree[Tail(path)]]

Around(trees) ==
    {Alone(value) : value \in Leaves \cup {AnObject, AnArray}}
        \cup {Under(AnObject, key, tree) : key \in {"k", BadKey}, tree \in trees}
        \cup {Under(container, "[0]", tree) : container \in {AnArray, ATuple}, tree \in trees}

(* An object of two values.                                                *)
Both(one, other) ==
    Under(AnObject, "k", one) @@ Under(AnObject, "l", other)

DataOf(tree) ==
    LET items == [path \in DOMAIN tree \ {<<>>} |-> tree[path]]
    IN  CASE tree[<<>>] = AnObject -> [object |-> items]
          [] tree[<<>>] = AnArray -> [array |-> items]
          [] tree[<<>>] = ATuple -> [tuple |-> items]
          [] OTHER -> tree[<<>>]

LeafTrees == {Alone(value) : value \in Leaves}

Data ==
    {DataOf(tree) : tree \in Around(Around(Around(Around(LeafTrees))))
        \cup {Both(one, other) : one, other \in Around(LeafTrees)}}

(* One field changed to anything, or two to what is wrong in its own way.  *)
OneChange ==
    {key :> T(text) : key \in {"id", "source", "type", "schemaVersion", "producer"},
                      text \in Texts}
    \cup {"time" :> v : v \in Times4} \cup {"traceparent" :> v : v \in Traces}
    \cup {"data" :> v : v \in Data}

TwoChanges ==
    {(one :> v) @@ (other :> w) : one, other \in DOMAIN BaseEvent \cup {"bogus"},
                                  v, w \in Odd}

AllChanges == OneChange \cup TwoChanges

IdTexts == UNION {[1..n -> Ids] : n \in 1..2} \ {<<"nl">>, <<"nl", "nl">>}

IdListsOf3 ==
    {ids \in UNION {[1..n -> IdTexts] : n \in 0..3} : \A i, j \in DOMAIN ids :
        ids[i] = ids[j] => i = j}

Characters4(S, n) == {T(text) : text \in UNION {[1..k -> S] : k \in 0..n}}

NamesOf5 == Characters4({"a", "A", "1", "-", ".", "/", "nl"}, 4) \cup {Null}

NamesOf3 == {name \in Characters4({"a", "1", "-", "."}, 3) : name.text # <<>>}

EditsOfOne ==
    {<<>>} \cup {"bogus" :> T(<<"a">>)}
        \cup {key :> v : key \in RecordKeys,
                         v \in {Null, Absent, N(1), T(<<>>), T(<<"a">>), T(<<"2">>)}}
        \cup {"registryFormatVersion" :> v : v \in Versions}
        \cup {("registryFormatVersion" :> T(<<"2">>)) @@ ("owner" :> Absent)}

ListVersions == {[array |-> <<T(<<"1">>)>>]}

CodeOf ==
    ("nl" :> 10) @@ ("-" :> 45) @@ ("." :> 46) @@ ("1" :> 49) @@ ("a" :> 97) @@ ("json" :> 106)

UlidLayout == [timeBits |-> 3, randomBits |-> 2, digitBits |-> 2, length |-> 3]
=============================================================================
