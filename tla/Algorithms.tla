----------------------------- MODULE Algorithms -----------------------------
(***************************************************************************)
(* The pure parts of the program: topics and patterns, `events list`, the  *)
(* status of the stack, events and their wire form, and what is kept of a  *)
(* subscription.  Each is compared with a definition of what it should     *)
(* compute, over every call from the given sets of arguments.              *)
(***************************************************************************)
EXTENDS Topics, HistoryList, Ports, Records

CONSTANTS
    Pattern,        \* texts given as patterns
    Text,           \* texts given as event types
    Topic,          \* topics, as sequences of levels
    Filter,         \* topic filters
    Histories,      \* functions from subscriptions to their records
    MaxList,        \* bound on --max
    Bindings,       \* a container's port bindings
    Health,         \* what a healthcheck may say, "" if there is none
    Base,           \* the fields of a valid event
    Changes,        \* functions from keys to values, made to those of Base
    IdLists,        \* the ids of a log
    Names, Others,  \* subscription names
    Edits,          \* changes made to a registry record
    Clocks,         \* millisecond clocks, in the layout below
    Layout          \* how an id is made of a clock and entropy

(* str.split() returns at least one piece.                                 *)
IsSplit(pieces) == pieces # <<>> /\ pieces \in Seq({pieces[i] : i \in DOMAIN pieces})

ASSUME SplitAssumption ==
    /\ \A text \in Pattern \cup Text \cup Topic \cup Filter : IsSplit(text)
    /\ \A topic \in Topic : \A i \in DOMAIN topic : IsSplit(topic[i])

ASSUME BindingAssumption ==
    \A bindings \in Bindings : \A b \in bindings :
        b.port \in Nat \ {0} /\ b = [address |-> b.address, port |-> b.port]

(* Subscriptions are numbered; a log is numbered from one, and no event is *)
(* stored twice in it, which is LogDecides: unless an ids.txt was deleted  *)
(* that a writer had read.                                                 *)
ASSUME HistoryAssumption ==
    /\ MaxList \in Nat
    /\ \A logs \in Histories :
           /\ DOMAIN logs \subseteq Nat /\ IsFiniteSet(DOMAIN logs)
           /\ \A sub \in DOMAIN logs :
                  /\ logs[sub] \in Seq({logs[sub][n] : n \in DOMAIN logs[sub]})
                  /\ \A n \in DOMAIN logs[sub] : logs[sub][n].at \in Nat
                  /\ \A m, n \in DOMAIN logs[sub] :
                         logs[sub][m].id = logs[sub][n].id => m = n

(* A value is of one kind, and above every value that an object holds are  *)
(* the containers it is in.                                                *)
IsTree(items) ==
    \A path \in DOMAIN items :
        /\ path \in Seq(Range(path)) /\ path # <<>>
        /\ \A n \in 1..(Len(path) - 1) : /\ SubSeq(path, 1, n) \in DOMAIN items
                                          /\ IsContainer(items[SubSeq(path, 1, n)])

IsOneKind(value) == \A one, other \in DOMAIN value : one = other

IsValue(value) ==
    /\ IsOneKind(value)
    /\ Is("object", value) =>
           IsTree(value.object) /\ \A path \in DOMAIN value.object : IsOneKind(value.object[path])

ASSUME BaseAssumption ==
    /\ FromDict([object |-> Base]).problems = {}
    /\ \A key \in DOMAIN Base : IsValue(Base[key])

ASSUME ChangeAssumption ==
    \A changes \in Changes : \A key \in DOMAIN changes : IsValue(changes[key])

(* What is given as a name is a text or nothing; a file has one.           *)
ASSUME NameAssumption ==
    /\ \A name \in Names \cup Others :
           name # Null => name = [text |-> name.text] /\ name.text \in Seq(Range(name.text))
    /\ Null \notin Others

ASSUME IdAssumption ==
    \A ids \in IdLists :
        /\ ids \in Seq(Range(ids))
        /\ \A n \in DOMAIN ids : ids[n] \in Seq(Range(ids[n])) /\ ids[n] # <<>>

VARIABLE call       \* one call and its arguments

Init ==
    \/ \E p \in Pattern, t \in Text :
           call = [of |-> "select", pattern |-> p, type |-> t]
    \/ \E f \in Filter, t \in Topic :
           call = [of |-> "match", filter |-> f, topic |-> t]
    \/ \E t \in Topic :
           call = [of |-> "parse", topic |-> t]
    \/ \E logs \in Histories, max \in 1..MaxList :
           \E type \in {AnyType} \cup
               UNION {{logs[s][n].type : n \in DOMAIN logs[s]} : s \in DOMAIN logs} :
               call = [of |-> "list", logs |-> logs, max |-> max, type |-> type]
    \/ \E one, other \in Bindings, health \in Health, shape \in {"Ports", "Publishers"},
          state \in {"running", "exited"}, first \in {"broker", "helper"} :
           call = [of |-> "status", shape |-> shape, state |-> state, health |-> health,
                   bindings |-> <<one, other>>,
                   services |-> IF first = "broker" THEN <<"broker", "helper">>
                                                    ELSE <<"helper", "broker">>]
    \/ \E changes \in Changes :
           call = [of |-> "envelope", changes |-> changes]
    \/ \E ids \in IdLists : \E cut \in 0..Len(SidecarOf(ids)) :
           call = [of |-> "sidecar", ids |-> ids, cut |-> cut]
    \/ \E name \in Names, edits \in Edits :
           call = [of |-> "record", name |-> name, file |-> name, edits |-> edits]
    \/ \E name, other \in Others :
           call = [of |-> "record", name |-> name, file |-> other, edits |-> <<>>]
    \/ \E one, other \in Clocks, r, s \in 0..(2^Layout.randomBits - 1) :
           call = [of |-> "ids", clocks |-> <<one, other>>, entropy |-> <<r, s>>]

(* docker compose ps: two rows, the helper running without a healthcheck.  *)
Row(n) ==
    LET ours == call.services[n] = "broker"
    IN  [service |-> call.services[n],
         state |-> IF ours THEN call.state ELSE "running",
         health |-> IF ours THEN call.health ELSE "",
         ports |-> IF call.shape = "Ports" THEN Entries(call.bindings[n]) ELSE {},
         publishers |-> Publishers(call.bindings[n], {9000})]

Absent == [absent |-> TRUE]

Override(fields, changes) ==
    [object |-> [key \in {k \in DOMAIN fields \cup DOMAIN changes :
                              k \in DOMAIN changes => changes[k] # Absent} |->
                    IF key \in DOMAIN changes THEN changes[key] ELSE fields[key]]]

Parsed(changes) == FromDict(Override(Base, changes))

(* What `sub add` writes for a name, with nobody having said who owns it.  *)
Registered(name) ==
    NewRecord(name, TextOf(<<"*">>), TextOf(<<"+">>), Null, Null, Base["time"])

Next == UNCHANGED call

Spec == Init /\ [][Next]_call

-----------------------------------------------------------------------------
(* A subscription hears exactly the types its pattern selects: compiling   *)
(* the pattern, routing the type and the broker's matching agree with the  *)
(* reading "* is one segment" (topics.py 174-249).                         *)
PatternsSelect ==
    call.of = "select" =>
        LET filter == PatternToFilter(call.pattern)
            topic == TypeToTopic(call.type)
        IN  filter # Rejected /\ topic # Rejected =>
                (FilterMatches(filter, topic) <=> Selects(call.pattern, call.type))

(* "the same semantics MQTT brokers use for subscription matching"         *)
(* (topics.py 235-236), whatever the filter and the topic: the matcher     *)
(* misses nothing that a broker would deliver, and takes nothing else but  *)
(* what a leading wildcard would match if it were not for the '$' of a     *)
(* broker's own topics.  The program's filters begin with "events".        *)
MatcherIsMqtt ==
    call.of = "match" =>
        /\ MqttMatches(call.filter, call.topic) => FilterMatches(call.filter, call.topic)
        /\ FilterMatches(call.filter, call.topic) =>
               \/ MqttMatches(call.filter, call.topic)
               \/ Hidden(call.filter, call.topic)

(* The same without the exception: "any two strings" (topics.py 228).      *)
MatcherIsMqttEverywhere ==
    call.of = "match" =>
        (FilterMatches(call.filter, call.topic) <=> MqttMatches(call.filter, call.topic))

(* A type survives the way to its topic and back, and a topic with no dot  *)
(* in a level is accepted only if it is the topic of the type it yields.   *)
TypesComeBack ==
    /\ call.of = "select" /\ TypeToTopic(call.type) # Rejected =>
           TopicToType(TypeToTopic(call.type)) = call.type
    /\ call.of = "parse" /\ TopicToType(call.topic) # Rejected
           /\ (\A i \in 1..Len(call.topic) : Len(call.topic[i]) = 1) =>
           TypeToTopic(TopicToType(call.topic)) = call.topic

(* "The global newest-N is always a subset of the union of the per-sub     *)
(* newest-N, so bounding each subscription's walk is safe" (jsonl.py       *)
(* 473-474), and stays so when the events of several subscriptions are     *)
(* reported once.                                                          *)
ListIsNewest ==
    call.of = "list" =>
        IsNewest(List(call.logs, call.type, call.max), call.logs, call.type, call.max)

(* "Report the address actually published" (_status.py 12-15) and "running *)
(* is not healthy" (_status.py 5-10), in both of docker's shapes and       *)
(* whatever else the stack runs: loopback_only is false exactly if a       *)
(* service publishes the broker's port off the host, and healthy is true   *)
(* exactly if the broker's own healthcheck said so.                        *)
StatusIsStrict ==
    call.of = "status" =>
        LET services == [n \in 1..2 |-> ServiceFromRow(Row(n))]
        IN  /\ LoopbackOnly(services) <=>
                   \A n \in 1..2 : ~LeavesHost(call.bindings[n])
            /\ Healthy(services) <=> call.state = "running" /\ call.health = "healthy"

(* What is accepted can be told: an accepted event has a wire form, that   *)
(* form is accepted by the next reader and is the same event, and so is    *)
(* the line the store keeps of it (envelope.py 466-525, backend.py         *)
(* 83-146), but for a tuple, which is an array from then on.               *)
EnvelopesComeBack ==
    call.of = "envelope" /\ Parsed(call.changes).problems = {} =>
        LET event == Parsed(call.changes).envelope
            same == [name \in Field |-> Loads(event[name])]
            record == [seq |-> [int |-> 1], subscription |-> TextOf(<<"a">>),
                       recordedAt |-> Base["time"], envelope |-> event]
        IN  /\ Dumps(ToDict(event))
            /\ FromDict(LoadsObject(ToDict(event))) = [problems |-> {}, envelope |-> same]
            /\ HistoryFromDict(LoadsRecord(HistoryToDict(record))) =
                   [record EXCEPT !.envelope = same]

(* "Every problem in the payload is reported in one pass" (envelope.py     *)
(* 490-492): what is wrong with one key is reported whatever is wrong with *)
(* another, and nothing else is.                                           *)
NoProblemHidesAnother ==
    call.of = "envelope" =>
        Parsed(call.changes).problems =
            UNION {Parsed(Restrict(call.changes, {key})).problems :
                      key \in DOMAIN call.changes}

(* "Leave it for the next refresh rather than reading half an id"          *)
(* (jsonl.py 242-250): wherever the writer is when ids.txt is read, this   *)
(* read and the next one return every id once, in order.                   *)
SidecarReadsExactly ==
    call.of = "sidecar" =>
        LET file == SidecarOf(call.ids)
            early == ReadIds(SubSeq(file, 1, call.cut), 0)
            late == ReadIds(file, early.offset)
        IN  early.lines \o late.lines = call.ids /\ late.offset = Len(file)

(* A name `sub add` accepts is one the store takes ("two grammars would    *)
(* silently diverge", record.py 60-64), its file is found by it and by no  *)
(* other name, a key this build does not know changes nothing, and what is *)
(* read instead of it after an edit is still a record of that name.        *)
RecordsComeBack ==
    call.of = "record" /\ NameProblems(call.name) = {} =>
        LET record == Registered(call.name)
            read == Load(PathOf(call.file), Override(record, call.edits))
        IN  /\ IsStoreName(call.name)
            /\ DOMAIN call.edits \cap RecordKeys = {} =>
                   (read = record <=> call.file = call.name)
            /\ ~Is("refused", read) => read.name = call.file

(* An accepted event can be stored and sent (the drain persists what       *)
(* from_json accepted, drain.py 350-359).                                  *)
AcceptedIsStorable ==
    call.of = "envelope" /\ Parsed(call.changes).problems = {} =>
        Encodes(ToDict(Parsed(call.changes).envelope))

(* "A record that cannot be interpreted is an environment fault naming the *)
(* file it came from - never a traceback" (record.py from_dict).           *)
NeverATraceback ==
    call.of = "record" /\ NameProblems(call.name) = {} =>
        Load(PathOf(call.file), Override(Registered(call.name), call.edits))
            # Refused("TypeError")

(* "Every registered subscription, sorted by name" (registry.py 126).      *)
ListIsSortedByName ==
    call.of = "record" /\ NameProblems(call.name) = {} /\ NameProblems(call.file) = {} =>
        (ListedBefore(call.name, call.file) <=> NamedBefore(call.name, call.file))

(* "Sortable by generation time" (envelope.py 73-76).                      *)
IdsSortByTime ==
    call.of = "ids" /\ call.clocks[1] < call.clocks[2] =>
        LexBefore(EncodeUlid(call.clocks[1], call.entropy[1], Layout),
               EncodeUlid(call.clocks[2], call.entropy[2], Layout))

(* "Invert type_to_topic" (topics.py 138): a topic is accepted only if it  *)
(* is the topic of the type it yields.                                     *)
TopicsInvert ==
    call.of = "parse" /\ TopicToType(call.topic) # Rejected =>
        TypeToTopic(TopicToType(call.topic)) = call.topic

(* "A pattern with no wildcard at all compiles identically to              *)
(* type_to_topic" (topics.py 181).                                         *)
PlainPatternsAreTypes ==
    call.of = "select" /\ PatternToFilter(call.pattern) # Rejected
        /\ (\A i \in 1..Len(call.pattern) : call.pattern[i] # "*") =>
        PatternToFilter(call.pattern) = TypeToTopic(call.pattern)
=============================================================================
