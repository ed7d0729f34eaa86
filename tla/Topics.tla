------------------------------- MODULE Topics -------------------------------
(***************************************************************************)
(* core/topics.py: event types, the topics they travel on, and the filters *)
(* patterns compile to.                                                    *)
(*                                                                         *)
(* A dotted text is the sequence of its segments, so "" is <<"">>; a topic *)
(* is the sequence of its levels, and a level, in which a dot is a letter  *)
(* like any other, is again a dotted text.  Segments are told apart as far *)
(* as the grammars do.                                                     *)
(***************************************************************************)
EXTENDS Naturals, SequencesExt

CONSTANTS
    Word,           \* segments the type grammar allows
    LineWord,       \* such a word followed by a newline, which "$" lets pass
    Illegal,        \* segments no grammar allows
    Reserved,       \* segments with a '#', '+' or '/' in them
    Dollar,         \* those of the illegal segments that begin with a '$'
    Rejected,       \* a TopicValidationError
    Size,           \* the number of characters of each word
    MaxTypeLength   \* _MAX_TYPE_LENGTH

(* No word has a wildcard in it, and none is empty (_TYPE_RE).             *)
ASSUME WordAssumption == (Word \cup LineWord) \cap {"", "*", "+", "#"} = {}
ASSUME DollarAssumption == Dollar \subseteq Illegal
ASSUME SizeAssumption == Size \in [Word \cup LineWord -> Nat \ {0}]

Segment == Word \cup LineWord \cup Illegal \cup Reserved \cup {"", "*"}

Prefix == <<"events">>

(* Characters, the dots between segments included.                         *)
Characters(text) ==
    FoldLeft(LAMBDA n, s : n + Size[s], 0, text) + Len(text) - 1

(* _check_event_type on a whole text.                                      *)
IsType(text) ==
    /\ \A i \in 1..Len(text) :
           text[i] \in Word \/ (i = Len(text) /\ text[i] \in LineWord)
    /\ Characters(text) <= MaxTypeLength

(* Each segment of a type is a level of its topic.                         *)
TypeToTopic(type) ==
    IF IsType(type) THEN <<Prefix>> \o [i \in 1..Len(type) |-> <<type[i]>>]
                    ELSE Rejected

(* Mutant: any first level will do.                                        *)
TopicToTypeAnyLane(topic) ==
    LET candidate == FlattenSeq(Tail(topic))
    IN  IF Len(topic) > 1 /\ <<"">> \notin Range(Tail(topic)) /\ IsType(candidate)
        THEN candidate ELSE Rejected

TopicToType(topic) ==
    LET candidate == FlattenSeq(Tail(topic))
        inLane == topic[1] = Prefix /\ Len(topic) > 1
    IN  IF inLane /\ <<"">> \notin Range(Tail(topic)) /\ IsType(candidate)
        THEN candidate ELSE Rejected

-----------------------------------------------------------------------------
(* Mutant: the multi-level wildcard at the end of a pattern.               *)
CompileBroad(pattern, i) ==
    IF pattern[i] # "*" THEN <<pattern[i]>>
    ELSE IF i = Len(pattern) THEN <<"#">> ELSE <<"+">>

Compile(pattern, i) == IF pattern[i] = "*" THEN <<"+">> ELSE <<pattern[i]>>

(* Segments are checked one at a time.                                     *)
PatternToFilter(pattern) ==
    IF \A i \in 1..Len(pattern) : pattern[i] = "*" \/ IsType(<<pattern[i]>>)
    THEN <<Prefix>> \o [i \in 1..Len(pattern) |-> Compile(pattern, i)]
    ELSE Rejected

-----------------------------------------------------------------------------
(* Mutant: the lengths are not compared at the end.                        *)
FilterMatchesPrefix(filter, topic) ==
    LET stops == {i \in 1..Len(filter) :
                    \/ filter[i] = <<"#">>
                    \/ i > Len(topic)
                    \/ filter[i] # <<"+">> /\ filter[i] # topic[i]}
    IN  IF stops = {} THEN TRUE
        ELSE \E i \in stops : /\ \A j \in stops : i <= j
                              /\ filter[i] = <<"#">> /\ i = Len(filter)

(* The loop over the filter's levels ends at the first one that is '#',    *)
(* has no counterpart, or differs; without one the lengths decide.         *)
FilterMatches(filter, topic) ==
    LET stops == {i \in 1..Len(filter) :
                    \/ filter[i] = <<"#">>
                    \/ i > Len(topic)
                    \/ filter[i] # <<"+">> /\ filter[i] # topic[i]}
    IN  IF stops = {} THEN Len(filter) = Len(topic)
        ELSE \E i \in stops : /\ \A j \in stops : i <= j
                              /\ filter[i] = <<"#">> /\ i = Len(filter)

-----------------------------------------------------------------------------
(* What MQTT says a filter matches (4.7): level by level, '+' standing for *)
(* one level and a final '#' for any number of them, except that a filter  *)
(* which begins with a wildcard does not match a topic that begins with    *)
(* '$' (4.7.2).                                                            *)
LevelsMatch(filter, topic, n) ==
    \A i \in 1..n : filter[i] = <<"+">> \/ filter[i] = topic[i]

MatchesByLevel(filter, topic) ==
    LET n == Len(filter)
    IN  \/ /\ n = Len(topic)
           /\ LevelsMatch(filter, topic, n)
           /\ \A i \in 1..n : filter[i] # <<"#">>
        \/ /\ filter[n] = <<"#">>
           /\ Len(topic) >= n - 1
           /\ LevelsMatch(filter, topic, n - 1)
           /\ \A i \in 1..(n - 1) : filter[i] # <<"#">>

Hidden(filter, topic) ==
    filter[1] \in {<<"+">>, <<"#">>} /\ topic[1][1] \in Dollar

MqttMatches(filter, topic) ==
    MatchesByLevel(filter, topic) /\ ~Hidden(filter, topic)

(* What a pattern selects: types of its length that agree outside '*'.     *)
Selects(pattern, type) ==
    /\ Len(pattern) = Len(type)
    /\ \A i \in 1..Len(type) : pattern[i] = "*" \/ pattern[i] = type[i]
=============================================================================
