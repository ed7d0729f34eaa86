-------------------------- MODULE AlgorithmsProofs --------------------------
(***************************************************************************)
(* What the pure parts of Algorithms compute, for arguments of any         *)
(* length and any sets of words, events, values, ids and bindings.         *)
(*                                                                         *)
(* Induction is by least counterexample: of the places where a recursive   *)
(* definition differs from its closed form there would be a first one.     *)
(***************************************************************************)
EXTENDS Algorithms, WellFoundedInduction, FiniteSetTheorems, SequenceTheorems, TLAPS

(* A set of numbers has a least one.                                       *)
LEMMA LeastNat ==
    ASSUME NEW S, S \subseteq Nat, S # {}
    PROVE  \E x \in S : \A y \in S : x <= y
<1>1. PICK x \in S : \A y \in S : <<y, x>> \notin OpToRel(<, Nat)
  BY NatLessThanWellFounded, WFMin
<1>2. \A y \in S : ~(y < x)
  BY <1>1 DEF OpToRel
<1> QED BY <1>2

(* What has been split is a sequence of at least one piece.                *)
LEMMA Splits ==
    ASSUME NEW s, IsSplit(s)
    PROVE  Len(s) \in Nat /\ Len(s) > 0 /\ DOMAIN s = 1..Len(s) /\ s = [i \in 1..Len(s) |-> s[i]]
<1> DEFINE S == {s[i] : i \in DOMAIN s}
<1>1. s \in Seq(S) /\ s # <<>>
  BY DEF IsSplit
<1> HIDE DEF S
<1> QED BY <1>1

(* A call is made once and for all.                                        *)
LEMMA CallStays == [Next]_call => call' = call
BY DEF Next

-----------------------------------------------------------------------------
(* A filter with a '#' matches by its last level, one without by its       *)
(* length: the loop's first stop is that level, or there is none.          *)
LEMMA MatcherAgrees ==
    ASSUME NEW filter, NEW topic, IsSplit(filter), IsSplit(topic)
    PROVE  FilterMatches(filter, topic) <=> MatchesByLevel(filter, topic)
<1> DEFINE n == Len(filter)
           m == Len(topic)
           stops == {i \in 1..n : \/ filter[i] = <<"#">>
                                  \/ i > m
                                  \/ filter[i] # <<"+">> /\ filter[i] # topic[i]}
<1>1. n \in Nat /\ n > 0 /\ m \in Nat /\ m > 0
  BY Splits
<1>2. FilterMatches(filter, topic) <=>
        IF stops = {} THEN n = m
        ELSE \E i \in stops : (\A j \in stops : i <= j) /\ filter[i] = <<"#">> /\ i = n
  BY DEF FilterMatches
<1>3. MatchesByLevel(filter, topic) <=>
        \/ n = m /\ LevelsMatch(filter, topic, n) /\ \A i \in 1..n : filter[i] # <<"#">>
        \/ /\ filter[n] = <<"#">> /\ m >= n - 1 /\ LevelsMatch(filter, topic, n - 1)
           /\ \A i \in 1..(n - 1) : filter[i] # <<"#">>
  BY DEF MatchesByLevel
<1>4. CASE stops = {}
  <2>1. \A i \in 1..n : filter[i] # <<"#">> /\ i <= m /\ (filter[i] = <<"+">> \/ filter[i] = topic[i])
    BY <1>1, <1>4
  <2> HIDE DEF stops, n, m
  <2>2. filter[n] # <<"#">> /\ LevelsMatch(filter, topic, n)
    BY <1>1, <2>1 DEF LevelsMatch
  <2> QED BY <1>1, <1>2, <1>3, <1>4, <2>1, <2>2
<1>5. CASE stops # {}
  <2>1. ASSUME \E i \in stops : (\A j \in stops : i <= j) /\ filter[i] = <<"#">> /\ i = n
        PROVE MatchesByLevel(filter, topic)
    <3>1. filter[n] = <<"#">> /\ \A i \in 1..(n-1) : i \in 1..n /\ i \notin stops
      BY <1>1, <2>1
    <3>2. \A i \in 1..(n-1) : filter[i] # <<"#">> /\ i <= m /\ (filter[i] = <<"+">> \/ filter[i] = topic[i])
      BY <1>1, <3>1
    <3> HIDE DEF stops, n, m
    <3>3. m >= n - 1
      <4>1. CASE n = 1
        BY <1>1, <4>1
      <4>2. CASE n > 1
        BY <1>1, <4>2, <3>2
      <4> QED BY <1>1, <4>1, <4>2
    <3> QED BY <1>1, <1>3, <3>1, <3>2, <3>3 DEF LevelsMatch
  <2>2. ASSUME MatchesByLevel(filter, topic)
        PROVE \E i \in stops : (\A j \in stops : i <= j) /\ filter[i] = <<"#">> /\ i = n
    <3>1. ~(n = m /\ LevelsMatch(filter, topic, n) /\ \A i \in 1..n : filter[i] # <<"#">>)
      BY <1>1, <1>5 DEF LevelsMatch
    <3>2. /\ filter[n] = <<"#">> /\ m >= n - 1 /\ LevelsMatch(filter, topic, n - 1)
          /\ \A i \in 1..(n - 1) : filter[i] # <<"#">>
      BY <1>3, <2>2, <3>1
    <3>3. n \in stops
      BY <1>1, <3>2
    <3>4. \A j \in stops : n <= j
      BY <1>1, <3>2 DEF LevelsMatch
    <3> QED BY <3>2, <3>3, <3>4
  <2> QED BY <1>2, <1>5, <2>1, <2>2
<1> QED BY <1>4, <1>5

(* The matcher says of every filter and topic what MQTT says, a '#' that   *)
(* is not the last level included, but for a wildcard at the beginning     *)
(* and a topic that begins with '$' (topics.py 221-249).                   *)
THEOREM MatchesAsMqtt == Spec => []MatcherIsMqtt
<1>1. Init => MatcherIsMqtt
  <2> SUFFICES ASSUME Init, call.of = "match"
               PROVE  /\ MqttMatches(call.filter, call.topic)
                             => FilterMatches(call.filter, call.topic)
                      /\ FilterMatches(call.filter, call.topic) =>
                             \/ MqttMatches(call.filter, call.topic)
                             \/ Hidden(call.filter, call.topic)
    BY DEF MatcherIsMqtt
  <2>1. call.filter \in Filter /\ call.topic \in Topic
    BY DEF Init
  <2>2. FilterMatches(call.filter, call.topic) <=> MatchesByLevel(call.filter, call.topic)
    BY <2>1, SplitAssumption, MatcherAgrees
  <2> QED BY <2>2 DEF MqttMatches
<1>2. MatcherIsMqtt /\ [Next]_call => MatcherIsMqtt'
  BY CallStays DEF MatcherIsMqtt
<1> QED BY <1>1, <1>2, PTL DEF Spec

-----------------------------------------------------------------------------
(* The topic of a type, level by level.                                    *)
LEMMA TopicOfType ==
    ASSUME NEW type, IsSplit(type), TypeToTopic(type) # Rejected
    PROVE  /\ IsType(type)
           /\ LET n == Len(type)
                  topic == TypeToTopic(type)
              IN  /\ Len(topic) = n + 1 /\ DOMAIN topic = 1..(n + 1)
                  /\ topic[1] = Prefix
                  /\ \A i \in 1..n : topic[i + 1] = <<type[i]>>
                  /\ Tail(topic) = [i \in 1..n |-> <<type[i]>>]
<1> DEFINE n == Len(type)
           rest == [i \in 1..n |-> <<type[i]>>]
<1>1. n \in Nat /\ n > 0
  BY Splits
<1>2. IsType(type) /\ TypeToTopic(type) = <<Prefix>> \o rest
  BY DEF TypeToTopic
<1>3. rest \in Seq({Prefix} \cup {<<type[i]>> : i \in 1..n}) /\ Len(rest) = n
  BY <1>1
<1>4. <<Prefix>> \in Seq({Prefix} \cup {<<type[i]>> : i \in 1..n}) /\ Len(<<Prefix>>) = 1
  OBVIOUS
<1>5. \A i \in 1..n : rest[i] = <<type[i]>>
  OBVIOUS
<1> DEFINE topic == <<Prefix>> \o rest
<1> HIDE DEF rest, n
<1>6. /\ topic \in Seq({Prefix} \cup {<<type[i]>> : i \in 1..n}) /\ Len(topic) = n + 1
      /\ topic[1] = Prefix /\ DOMAIN topic = 1..(n + 1)
      /\ \A i \in 1..n : topic[i + 1] = rest[i]
  BY <1>1, <1>3, <1>4
<1>7. Tail(topic) = rest
  BY <1>1, <1>3, <1>4, <1>6
<1> QED BY <1>2, <1>5, <1>6, <1>7 DEF rest, n

(* The filter of a pattern.                                                *)
LEMMA FilterOfPattern ==
    ASSUME NEW pattern, IsSplit(pattern), PatternToFilter(pattern) # Rejected
    PROVE  LET n == Len(pattern)
               filter == PatternToFilter(pattern)
           IN  /\ \A i \in 1..n : pattern[i] = "*" \/ IsType(<<pattern[i]>>)
               /\ Len(filter) = n + 1
               /\ filter[1] = Prefix
               /\ \A i \in 1..n : filter[i + 1] = Compile(pattern, i)
<1> DEFINE n == Len(pattern)
           rest == [i \in 1..n |-> Compile(pattern, i)]
           S == {Prefix} \cup {Compile(pattern, i) : i \in 1..n}
<1>1. n \in Nat /\ n > 0
  BY Splits
<1>2. /\ \A i \in 1..n : pattern[i] = "*" \/ IsType(<<pattern[i]>>)
      /\ PatternToFilter(pattern) = <<Prefix>> \o rest
  BY DEF PatternToFilter
<1>3. rest \in Seq(S) /\ Len(rest) = n /\ \A i \in 1..n : rest[i] = Compile(pattern, i)
  BY <1>1
<1>4. <<Prefix>> \in Seq(S) /\ Len(<<Prefix>>) = 1
  OBVIOUS
<1> DEFINE filter == <<Prefix>> \o rest
<1> HIDE DEF rest, S, n
<1>5. /\ Len(filter) = n + 1 /\ filter[1] = Prefix
      /\ \A i \in 1..n : filter[i + 1] = rest[i]
  BY <1>1, <1>3, <1>4
<1> QED BY <1>2, <1>3, <1>5 DEF n

(* A text of one segment is a type only if the segment is a word.          *)
LEMMA WordOfType ==
    ASSUME NEW segment, IsType(<<segment>>)
    PROVE  segment \in Word \cup LineWord /\ segment \notin {"", "*", "+", "#"}
<1> DEFINE text == <<segment>>
<1>1. text[1] \in Word \/ text[1] \in LineWord
  <2>1. 1 \in 1..Len(text)
    OBVIOUS
  <2> QED BY <2>1 DEF IsType
<1> QED BY <1>1, WordAssumption

(* Outside its wildcards a pattern has only words, so its filter has a     *)
(* wildcard where the pattern has one, and no '#'.                         *)
LEMMA PatternSelects ==
    ASSUME NEW pattern, NEW type, IsSplit(pattern), IsSplit(type),
           PatternToFilter(pattern) # Rejected, TypeToTopic(type) # Rejected
    PROVE  FilterMatches(PatternToFilter(pattern), TypeToTopic(type)) <=> Selects(pattern, type)
<1> DEFINE filter == PatternToFilter(pattern)
           topic == TypeToTopic(type)
           n == Len(pattern)
           m == Len(type)
<1>1. n \in Nat /\ n > 0 /\ m \in Nat /\ m > 0
  BY Splits
<1>2. /\ \A i \in 1..n : pattern[i] = "*" \/ IsType(<<pattern[i]>>)
      /\ Len(filter) = n + 1 /\ filter[1] = Prefix
      /\ \A i \in 1..n : filter[i + 1] = Compile(pattern, i)
  BY FilterOfPattern
<1>3. /\ Len(topic) = m + 1 /\ topic[1] = Prefix
      /\ \A i \in 1..m : topic[i + 1] = <<type[i]>>
  BY TopicOfType
<1>4. \A i \in 1..n : pattern[i] # "*" => pattern[i] \notin {"+", "#"}
  <2> SUFFICES ASSUME NEW i \in 1..n, pattern[i] # "*" PROVE pattern[i] \notin {"+", "#"}
    OBVIOUS
  <2>1. IsType(<<pattern[i]>>)
    BY <1>2
  <2> QED BY <2>1, WordOfType
<1>5. Prefix # <<"+">> /\ Prefix # <<"#">>
  BY DEF Prefix
<1>6. \A i \in 1..(n + 1) : filter[i] # <<"#">>
  <2> SUFFICES ASSUME NEW i \in 1..(n + 1) PROVE filter[i] # <<"#">>
    OBVIOUS
  <2>1. CASE i = 1
    BY <1>2, <1>5, <2>1
  <2>2. CASE i # 1
    <3>1. i - 1 \in 1..n /\ i = (i - 1) + 1
      BY <1>1, <2>2
    <3>2. filter[i] = Compile(pattern, i - 1)
      BY <1>2, <3>1
    <3> QED BY <1>4, <3>1, <3>2 DEF Compile
  <2> QED BY <2>1, <2>2
<1>7. \A i \in 1..n : (filter[i + 1] = <<"+">>) <=> (pattern[i] = "*")
  <2> SUFFICES ASSUME NEW i \in 1..n
               PROVE  (filter[i + 1] = <<"+">>) <=> (pattern[i] = "*")
    OBVIOUS
  <2>1. filter[i + 1] = IF pattern[i] = "*" THEN <<"+">> ELSE <<pattern[i]>>
    BY <1>2 DEF Compile
  <2>2. pattern[i] # "*" => pattern[i] # "+"
    BY <1>4
  <2> HIDE DEF filter
  <2>3. pattern[i] # "*" => <<pattern[i]>> # <<"+">>
    BY <2>2
  <2> QED BY <2>1, <2>3
<1>8. \A i \in 1..n : pattern[i] # "*" => filter[i + 1] = <<pattern[i]>>
  BY <1>2 DEF Compile
<1> DEFINE stops == {i \in 1..(n + 1) :
                        \/ filter[i] = <<"#">>
                        \/ i > m + 1
                        \/ filter[i] # <<"+">> /\ filter[i] # topic[i]}
<1>9. FilterMatches(filter, topic) <=>
          IF stops = {} THEN n + 1 = m + 1
          ELSE \E i \in stops : (\A j \in stops : i <= j) /\ filter[i] = <<"#">> /\ i = n + 1
  BY <1>2, <1>3 DEF FilterMatches
<1>10. FilterMatches(filter, topic) <=> stops = {} /\ n = m
  <2>1. \A i \in stops : filter[i] # <<"#">>
    BY <1>6
  <2> HIDE DEF stops, filter, topic
  <2> QED BY <1>1, <1>9, <2>1
<1>11. ASSUME n = m
       PROVE  stops = {} <=> \A i \in 1..n : pattern[i] = "*" \/ pattern[i] = type[i]
  <2>1. ASSUME stops = {}, NEW i \in 1..n, pattern[i] # "*" PROVE pattern[i] = type[i]
    <3>1. i + 1 \in 1..(n + 1)
      BY <1>1
    <3>2. filter[i + 1] = topic[i + 1]
      BY <2>1, <3>1, <1>7
    <3> QED BY <1>3, <1>8, <1>11, <2>1, <3>2
  <2>2. ASSUME \A i \in 1..n : pattern[i] = "*" \/ pattern[i] = type[i], NEW i \in stops
        PROVE  FALSE
    <3>1. i \in 1..(n + 1) /\ filter[i] # <<"+">> /\ filter[i] # topic[i]
      BY <1>1, <1>6, <1>11
    <3>2. i # 1
      BY <1>2, <1>3, <3>1
    <3>3. i - 1 \in 1..n /\ i = (i - 1) + 1
      BY <1>1, <3>1, <3>2
    <3>4. pattern[i - 1] # "*" /\ filter[i] = <<pattern[i - 1]>> /\ topic[i] = <<type[i - 1]>>
      BY <1>3, <1>7, <1>8, <1>11, <3>1, <3>3
    <3> QED BY <2>2, <3>1, <3>3, <3>4
  <2> QED BY <2>1, <2>2
<1>12. Selects(pattern, type) <=>
           n = m /\ \A i \in 1..m : pattern[i] = "*" \/ pattern[i] = type[i]
  BY DEF Selects
<1> HIDE DEF stops, filter, topic, n, m
<1> QED BY <1>10, <1>11, <1>12 DEF filter, topic

(* A subscription hears a type exactly if its pattern selects it, for      *)
(* patterns and types of any length (topics.py 118-249).                   *)
THEOREM PatternsHear == Spec => []PatternsSelect
<1>1. Init => PatternsSelect
  <2> SUFFICES ASSUME Init, call.of = "select",
                      PatternToFilter(call.pattern) # Rejected,
                      TypeToTopic(call.type) # Rejected
               PROVE  FilterMatches(PatternToFilter(call.pattern), TypeToTopic(call.type))
                          <=> Selects(call.pattern, call.type)
    BY DEF PatternsSelect
  <2>1. call.pattern \in Pattern /\ call.type \in Text
    BY DEF Init
  <2> QED BY <2>1, SplitAssumption, PatternSelects
<1>2. PatternsSelect /\ [Next]_call => PatternsSelect'
  BY CallStays DEF PatternsSelect
<1> QED BY <1>1, <1>2, PTL DEF Spec

-----------------------------------------------------------------------------
(* A piece with a single part.                                             *)
IsSingle(s) == s = <<s[1]>>

(* A segment per level, so that joining the levels is taking their texts.  *)
LEMMA FlattenSingles ==
    ASSUME NEW s, NEW n \in Nat, n > 0, Len(s) = n, DOMAIN s = 1..n,
           \A i \in 1..n : IsSingle(s[i])
    PROVE  FlattenSeq(s) = [i \in 1..n |-> s[i][1]]
<1> DEFINE F(f) == f = [i \in 1..n |-> IF i = 1 THEN s[i] ELSE f[i - 1] \o s[i]]
           row(i) == [j \in 1..i |-> s[j][1]]
           g == [i \in 1..n |-> row(i)]
<1>1. \A i \in 1..n : row(i) = IF i = 1 THEN s[i] ELSE row(i - 1) \o s[i]
  <2> SUFFICES ASSUME NEW i \in 1..n PROVE row(i) = IF i = 1 THEN s[i] ELSE row(i - 1) \o s[i]
    OBVIOUS
  <2>1. s[i] = <<s[i][1]>>
    BY DEF IsSingle
  <2>2. CASE i = 1
    <3> DEFINE x == s[1][1]
    <3>1. row(i) = [j \in 1..1 |-> x]
      BY <2>2
    <3> HIDE DEF x
    <3>2. [j \in 1..1 |-> x] = <<x>>
      OBVIOUS
    <3> QED BY <2>1, <2>2, <3>1, <3>2 DEF x
  <2>3. CASE i # 1
    <3> DEFINE x == s[i][1]
               r == row(i - 1)
    <3>1. i - 1 \in Nat /\ i \in Nat
      OBVIOUS
    <3>2. r \in Seq({s[j][1] : j \in 1..n}) /\ Len(r) = i - 1 /\ \A j \in 1..(i-1) : r[j] = s[j][1]
      BY <3>1
    <3> HIDE DEF r, x
    <3>3. r \o <<x>> = [j \in 1..i |-> IF j < i THEN r[j] ELSE x]
      BY <3>1, <3>2
    <3>4. row(i) = [j \in 1..i |-> IF j < i THEN r[j] ELSE x]
      BY <3>1, <3>2 DEF x
    <3> QED BY <2>1, <2>3, <3>3, <3>4 DEF r, x
  <2> QED BY <2>2, <2>3
<1>2. F(g)
  <2>1. \A i \in 1..n : i # 1 => g[i - 1] = row(i - 1)
    OBVIOUS
  <2>2. \A i \in 1..n : g[i] = row(i)
    OBVIOUS
  <2> HIDE DEF row
  <2> QED BY <1>1, <2>1, <2>2
<1>3. ASSUME NEW f, F(f) PROVE f = g
  <2> DEFINE Bad == {i \in 1..n : f[i] # g[i]}
  <2>1. ASSUME Bad # {} PROVE FALSE
    <3>1. PICK i \in Bad : \A j \in Bad : i <= j
      <4>1. Bad \subseteq Nat
        OBVIOUS
      <4> HIDE DEF Bad
      <4> QED BY <2>1, <4>1, LeastNat
    <3>2. f[i] = IF i = 1 THEN s[i] ELSE f[i - 1] \o s[i]
      BY <1>3
    <3>3. g[i] = IF i = 1 THEN s[i] ELSE g[i - 1] \o s[i]
      BY <1>2
    <3>4. CASE i = 1
      BY <3>2, <3>3, <3>4
    <3>5. CASE i # 1
      <4>1. i \in 1..n /\ i - 1 \in 1..n
        BY <3>5
      <4>2. f[i - 1] = g[i - 1]
        <5>1. i - 1 \notin Bad
          BY <3>1, <4>1
        <5> HIDE DEF g
        <5> QED BY <4>1, <5>1
      <4> HIDE DEF g
      <4> QED BY <3>1, <3>2, <3>3, <3>5, <4>2
    <3> QED BY <3>4, <3>5
  <2>2. \A i \in 1..n : f[i] = g[i]
    BY <2>1
  <2>3. DOMAIN f = 1..n /\ f = [i \in 1..n |-> f[i]]
    BY <1>3
  <2> HIDE DEF row, F
  <2> QED BY <2>2, <2>3
<1>4. FlattenSeq(s) = (CHOOSE f : F(f))[n]
  BY DEF FlattenSeq
<1>5. F(CHOOSE f : F(f))
  <2> HIDE DEF F, g
  <2> QED BY <1>2
<1>6. (CHOOSE f : F(f)) = g
  <2> HIDE DEF F, g
  <2> QED BY <1>3, <1>5
<1> QED
  <2>1. g[n] = row(n)
    OBVIOUS
  <2> HIDE DEF F, g
  <2> QED BY <1>4, <1>6, <2>1

(* The type of a topic is its levels behind the prefix.                    *)
LEMMA TypeOfTopic ==
    ASSUME NEW topic, TopicToType(topic) # Rejected
    PROVE  /\ topic[1] = Prefix /\ Len(topic) > 1
           /\ TopicToType(topic) = FlattenSeq(Tail(topic))
           /\ IsType(TopicToType(topic))
BY DEF TopicToType

(* A type has one level per segment, which joining the levels undoes.      *)
LEMMA TypeComesBack ==
    ASSUME NEW type, IsSplit(type), TypeToTopic(type) # Rejected
    PROVE  TopicToType(TypeToTopic(type)) = type
<1> DEFINE n == Len(type)
           topic == TypeToTopic(type)
           rest == [i \in 1..n |-> <<type[i]>>]
<1>1. n \in Nat /\ n > 0 /\ type = [i \in 1..n |-> type[i]]
  BY Splits
<1>2. IsType(type) /\ Len(topic) = n + 1 /\ topic[1] = Prefix /\ Tail(topic) = rest
  BY TopicOfType
<1>3. Len(rest) = n /\ DOMAIN rest = 1..n /\ \A i \in 1..n : rest[i] = <<type[i]>>
  BY <1>1
<1>4. FlattenSeq(rest) = type
  <2>1. \A i \in 1..n : IsSingle(rest[i]) /\ rest[i][1] = type[i]
    BY <1>3 DEF IsSingle
  <2>2. FlattenSeq(rest) = [i \in 1..n |-> rest[i][1]]
    <3> HIDE DEF rest, n
    <3> QED BY <1>1, <1>3, <2>1, FlattenSingles
  <2>3. [i \in 1..n |-> rest[i][1]] = [i \in 1..n |-> type[i]]
    BY <2>1
  <2> QED BY <1>1, <2>2, <2>3
<1>5. <<"">> \notin Range(rest)
  <2>1. \A i \in 1..n : type[i] # ""
    BY <1>2, WordAssumption DEF IsType
  <2> QED BY <1>3, <2>1 DEF Range
<1>6. Len(topic) > 1
  BY <1>1, <1>2
<1> HIDE DEF rest, topic, n
<1>7. topic[1] = Prefix /\ <<"">> \notin Range(Tail(topic)) /\ IsType(FlattenSeq(Tail(topic)))
  BY <1>2, <1>4, <1>5
<1>8. TopicToType(topic) = FlattenSeq(Tail(topic))
  BY <1>6, <1>7 DEF TopicToType
<1> QED BY <1>2, <1>4, <1>8 DEF topic

(* A topic none of whose levels has a dot in it.                           *)
LEMMA TopicComesBack ==
    ASSUME NEW topic, IsSplit(topic), \A i \in DOMAIN topic : IsSplit(topic[i]),
           TopicToType(topic) # Rejected,
           \A i \in 1..Len(topic) : Len(topic[i]) = 1
    PROVE  TypeToTopic(TopicToType(topic)) = topic
<1> DEFINE m == Len(topic)
           n == m - 1
           rest == Tail(topic)
           type == TopicToType(topic)
<1>1. m \in Nat /\ DOMAIN topic = 1..m /\ topic = [i \in 1..m |-> topic[i]]
  BY Splits
<1>2. topic[1] = Prefix /\ m > 1 /\ type = FlattenSeq(rest) /\ IsType(type)
  BY TypeOfTopic
<1>3. \A i \in 1..m : IsSingle(topic[i])
  <2> SUFFICES ASSUME NEW i \in 1..m PROVE IsSingle(topic[i])
    OBVIOUS
  <2>1. IsSplit(topic[i]) /\ Len(topic[i]) = 1
    BY <1>1
  <2> DEFINE level == topic[i]
  <2> HIDE DEF level
  <2>2. level = [j \in 1..1 |-> level[j]]
    BY <2>1, Splits DEF level
  <2>3. level = <<level[1]>>
    BY <2>2
  <2> QED BY <2>3 DEF IsSingle, level
<1>4. Len(rest) = n /\ DOMAIN rest = 1..n /\ \A i \in 1..n : rest[i] = topic[i + 1]
  <2> DEFINE S == {topic[i] : i \in DOMAIN topic}
  <2>1. topic \in Seq(S) /\ topic # <<>>
    BY DEF IsSplit
  <2> HIDE DEF S
  <2> QED BY <1>1, <1>2, <2>1
<1>5. type = [i \in 1..n |-> rest[i][1]]
  <2>1. n \in Nat /\ n > 0
    BY <1>1, <1>2
  <2>2. \A i \in 1..n : IsSingle(rest[i])
    BY <1>1, <1>3, <1>4
  <2> HIDE DEF rest, n, type
  <2> QED BY <1>2, <1>4, <2>1, <2>2, FlattenSingles
<1>6. n \in Nat /\ Len(type) = n /\ \A i \in 1..n : type[i] = topic[i + 1][1]
  <2>1. n \in Nat
    BY <1>1, <1>2
  <2> HIDE DEF rest, n, type
  <2> QED BY <1>4, <1>5, <2>1
<1>7. TypeToTopic(type) = <<Prefix>> \o [i \in 1..n |-> <<type[i]>>]
  <2> HIDE DEF type, n
  <2> QED BY <1>2, <1>6 DEF TypeToTopic
<1>8. \A i \in 1..n : <<type[i]>> = topic[i + 1]
  BY <1>1, <1>3, <1>6 DEF IsSingle
<1>9. <<Prefix>> \o [i \in 1..n |-> <<type[i]>>] = topic
  <2> DEFINE tail == [i \in 1..n |-> <<type[i]>>]
             S == {Prefix} \cup {<<type[i]>> : i \in 1..n}
  <2>1. tail \in Seq(S) /\ Len(tail) = n /\ \A i \in 1..n : tail[i] = <<type[i]>>
    BY <1>6
  <2>2. <<Prefix>> \in Seq(S) /\ Len(<<Prefix>>) = 1
    OBVIOUS
  <2> DEFINE whole == <<Prefix>> \o tail
  <2>3. m = n + 1 /\ n \in Nat
    BY <1>1, <1>6
  <2> HIDE DEF tail, S, type, n, m
  <2>4. /\ Len(whole) = m /\ whole = [i \in 1..m |-> whole[i]] /\ whole[1] = Prefix
        /\ \A i \in 1..n : whole[i + 1] = tail[i]
    BY <2>1, <2>2, <2>3
  <2>5. \A i \in 1..m : whole[i] = topic[i]
    <3> SUFFICES ASSUME NEW i \in 1..m PROVE whole[i] = topic[i]
      OBVIOUS
    <3>1. CASE i = 1
      BY <1>2, <2>4, <3>1
    <3>2. CASE i # 1
      <4>1. i - 1 \in 1..n /\ i = (i - 1) + 1
        BY <2>3, <3>2
      <4> HIDE DEF whole
      <4> QED BY <1>8, <2>1, <2>4, <4>1
    <3> QED BY <3>1, <3>2
  <2>6. topic = [i \in 1..m |-> topic[i]]
    BY <1>1
  <2> HIDE DEF whole
  <2>7. whole = topic
    BY <2>4, <2>5, <2>6
  <2> QED BY <2>7 DEF whole, tail
<1> QED BY <1>7, <1>9

(* A type comes back from its topic, and a topic without dots in its       *)
(* levels from its type: no two types share a topic, and no two such       *)
(* topics a type (topics.py 118-171).                                      *)
THEOREM TypesReturn == Spec => []TypesComeBack
<1>1. Init => TypesComeBack
  <2> SUFFICES ASSUME Init PROVE TypesComeBack
    OBVIOUS
  <2>1. ASSUME call.of = "select", TypeToTopic(call.type) # Rejected
        PROVE  TopicToType(TypeToTopic(call.type)) = call.type
    <3>1. call.type \in Text
      BY <2>1 DEF Init
    <3> QED BY <2>1, <3>1, SplitAssumption, TypeComesBack
  <2>2. ASSUME call.of = "parse", TopicToType(call.topic) # Rejected,
               \A i \in 1..Len(call.topic) : Len(call.topic[i]) = 1
        PROVE  TypeToTopic(TopicToType(call.topic)) = call.topic
    <3>1. call.topic \in Topic
      BY <2>2 DEF Init
    <3> QED BY <2>2, <3>1, SplitAssumption, TopicComesBack
  <2> QED BY <2>1, <2>2 DEF TypesComeBack
<1>2. TypesComeBack /\ [Next]_call => TypesComeBack'
  BY CallStays DEF TypesComeBack
<1> QED BY <1>1, <1>2, PTL DEF Spec

-----------------------------------------------------------------------------
(* No binding of the broker's port has a neighbour on its address, so that *)
(* docker does not render it as part of a range.  The generated            *)
(* compose.yaml binds the one port (stack/__init__.py).                    *)
NoRange ==
    \A bindings \in Bindings : \A b \in bindings : b.port = BrokerPort =>
        /\ [address |-> b.address, port |-> BrokerPort - 1] \notin bindings
        /\ [address |-> b.address, port |-> BrokerPort + 1] \notin bindings

(* Without ranges, an entry of Ports for the broker's port is a binding.   *)
LEMMA EntriesExposed ==
    ASSUME NoRange, NEW bindings \in Bindings
    PROVE  PublishIsLanExposed(Entries(bindings)) <=> LeavesHost(bindings)
<1>1. \A b \in bindings : b.port \in Nat \ {0} /\ b = [address |-> b.address, port |-> b.port]
  BY BindingAssumption
<1>2. ASSUME NEW b \in bindings, b.port = BrokerPort, b.address \notin Loopback
      PROVE  PublishIsLanExposed(Entries(bindings))
  <2> DEFINE e == [address |-> b.address, low |-> b.port, high |-> b.port]
  <2>1. BrokerPort \in Nat /\ \A n \in BrokerPort..BrokerPort : n = BrokerPort
    BY BrokerPortAssumption
  <2>2. /\ [address |-> b.address, port |-> b.port] \in bindings
        /\ [address |-> b.address, port |-> b.port - 1] \notin bindings
        /\ [address |-> b.address, port |-> b.port + 1] \notin bindings
    BY <1>1, <1>2 DEF NoRange
  <2>3. e \in Entries(bindings)
    <3> DEFINE p == <<b, b>>
    <3>1. p \in bindings \X bindings /\ p[1] = b /\ p[2] = b
      OBVIOUS
    <3>2. b.port <= b.port /\ \A n \in b.port..b.port : n = b.port
      BY <1>2, <2>1
    <3>3. \A n \in p[1].port..p[2].port : [address |-> p[1].address, port |-> n] \in bindings
      BY <2>2, <3>1, <3>2
    <3> HIDE DEF p
    <3> QED BY <2>2, <3>1, <3>2, <3>3 DEF Entries
  <2> QED BY <1>2, <2>3 DEF PublishIsLanExposed
<1>3. ASSUME NEW e \in Entries(bindings), e.low = e.high, e.low = BrokerPort,
             e.address \notin Loopback
      PROVE  LeavesHost(bindings)
  <2>1. PICK p \in bindings \X bindings :
            e = [address |-> p[1].address, low |-> p[1].port, high |-> p[2].port]
    BY DEF Entries
  <2>2. p[1] \in bindings /\ p[1].port = BrokerPort /\ p[1].address \notin Loopback
    BY <1>3, <2>1
  <2> QED BY <2>2 DEF LeavesHost
<1> QED BY <1>2, <1>3 DEF LeavesHost, PublishIsLanExposed

(* In the other shape every binding is a row of its own.                   *)
LEMMA PublishersExposed ==
    ASSUME NEW bindings, NEW internal
    PROVE  PublishIsLanExposed(PublishersToPorts(Publishers(bindings, internal)))
               <=> LeavesHost(bindings)
<1> DEFINE rows == Publishers(bindings, internal)
<1>1. BrokerPort # 0
  BY BrokerPortAssumption
<1>2. ASSUME NEW b \in bindings, b.port = BrokerPort, b.address \notin Loopback
      PROVE  PublishIsLanExposed(PublishersToPorts(rows))
  <2> DEFINE row == [URL |-> b.address, PublishedPort |-> b.port]
             e == [address |-> row.URL, low |-> row.PublishedPort, high |-> row.PublishedPort]
  <2>1. row \in rows /\ row.PublishedPort # 0
    BY <1>1, <1>2 DEF Publishers
  <2>2. e \in PublishersToPorts(rows)
    <3> HIDE DEF rows, row
    <3> QED BY <2>1 DEF PublishersToPorts
  <2> QED BY <1>2, <2>2 DEF PublishIsLanExposed
<1>3. ASSUME PublishIsLanExposed(PublishersToPorts(rows))
      PROVE  LeavesHost(bindings)
  <2>1. PICK e \in PublishersToPorts(rows) : e.low = BrokerPort /\ e.address \notin Loopback
    BY <1>3 DEF PublishIsLanExposed
  <2>2. PICK row \in rows : row.PublishedPort = BrokerPort /\ row.URL \notin Loopback
    <3> HIDE DEF rows
    <3> QED BY <2>1 DEF PublishersToPorts
  <2>3. PICK b \in bindings : row = [URL |-> b.address, PublishedPort |-> b.port]
    <3>1. row # [URL |-> "", PublishedPort |-> 0]
      <4> DEFINE exposed == [URL |-> "", PublishedPort |-> 0]
      <4>1. exposed.PublishedPort = 0
        OBVIOUS
      <4> HIDE DEF exposed
      <4> QED BY <1>1, <2>2, <4>1 DEF exposed
    <3> QED BY <3>1 DEF Publishers
  <2> QED BY <2>2, <2>3 DEF LeavesHost
<1> QED BY <1>2, <1>3 DEF LeavesHost

(* The row of docker compose ps that service_from_row reads.               *)
LEMMA RowExposed ==
    ASSUME NoRange, Init, call.of = "status", NEW n \in 1..2
    PROVE  /\ PublishIsLanExposed(ServiceFromRow(Row(n)).ports)
                  <=> LeavesHost(call.bindings[n])
           /\ ServiceFromRow(Row(n)).service = call.services[n]
           /\ call.services[n] = "broker" =>
                  /\ ServiceFromRow(Row(n)).state = call.state
                  /\ ServiceFromRow(Row(n)).health = "healthy" <=> call.health = "healthy"
<1> DEFINE bindings == call.bindings[n]
           row == Row(n)
<1>1. bindings \in Bindings
  BY DEF Init
<1>2. /\ row.service = call.services[n]
      /\ row.ports = Entries(bindings) \/ row.ports = {}
      /\ row.publishers = Publishers(bindings, {9000})
      /\ call.services[n] = "broker" => row.state = call.state /\ row.health = call.health
  <2> DEFINE ours == call.services[n] = "broker"
             ports == IF call.shape = "Ports" THEN Entries(bindings) ELSE {}
             published == Publishers(bindings, {9000})
  <2>1. row = [service |-> call.services[n],
               state |-> IF ours THEN call.state ELSE "running",
               health |-> IF ours THEN call.health ELSE "",
               ports |-> ports, publishers |-> published]
    BY DEF Row
  <2>2. ports = Entries(bindings) \/ ports = {}
    OBVIOUS
  <2> HIDE DEF ports, published, row, bindings
  <2> QED BY <2>1, <2>2 DEF published
<1> HIDE DEF row, bindings
<1> DEFINE service == ServiceFromRow(row)
<1>3. /\ service.service = row.service /\ service.state = row.state
      /\ service.health = "healthy" <=> row.health = "healthy"
      /\ row.ports # {} => service.ports = row.ports
      /\ row.ports = {} => service.ports = PublishersToPorts(row.publishers)
  BY DEF ServiceFromRow
<1> HIDE DEF service
<1>4. PublishIsLanExposed(service.ports) <=> LeavesHost(bindings)
  <2>1. PublishIsLanExposed(Entries(bindings)) <=> LeavesHost(bindings)
    BY <1>1, EntriesExposed
  <2>2. PublishIsLanExposed(PublishersToPorts(row.publishers)) <=> LeavesHost(bindings)
    BY <1>2, PublishersExposed
  <2>3. \/ service.ports = Entries(bindings)
        \/ service.ports = PublishersToPorts(row.publishers)
    BY <1>2, <1>3
  <2> QED BY <2>1, <2>2, <2>3
<1>5. /\ service.service = call.services[n]
      /\ call.services[n] = "broker" =>
             service.state = call.state /\ (service.health = "healthy" <=> call.health = "healthy")
  BY <1>2, <1>3
<1> QED BY <1>4, <1>5 DEF row, bindings, service

(* The broker's row decides, wherever it stands.                           *)
LEMMA BrokerDecides ==
    ASSUME NEW services, Len(services) = 2, NEW k \in 1..2,
           \A i \in 1..2 : services[i].service = "broker" <=> i = k
    PROVE  Healthy(services)
               <=> services[k].state = "running" /\ services[k].health = "healthy"
<1> DEFINE ours == {i \in 1..Len(services) : services[i].service = "broker"}
<1>1. ours = {k}
  OBVIOUS
<1>2. {j \in ours : \A i \in ours : j <= i} = {k}
  BY <1>1
<1>3. BrokerOf(services) = {services[i] : i \in {k}}
  <2> HIDE DEF ours
  <2>1. ours # {}
    BY <1>1
  <2> QED BY <1>2, <2>1 DEF BrokerOf, ours
<1> QED BY <1>3 DEF Healthy

(* The status says that the broker's port leaves the host exactly if a     *)
(* service publishes it on another address, in both of docker's shapes,    *)
(* and "healthy" exactly if the broker's own healthcheck does, for any     *)
(* bindings in which that port is not part of a range (_status.py 5-15).   *)
THEOREM StatusIsTrue == ASSUME NoRange PROVE Spec => []StatusIsStrict
<1>1. Init => StatusIsStrict
  <2> SUFFICES ASSUME Init, call.of = "status"
               PROVE  LET services == [n \in 1..2 |-> ServiceFromRow(Row(n))]
                      IN  /\ LoopbackOnly(services) <=>
                                 \A n \in 1..2 : ~LeavesHost(call.bindings[n])
                          /\ Healthy(services) <=>
                                 call.state = "running" /\ call.health = "healthy"
    BY DEF StatusIsStrict
  <2> DEFINE services == [n \in 1..2 |-> ServiceFromRow(Row(n))]
  <2>1. Len(services) = 2 /\ \A n \in 1..2 : services[n] = ServiceFromRow(Row(n))
    OBVIOUS
  <2>2. \A n \in 1..2 :
            /\ PublishIsLanExposed(services[n].ports) <=> LeavesHost(call.bindings[n])
            /\ services[n].service = call.services[n]
            /\ call.services[n] = "broker" =>
                  /\ services[n].state = call.state
                  /\ services[n].health = "healthy" <=> call.health = "healthy"
    BY <2>1, RowExposed
  <2>3. PICK k \in 1..2 : \A i \in 1..2 : call.services[i] = "broker" <=> i = k
    <3>1. call.services = <<"broker", "helper">> \/ call.services = <<"helper", "broker">>
      BY DEF Init
    <3> QED BY <3>1
  <2> HIDE DEF services
  <2>4. LoopbackOnly(services) <=> \A n \in 1..2 : ~LeavesHost(call.bindings[n])
    BY <2>1, <2>2 DEF LoopbackOnly
  <2>5. Healthy(services) <=> services[k].state = "running" /\ services[k].health = "healthy"
    BY <2>1, <2>2, <2>3, BrokerDecides
  <2> QED BY <2>2, <2>3, <2>4, <2>5 DEF services
<1>2. StatusIsStrict /\ [Next]_call => StatusIsStrict'
  <2> SUFFICES ASSUME StatusIsStrict, call' = call PROVE StatusIsStrict'
    BY CallStays
  <2>1. \A n \in 1..2 : Row(n)' = Row(n)
    BY DEF Row
  <2> QED BY <2>1 DEF StatusIsStrict
<1> QED BY <1>1, <1>2, PTL DEF Spec

-----------------------------------------------------------------------------
(* A strict order of a set, as a set of pairs.                             *)
Ordering(S, less) ==
    /\ \A r \in S : <<r, r>> \notin less
    /\ \A r, s, t \in S : <<r, s>> \in less /\ <<s, t>> \in less => <<r, t>> \in less
    /\ \A r, s \in S : r = s \/ <<r, s>> \in less \/ <<s, r>> \in less

(* What is below an element, and how much.                                 *)
Below(S, less, r) == {s \in S : <<s, r>> \in less}
Rank(S, less, r) == Cardinality(Below(S, less, r))

(* What is below an element of a finite set is counted, and less of it is  *)
(* below a smaller element.                                                *)
LEMMA RankGrows ==
    ASSUME NEW S, IsFiniteSet(S), NEW less, Ordering(S, less), NEW r \in S
    PROVE  /\ IsFiniteSet(Below(S, less, r))
           /\ Cardinality(S) \in Nat
           /\ Rank(S, less, r) \in 0..(Cardinality(S) - 1)
           /\ \A s \in S : <<s, r>> \in less => Rank(S, less, s) < Rank(S, less, r)
<1> DEFINE B == Below(S, less, r)
<1>1. B \subseteq S /\ r \notin B
  BY DEF Ordering, Below
<1>2. IsFiniteSet(B) /\ Cardinality(B) \in Nat /\ Cardinality(S) \in Nat
  BY <1>1, FS_Subset, FS_CardinalityType
<1>3. Cardinality(B) < Cardinality(S)
  <2>1. Cardinality(B) <= Cardinality(S) /\ (Cardinality(S) = Cardinality(B) => S = B)
    <3> HIDE DEF B
    <3> QED BY <1>1, FS_Subset
  <2> QED BY <1>1, <1>2, <2>1
<1>4. ASSUME NEW s \in S, <<s, r>> \in less PROVE Rank(S, less, s) < Rank(S, less, r)
  <2> DEFINE A == Below(S, less, s)
  <2>1. A \subseteq B /\ s \in B /\ s \notin A
    BY <1>4 DEF Ordering, Below
  <2>2. IsFiniteSet(A) /\ Cardinality(A) <= Cardinality(B) /\ (Cardinality(B) = Cardinality(A) => B = A)
    <3> HIDE DEF A, B
    <3> QED BY <1>2, <2>1, FS_Subset
  <2>3. Cardinality(A) \in Nat
    BY <2>2, FS_CardinalityType
  <2>4. Cardinality(A) < Cardinality(B)
    <3> HIDE DEF A, B
    <3> QED BY <1>2, <2>1, <2>2, <2>3
  <2> QED BY <2>4 DEF Rank
<1>5. Rank(S, less, r) = Cardinality(B)
  BY DEF Rank
<1> HIDE DEF B
<1>6. Rank(S, less, r) \in 0..(Cardinality(S) - 1)
  BY <1>2, <1>3, <1>5
<1>7. IsFiniteSet(Below(S, less, r))
  BY <1>2 DEF B
<1> QED BY <1>2, <1>4, <1>6, <1>7

(* Elements are told apart, and compared, by what is below them.           *)
LEMMA RankOrders ==
    ASSUME NEW S, IsFiniteSet(S), NEW less, Ordering(S, less), NEW r \in S, NEW s \in S
    PROVE  /\ Rank(S, less, s) < Rank(S, less, r) <=> <<s, r>> \in less
           /\ Rank(S, less, s) = Rank(S, less, r) => s = r
<1> DEFINE m == Rank(S, less, s)
           n == Rank(S, less, r)
<1>1. m \in Nat /\ n \in Nat
  <2>1. m \in 0..(Cardinality(S) - 1) /\ n \in 0..(Cardinality(S) - 1) /\ Cardinality(S) \in Nat
    BY RankGrows
  <2> HIDE DEF m, n
  <2> QED BY <2>1
<1>2. (<<s, r>> \in less => m < n) /\ (<<r, s>> \in less => n < m)
  BY RankGrows
<1>3. s = r \/ <<s, r>> \in less \/ <<r, s>> \in less
  BY DEF Ordering
<1>4. s = r => m = n
  OBVIOUS
<1> HIDE DEF m, n
<1>5. (m < n <=> <<s, r>> \in less) /\ (m = n => s = r)
  BY <1>1, <1>2, <1>3, <1>4
<1> QED BY <1>5 DEF m, n

(* The elements of a finite set, in order.                                 *)
InOrder(S, less) ==
    [k \in 1..Cardinality(S) |-> CHOOSE r \in S : Rank(S, less, r) = k - 1]

(* Every place of that list is taken, and every element has one.           *)
LEMMA OrderLists ==
    ASSUME NEW S, IsFiniteSet(S), NEW less, Ordering(S, less)
    PROVE  /\ Cardinality(S) \in Nat
           /\ \A k \in 1..Cardinality(S) :
                  InOrder(S, less)[k] \in S /\ Rank(S, less, InOrder(S, less)[k]) = k - 1
           /\ \A r \in S : \E k \in 1..Cardinality(S) : InOrder(S, less)[k] = r
<1> DEFINE n == Cardinality(S)
           f == [r \in S |-> Rank(S, less, r)]
<1>1. n \in Nat
  BY FS_CardinalityType
<1>2. f \in [S -> 0..(n - 1)] /\ \A r, s \in S : f[r] = f[s] => r = s
  <2>1. \A r \in S : Rank(S, less, r) \in 0..(n - 1)
    BY RankGrows
  <2>2. \A r, s \in S : Rank(S, less, r) = Rank(S, less, s) => r = s
    BY RankOrders
  <2> HIDE DEF n
  <2> QED BY <2>1, <2>2
<1>3. f \in Injection(S, 0..(n - 1))
  <2> HIDE DEF f, n
  <2> QED BY <1>2 DEF Injection, IsInjective
<1>4. IsFiniteSet(0..(n - 1)) /\ Cardinality(0..(n - 1)) = n
  <2>1. 0 \in Int /\ n - 1 \in Int /\ (0 > n - 1 => n = 0) /\ (n - 1) - 0 + 1 = n
    BY <1>1
  <2>2. /\ IsFiniteSet(0..(n - 1))
        /\ Cardinality(0..(n - 1)) = IF 0 > n - 1 THEN 0 ELSE (n - 1) - 0 + 1
    <3> HIDE DEF n
    <3> QED BY <2>1, FS_Interval
  <2> HIDE DEF n
  <2> QED BY <2>1, <2>2
<1>5. f \in Surjection(S, 0..(n - 1))
  <2> HIDE DEF f
  <2> QED BY <1>3, <1>4, FS_Injection
<1>6. ASSUME NEW k \in 1..n PROVE \E r \in S : Rank(S, less, r) = k - 1
  <2>1. k - 1 \in 0..(n - 1)
    BY <1>1
  <2>2. PICK r \in S : f[r] = k - 1
    <3> HIDE DEF f, n
    <3> QED BY <1>5, <2>1 DEF Surjection
  <2> QED BY <2>2
<1>7. \A k \in 1..n : InOrder(S, less)[k] \in S /\ Rank(S, less, InOrder(S, less)[k]) = k - 1
  <2> SUFFICES ASSUME NEW k \in 1..n
               PROVE  InOrder(S, less)[k] \in S /\ Rank(S, less, InOrder(S, less)[k]) = k - 1
    OBVIOUS
  <2>1. InOrder(S, less)[k] = CHOOSE r \in S : Rank(S, less, r) = k - 1
    BY DEF InOrder
  <2> HIDE DEF n
  <2> QED BY <1>6, <2>1
<1>8. ASSUME NEW r \in S PROVE \E k \in 1..n : InOrder(S, less)[k] = r
  <2> DEFINE k == Rank(S, less, r) + 1
  <2>1. k \in 1..n /\ k - 1 = Rank(S, less, r)
    <3>1. Rank(S, less, r) \in 0..(n - 1)
      BY RankGrows
    <3> HIDE DEF n
    <3> QED BY <1>1, <3>1
  <2> HIDE DEF k, n
  <2>2. InOrder(S, less)[k] = r
    BY <1>7, <2>1, RankOrders
  <2> QED BY <2>1, <2>2
<1> QED BY <1>1, <1>7, <1>8

-----------------------------------------------------------------------------
(* One sequence of numbers behind the other.                               *)
LEMMA Behind ==
    ASSUME NEW c \in Seq(Nat), NEW r \in Seq(Nat)
    PROVE  c \o r = [i \in 1..(Len(c) + Len(r)) |->
                        IF i <= Len(c) THEN c[i] ELSE r[i - Len(c)]]
<1> DEFINE cr == c \o r
           n == Len(c) + Len(r)
<1>1. cr \in Seq(Nat) /\ Len(cr) = n
  OBVIOUS
<1>2. \A i \in 1..n : cr[i] = IF i <= Len(c) THEN c[i] ELSE r[i - Len(c)]
  <2> SUFFICES ASSUME NEW i \in 1..n
               PROVE  cr[i] = IF i <= Len(c) THEN c[i] ELSE r[i - Len(c)]
    OBVIOUS
  <2>1. Len(c) \in Nat /\ Len(r) \in Nat
    OBVIOUS
  <2>2. CASE i <= Len(c)
    <3>1. i \in 1..Len(c)
      BY <2>1, <2>2
    <3> QED BY <2>2, <3>1
  <2>3. CASE ~(i <= Len(c))
    <3>1. i > Len(c) /\ cr[i] = r[i - Len(c)]
      BY <2>1, <2>3
    <3> QED BY <2>3, <3>1
  <2> QED BY <2>2, <2>3
<1> HIDE DEF cr, n
<1>3. cr = [i \in 1..n |-> cr[i]]
  BY <1>1
<1>4. cr = [i \in 1..n |-> IF i <= Len(c) THEN c[i] ELSE r[i - Len(c)]]
  BY <1>2, <1>3
<1> QED BY <1>4 DEF cr, n

(* The walk of a log, whatever the size of a chunk: every record once, the *)
(* newest first.                                                           *)
LEMMA NewestFirst ==
    ASSUME NEW log, Len(log) \in Nat
    PROVE  Newest(log) = [j \in 1..Len(log) |-> Len(log) + 1 - j]
<1> DEFINE n == Len(log)
           chunk(high) == [i \in 1..(high + 1 - ChunkStart(high)) |-> high + 1 - i]
           F(f) == f = [high \in 0..n |-> IF high = 0 THEN <<>>
                                          ELSE chunk(high) \o f[ChunkStart(high) - 1]]
           row(high) == [i \in 1..high |-> high + 1 - i]
           g == [high \in 0..n |-> row(high)]
<1>1. ASSUME NEW high \in 1..n
      PROVE  ChunkStart(high) \in 1..high
  <2>1. high \in Nat /\ high > 0 /\ Chunk \in Nat /\ Chunk > 0
    BY ChunkAssumption
  <2> QED BY <2>1 DEF ChunkStart, Larger
<1>2. ASSUME NEW high \in 1..n
      PROVE  row(high) = chunk(high) \o row(ChunkStart(high) - 1)
  <2> DEFINE low == ChunkStart(high)
             c == chunk(high)
             r == row(low - 1)
  <2>1. low \in 1..high /\ high \in Nat
    BY <1>1
  <2> HIDE DEF low
  <2>2. c = [i \in 1..(high + 1 - low) |-> high + 1 - i]
    BY DEF low
  <2>3. c \in Seq(Nat) /\ Len(c) = high + 1 - low /\ \A i \in 1..(high + 1 - low) : c[i] = high + 1 - i
    <3>1. high + 1 - low \in Nat /\ \A i \in 1..(high + 1 - low) : high + 1 - i \in Nat
      BY <2>1
    <3> HIDE DEF c
    <3> QED BY <2>2, <3>1
  <2>4. r \in Seq(Nat) /\ Len(r) = low - 1 /\ \A i \in 1..(low - 1) : r[i] = low - i
    <3>1. low - 1 \in Nat /\ \A i \in 1..(low - 1) : (low - 1) + 1 - i = low - i /\ low - i \in Nat
      BY <2>1
    <3> QED BY <3>1
  <2> HIDE DEF c, r
  <2>6. c \o r = [i \in 1..(Len(c) + Len(r)) |->
                      IF i <= Len(c) THEN c[i] ELSE r[i - Len(c)]]
    BY <2>3, <2>4, Behind
  <2>7. Len(c) + Len(r) = high
    BY <2>1, <2>3, <2>4
  <2>8. ASSUME NEW i \in 1..high
        PROVE  (IF i <= Len(c) THEN c[i] ELSE r[i - Len(c)]) = high + 1 - i
    <3>1. CASE i <= Len(c)
      <4>1. i \in 1..(high + 1 - low)
        BY <2>1, <2>3, <3>1
      <4> QED BY <2>3, <3>1, <4>1
    <3>2. CASE ~(i <= Len(c))
      <4>1. i - Len(c) \in 1..(low - 1) /\ low - (i - Len(c)) = high + 1 - i
        BY <2>1, <2>3, <3>2
      <4> QED BY <2>4, <3>2, <4>1
    <3> QED BY <3>1, <3>2
  <2>9. c \o r = [i \in 1..high |-> high + 1 - i]
    BY <2>6, <2>7, <2>8
  <2> QED BY <2>9 DEF c, r, low
<1>3. F(g)
  <2>1. \A high \in 0..n : g[high] = row(high)
    OBVIOUS
  <2>2. \A high \in 0..n : high # 0 => g[ChunkStart(high) - 1] = row(ChunkStart(high) - 1)
    <3> SUFFICES ASSUME NEW high \in 0..n, high # 0
                 PROVE  ChunkStart(high) - 1 \in 0..n
      BY <2>1
    <3>1. ChunkStart(high) \in 1..high
      BY <1>1
    <3> QED BY <3>1
  <2>3. row(0) = <<>>
    OBVIOUS
  <2>4. \A high \in 0..n : g[high] = IF high = 0 THEN <<>> ELSE chunk(high) \o g[ChunkStart(high) - 1]
    <3> SUFFICES ASSUME NEW high \in 0..n
                 PROVE  g[high] = IF high = 0 THEN <<>> ELSE chunk(high) \o g[ChunkStart(high) - 1]
      OBVIOUS
    <3>1. CASE high = 0
      BY <2>1, <2>3, <3>1
    <3>2. CASE high # 0
      <4>1. high \in 1..n
        BY <3>2
      <4>2. row(high) = chunk(high) \o row(ChunkStart(high) - 1)
        BY <1>2, <4>1
      <4> HIDE DEF row, chunk, g
      <4> QED BY <2>1, <2>2, <3>2, <4>2
    <3> QED BY <3>1, <3>2
  <2>5. g = [high \in 0..n |-> g[high]]
    OBVIOUS
  <2> HIDE DEF g, chunk, row
  <2> QED BY <2>4, <2>5
<1>4. ASSUME NEW f, F(f) PROVE f = g
  <2> DEFINE Bad == {high \in 0..n : f[high] # g[high]}
  <2>1. ASSUME Bad # {} PROVE FALSE
    <3>1. PICK high \in Bad : \A k \in Bad : high <= k
      <4>1. Bad \subseteq Nat
        OBVIOUS
      <4> HIDE DEF Bad
      <4> QED BY <2>1, <4>1, LeastNat
    <3>2. high \in 0..n /\ f[high] # g[high]
      BY <3>1
    <3> HIDE DEF g
    <3>3. f[high] = IF high = 0 THEN <<>> ELSE chunk(high) \o f[ChunkStart(high) - 1]
      <4> HIDE DEF chunk
      <4> QED BY <1>4, <3>2
    <3>4. g[high] = IF high = 0 THEN <<>> ELSE chunk(high) \o g[ChunkStart(high) - 1]
      <4> HIDE DEF chunk
      <4> QED BY <1>3, <3>2
    <3>5. high # 0
      BY <3>2, <3>3, <3>4
    <3> DEFINE k == ChunkStart(high) - 1
    <3>6. k \in 0..n /\ k < high
      <4>1. ChunkStart(high) \in 1..high /\ n \in Nat
        BY <1>1, <3>2, <3>5
      <4> QED BY <3>2, <4>1
    <3>7. f[k] = g[k]
      <4>1. k \notin Bad
        <5>1. high \in Nat /\ k \in Nat
          BY <3>2, <3>6
        <5> HIDE DEF Bad, k
        <5> QED BY <3>1, <3>6, <5>1
      <4> HIDE DEF k
      <4> QED BY <3>6, <4>1
    <3> HIDE DEF chunk
    <3> QED BY <3>2, <3>3, <3>4, <3>5, <3>7
  <2>2. \A high \in 0..n : f[high] = g[high]
    BY <2>1
  <2>3. f = [high \in 0..n |-> f[high]]
    <3>1. DOMAIN f = 0..n
      BY <1>4
    <3> HIDE DEF chunk
    <3> QED BY <1>4, <3>1
  <2>4. g = [high \in 0..n |-> g[high]]
    OBVIOUS
  <2> HIDE DEF row, F, g
  <2> QED BY <2>2, <2>3, <2>4
<1>5. Newest(log) = (CHOOSE f : F(f))[n]
  BY DEF Newest
<1>6. (CHOOSE f : F(f)) = g
  <2> HIDE DEF F, g
  <2>1. F(CHOOSE f : F(f))
    BY <1>3
  <2> QED BY <1>4, <2>1
<1> QED
  <2>1. g[n] = row(n)
    OBVIOUS
  <2> HIDE DEF F, g
  <2> QED BY <1>5, <1>6, <2>1

-----------------------------------------------------------------------------
(* The earliest record of each event.                                      *)
Earliest(S, less) ==
    {r \in S : \A s \in S : s.id = r.id => s = r \/ <<r, s>> \in less}

(* A part of what is ordered is ordered.                                   *)
LEMMA PartOrdered ==
    ASSUME NEW R, NEW less, Ordering(R, less), NEW S, S \subseteq R
    PROVE  Ordering(S, less)
BY DEF Ordering

(* Every event of a finite set of records has an earliest one.             *)
LEMMA EarliestExists ==
    ASSUME NEW S, IsFiniteSet(S), NEW less, Ordering(S, less), NEW r \in S
    PROVE  \E f \in Earliest(S, less) : f.id = r.id /\ (f = r \/ <<f, r>> \in less)
<1> DEFINE T == {s \in S : s.id = r.id}
           n == Cardinality(T)
           f == InOrder(T, less)[1]
<1>1. T \subseteq S /\ r \in T
  OBVIOUS
<1>2. IsFiniteSet(T) /\ Ordering(T, less)
  <2> HIDE DEF T
  <2> QED BY <1>1, FS_Subset, PartOrdered
<1>3. 1 \in 1..n
  <2>1. n \in Nat /\ \E k \in 1..n : InOrder(T, less)[k] = r
    <3> HIDE DEF T
    <3> QED BY <1>1, <1>2, OrderLists
  <2> HIDE DEF n
  <2> QED BY <2>1
<1>4. f \in T /\ Rank(T, less, f) = 0
  <2>1. f \in T /\ Rank(T, less, f) = 1 - 1
    <3> HIDE DEF T
    <3> QED BY <1>2, <1>3, OrderLists
  <2> QED BY <2>1
<1>5. ASSUME NEW s \in T PROVE s = f \/ <<f, s>> \in less
  <2>1. <<s, f>> \notin less
    <3>1. Rank(T, less, s) \in 0..(n - 1) /\ n \in Nat
      <4> HIDE DEF T
      <4> QED BY <1>2, RankGrows
    <3>2. ~(Rank(T, less, s) < 0)
      <4> HIDE DEF T, n
      <4> QED BY <3>1
    <3>3. Rank(T, less, s) < Rank(T, less, f) <=> <<s, f>> \in less
      <4> HIDE DEF T, f
      <4> QED BY <1>2, <1>4, <1>5, RankOrders
    <3> QED BY <1>4, <3>2, <3>3
  <2> HIDE DEF T, f
  <2> QED BY <1>2, <1>4, <2>1 DEF Ordering
<1>6. f \in Earliest(S, less)
  <2>1. f \in S /\ f.id = r.id
    BY <1>4
  <2> HIDE DEF f
  <2> QED BY <1>5, <2>1 DEF Earliest
<1>7. f.id = r.id /\ (f = r \/ <<f, r>> \in less)
  BY <1>1, <1>4, <1>5
<1> HIDE DEF f
<1> QED BY <1>6, <1>7

(* Behind max records of different events there are max earliest ones.     *)
LEMMA EnoughBelow ==
    ASSUME NEW R, IsFiniteSet(R), NEW less, Ordering(R, less),
           NEW S, S \subseteq R, NEW x \in R, NEW max \in Nat, NEW d \in [1..max -> S],
           \A i, j \in 1..max : d[i].id = d[j].id => i = j,
           \A i \in 1..max : <<d[i], x>> \in less
    PROVE  Rank(Earliest(S, less), less, x) >= max
<1> DEFINE L == Earliest(S, less)
           B == Below(L, less, x)
           earliest(i) == CHOOSE f \in L : f.id = d[i].id /\ (f = d[i] \/ <<f, d[i]>> \in less)
           g == [i \in 1..max |-> earliest(i)]
<1>1. IsFiniteSet(S) /\ Ordering(S, less)
  BY FS_Subset, PartOrdered
<1>2. L \subseteq S /\ B \subseteq S
  BY DEF Earliest, Below
<1>3. ASSUME NEW i \in 1..max
      PROVE  g[i] \in L /\ g[i].id = d[i].id /\ (g[i] = d[i] \/ <<g[i], d[i]>> \in less)
  <2>1. \E f \in L : f.id = d[i].id /\ (f = d[i] \/ <<f, d[i]>> \in less)
    BY <1>1, EarliestExists
  <2>2. g[i] = CHOOSE f \in L : f.id = d[i].id /\ (f = d[i] \/ <<f, d[i]>> \in less)
    OBVIOUS
  <2> HIDE DEF L, g
  <2> QED BY <2>1, <2>2
<1>4. ASSUME NEW i \in 1..max PROVE g[i] \in B
  <2>1. g[i] \in R /\ d[i] \in R /\ g[i] \in L
    <3> HIDE DEF g, L
    <3> QED BY <1>2, <1>3
  <2>2. <<g[i], x>> \in less
    <3> HIDE DEF g, L
    <3> QED BY <1>3, <2>1 DEF Ordering
  <2> HIDE DEF g, L
  <2> QED BY <2>1, <2>2 DEF Below
<1>5. \A i, j \in 1..max : g[i] = g[j] => i = j
  <2> HIDE DEF g, L
  <2> QED BY <1>3
<1>6. g \in Injection(1..max, B)
  <2>1. DOMAIN g = 1..max /\ g = [i \in 1..max |-> g[i]]
    <3> HIDE DEF earliest
    <3> QED OBVIOUS
  <2> HIDE DEF g, B, L
  <2>2. g \in [1..max -> B]
    BY <1>4, <2>1
  <2> QED BY <1>5, <2>1, <2>2 DEF Injection, IsInjective
<1>7. IsFiniteSet(B) /\ Cardinality(B) \in Nat
  <2> HIDE DEF B
  <2> QED BY <1>1, <1>2, FS_Subset, FS_CardinalityType
<1>8. Cardinality(1..max) <= Cardinality(B)
  <2> HIDE DEF B, g
  <2> QED BY <1>6, <1>7, FS_Injection
<1>9. Cardinality(1..max) = max
  BY FS_Interval
<1>10. Rank(L, less, x) = Cardinality(B)
  BY DEF Rank
<1> HIDE DEF B, L
<1>11. Rank(L, less, x) >= max
  BY <1>7, <1>8, <1>9, <1>10
<1> QED BY <1>11 DEF L

(* "Bounding each subscription's walk is safe" (jsonl.py 473-474): what is *)
(* left out stands behind max other events, and so changes neither who is  *)
(* among the first max events nor in which place.                          *)
LEMMA BoundingIsSafe ==
    ASSUME NEW R, IsFiniteSet(R), NEW less, Ordering(R, less),
           NEW C, C \subseteq R, NEW max \in Nat,
           \A z \in R \ C : \E d \in [1..max -> C] :
               /\ \A i, j \in 1..max : d[i].id = d[j].id => i = j
               /\ \A i \in 1..max : <<d[i], z>> \in less,
           NEW r \in R,
           \/ Rank(Earliest(R, less), less, r) < max
           \/ Rank(Earliest(C, less), less, r) < max
    PROVE  /\ r \in Earliest(R, less) <=> r \in Earliest(C, less)
           /\ Rank(Earliest(R, less), less, r) = Rank(Earliest(C, less), less, r)
<1> DEFINE LR == Earliest(R, less)
           LC == Earliest(C, less)
<1>1. LR \subseteq R /\ LC \subseteq R
  BY DEF Earliest
<1>2. ASSUME NEW L, L \subseteq R, NEW z \in R, z = r \/ <<z, r>> \in less
      PROVE  /\ Rank(L, less, z) \in Nat /\ Rank(L, less, r) \in Nat
             /\ Rank(L, less, z) <= Rank(L, less, r)
  <2>1. Below(L, less, z) \subseteq Below(L, less, r) /\ Below(L, less, r) \subseteq R
    BY <1>2 DEF Ordering, Below
  <2>2. /\ IsFiniteSet(Below(L, less, r)) /\ IsFiniteSet(Below(L, less, z))
        /\ Cardinality(Below(L, less, z)) <= Cardinality(Below(L, less, r))
    BY <2>1, FS_Subset
  <2> QED BY <2>2, FS_CardinalityType DEF Rank
<1>3. ASSUME NEW z \in R, z = r \/ <<z, r>> \in less PROVE z \in C
  <2> SUFFICES ASSUME z \notin C PROVE FALSE
    OBVIOUS
  <2>1. PICK d \in [1..max -> C] : /\ \A i, j \in 1..max : d[i].id = d[j].id => i = j
                                   /\ \A i \in 1..max : <<d[i], z>> \in less
    OBVIOUS
  <2>2. Rank(LC, less, z) >= max
    BY <2>1, EnoughBelow
  <2>3. Rank(LR, less, z) >= max
    <3>1. d \in [1..max -> R]
      OBVIOUS
    <3> QED BY <2>1, <3>1, EnoughBelow
  <2> HIDE DEF LR, LC
  <2>4. Rank(LR, less, r) >= max /\ Rank(LC, less, r) >= max
    <3>1. /\ Rank(LR, less, z) \in Nat /\ Rank(LR, less, r) \in Nat
          /\ Rank(LR, less, z) <= Rank(LR, less, r)
      BY <1>1, <1>2, <1>3
    <3>2. /\ Rank(LC, less, z) \in Nat /\ Rank(LC, less, r) \in Nat
          /\ Rank(LC, less, z) <= Rank(LC, less, r)
      BY <1>1, <1>2, <1>3
    <3> QED BY <2>2, <2>3, <3>1, <3>2
  <2>5. Rank(LR, less, r) \in Nat /\ Rank(LC, less, r) \in Nat
    BY <1>1, <1>2, <1>3
  <2> QED BY <2>4, <2>5 DEF LR, LC
<1>4. ASSUME NEW s \in R, s = r \/ <<s, r>> \in less PROVE s \in LR <=> s \in LC
  <2>1. s \in C
    BY <1>3, <1>4
  <2>2. ASSUME s \in LC, NEW t \in R, t.id = s.id PROVE s = t \/ <<s, t>> \in less
    <3>1. CASE <<t, s>> \in less
      <4>1. <<t, r>> \in less
        BY <1>4, <3>1 DEF Ordering
      <4>2. t \in C
        BY <1>3, <4>1
      <4> QED BY <2>2, <4>2 DEF Earliest
    <3>2. CASE <<t, s>> \notin less
      BY <3>2 DEF Ordering
    <3> QED BY <3>1, <3>2
  <2> QED BY <2>1, <2>2 DEF Earliest
<1>5. Below(LR, less, r) = Below(LC, less, r)
  <2> HIDE DEF LR, LC
  <2> QED BY <1>1, <1>4 DEF Below
<1> QED BY <1>4, <1>5 DEF Rank

(* What BoundingIsSafe asks of a part of the records.                      *)
Bounding(R, less, C, max) ==
    /\ C \subseteq R
    /\ \A z \in R \ C : \E d \in [1..max -> C] :
           /\ \A i, j \in 1..max : d[i].id = d[j].id => i = j
           /\ \A i \in 1..max : <<d[i], z>> \in less

(* The first max events of the part are those of the whole.                *)
LEMMA SamePlaces ==
    ASSUME NEW R, IsFiniteSet(R), NEW less, Ordering(R, less), NEW max \in Nat,
           NEW C, Bounding(R, less, C, max)
    PROVE  LET LR == Earliest(R, less)
               LC == Earliest(C, less)
           IN  /\ IsFiniteSet(LR) /\ Cardinality(LR) \in Nat
               /\ IsFiniteSet(LC) /\ Cardinality(LC) \in Nat
               /\ \A r \in LC : Rank(LC, less, r) < max =>
                      r \in LR /\ Rank(LR, less, r) = Rank(LC, less, r)
               /\ Cardinality(LC) < max => Cardinality(LR) = Cardinality(LC)
               /\ Cardinality(LC) >= max => Cardinality(LR) >= max
<1> DEFINE LR == Earliest(R, less)
           LC == Earliest(C, less)
           m == Cardinality(LC)
           n == Cardinality(LR)
<1>1. LR \subseteq R /\ LC \subseteq R
  BY DEF Earliest, Bounding
<1>2. ASSUME NEW r \in R, Rank(LR, less, r) < max \/ Rank(LC, less, r) < max
      PROVE  (r \in LR <=> r \in LC) /\ Rank(LR, less, r) = Rank(LC, less, r)
  BY <1>2, BoundingIsSafe DEF Bounding
<1> HIDE DEF LR, LC
<1>3. /\ IsFiniteSet(LR) /\ n \in Nat /\ Ordering(LR, less)
      /\ IsFiniteSet(LC) /\ m \in Nat /\ Ordering(LC, less)
  BY <1>1, FS_Subset, FS_CardinalityType, PartOrdered
<1>4. \A r \in LR : Rank(LR, less, r) \in 0..(n - 1)
  BY <1>3, RankGrows
<1>5. \A r \in LC : Rank(LC, less, r) \in 0..(m - 1)
  BY <1>3, RankGrows
<1>6. \A k \in 1..n : \E r \in LR : Rank(LR, less, r) = k - 1
  BY <1>3, OrderLists
<1>7. \A k \in 1..m : \E r \in LC : Rank(LC, less, r) = k - 1
  BY <1>3, OrderLists
<1>8. m >= max <=> n >= max
  <2>1. CASE max = 0
    BY <1>3, <2>1
  <2>2. CASE max # 0
    <3>1. ASSUME m >= max PROVE n >= max
      <4>1. max \in 1..m
        BY <1>3, <2>2, <3>1
      <4>2. PICK r \in LC : Rank(LC, less, r) = max - 1
        BY <1>7, <4>1
      <4>3. r \in LR /\ Rank(LR, less, r) = max - 1
        BY <1>1, <1>2, <4>2
      <4>4. max - 1 \in 0..(n - 1)
        BY <1>4, <4>3
      <4> QED BY <1>3, <4>4
    <3>2. ASSUME n >= max PROVE m >= max
      <4>1. max \in 1..n
        BY <1>3, <2>2, <3>2
      <4>2. PICK r \in LR : Rank(LR, less, r) = max - 1
        BY <1>6, <4>1
      <4>3. r \in LC /\ Rank(LC, less, r) = max - 1
        BY <1>1, <1>2, <4>2
      <4>4. max - 1 \in 0..(m - 1)
        BY <1>5, <4>3
      <4> QED BY <1>3, <4>4
    <3> QED BY <3>1, <3>2
  <2> QED BY <2>1, <2>2
<1>9. ASSUME m < max PROVE LR = LC
  <2>1. n < max
    BY <1>3, <1>8, <1>9
  <2>2. \A r \in LR : Rank(LR, less, r) < max
    BY <1>3, <1>4, <2>1
  <2>3. \A r \in LC : Rank(LC, less, r) < max
    BY <1>3, <1>5, <1>9
  <2> QED BY <1>1, <1>2, <2>2, <2>3
<1>10. \A r \in LC : Rank(LC, less, r) < max =>
           r \in LR /\ Rank(LR, less, r) = Rank(LC, less, r)
  BY <1>1, <1>2
<1>11. m < max => n = m
  BY <1>9
<1>12. m >= max => n >= max
  BY <1>8
<1> QED BY <1>3, <1>10, <1>11, <1>12 DEF LR, LC

-----------------------------------------------------------------------------
(* Places of a list and what stands there are equally many.                *)
LEMMA SameSize ==
    ASSUME NEW A, IsFiniteSet(A), NEW B, NEW s,
           \A a \in A : s[a] \in B,
           \A a, b \in A : s[a] = s[b] => a = b,
           \A x \in B : \E a \in A : s[a] = x
    PROVE  Cardinality(A) = Cardinality(B)
<1> DEFINE h == [a \in A |-> s[a]]
<1>1. h \in Surjection(A, B)
  BY DEF Surjection
<1>2. h \in Injection(A, B)
  BY DEF Injection, IsInjective
<1> HIDE DEF h
<1>3. Cardinality(B) = Cardinality(A)
  BY <1>1, <1>2, FS_Surjection
<1> QED BY <1>3

(* The order of numbers, as a set of pairs.                                *)
Smaller == {p \in Nat \X Nat : p[1] < p[2]}

(* It orders every set of numbers.                                         *)
LEMMA NumbersOrdered ==
    ASSUME NEW S, S \subseteq Nat
    PROVE  Ordering(S, Smaller) /\ \A i, j \in S : <<i, j>> \in Smaller <=> i < j
<1>1. \A i, j \in Nat : <<i, j>> \in Smaller <=> i < j
  BY DEF Smaller
<1>2. Ordering(Nat, Smaller)
  BY <1>1 DEF Ordering
<1> QED BY <1>1, <1>2, PartOrdered

(* A list in order.                                                        *)
IsInOrder(s, C, less) ==
    /\ Cardinality(C) \in Nat
    /\ Len(s) = Cardinality(C)
    /\ \A k \in 1..Cardinality(C) : s[k] \in C
    /\ \A j, k \in 1..Cardinality(C) : <<s[j], s[k]>> \in less <=> j < k
    /\ \A r \in C : \E k \in 1..Cardinality(C) : s[k] = r

(* What stands where as many are below it as places before it is in order. *)
LEMMA RankedInOrder ==
    ASSUME NEW C, IsFiniteSet(C), NEW less, Ordering(C, less), NEW s,
           Len(s) = Cardinality(C),
           \A k \in 1..Cardinality(C) : s[k] \in C /\ Rank(C, less, s[k]) = k - 1
    PROVE  IsInOrder(s, C, less)
<1> DEFINE n == Cardinality(C)
<1>1. n \in Nat
  BY FS_CardinalityType
<1>2. \A k \in 1..n : s[k] \in C /\ Rank(C, less, s[k]) = k - 1
  OBVIOUS
<1>3. ASSUME NEW j \in 1..n, NEW k \in 1..n PROVE <<s[j], s[k]>> \in less <=> j < k
  <2>1. Rank(C, less, s[j]) < Rank(C, less, s[k]) <=> <<s[j], s[k]>> \in less
    <3> HIDE DEF n
    <3> QED BY <1>2, RankOrders
  <2>2. Rank(C, less, s[j]) = j - 1 /\ Rank(C, less, s[k]) = k - 1
    BY <1>2
  <2> HIDE DEF n
  <2> QED BY <1>1, <2>1, <2>2
<1>4. ASSUME NEW r \in C PROVE \E k \in 1..n : s[k] = r
  <2>1. PICK k \in 1..n : InOrder(C, less)[k] = r
    BY OrderLists
  <2>2. Rank(C, less, r) = k - 1
    BY <2>1, OrderLists
  <2>3. s[k] = r
    <3>1. s[k] \in C /\ Rank(C, less, s[k]) = k - 1
      BY <1>2
    <3> QED BY <2>2, <3>1, RankOrders
  <2> QED BY <2>3
<1>5. \A j, k \in 1..n : <<s[j], s[k]>> \in less <=> j < k
  BY <1>3
<1> HIDE DEF n
<1> QED BY <1>1, <1>2, <1>4, <1>5 DEF IsInOrder, n

(* Leaving out the events that have been seen keeps the earliest records,  *)
(* in order.                                                               *)
LEMMA UniqueLists ==
    ASSUME NEW C, IsFiniteSet(C), NEW less, Ordering(C, less), NEW s, IsInOrder(s, C, less)
    PROVE  LET L == Earliest(C, less)
               u == Unique(s)
           IN  /\ DOMAIN u = 1..Cardinality(L) /\ Len(u) = Cardinality(L)
               /\ u = [i \in 1..Cardinality(L) |-> u[i]]
               /\ \A i \in 1..Cardinality(L) : u[i] \in L /\ Rank(L, less, u[i]) = i - 1
<1> DEFINE L == Earliest(C, less)
           n == Cardinality(C)
           fresh == {k \in 1..n : \A j \in 1..(k - 1) : s[j].id # s[k].id}
<1>1. /\ n \in Nat /\ Len(s) = n
      /\ \A k \in 1..n : s[k] \in C
      /\ \A j, k \in 1..n : <<s[j], s[k]>> \in less <=> j < k
      /\ \A r \in C : \E k \in 1..n : s[k] = r
  BY DEF IsInOrder
<1> HIDE DEF n
<1>2. \A j, k \in 1..n : s[j] = s[k] => j = k
  <2> SUFFICES ASSUME NEW j \in 1..n, NEW k \in 1..n, s[j] = s[k] PROVE j = k
    OBVIOUS
  <2>1. <<s[j], s[k]>> \notin less /\ <<s[k], s[j]>> \notin less
    BY <1>1 DEF Ordering
  <2>2. ~(j < k) /\ ~(k < j)
    BY <1>1, <2>1
  <2> QED BY <1>1, <2>2
<1>3. ASSUME NEW k \in 1..n PROVE k \in fresh <=> s[k] \in L
  <2>1. ASSUME k \in fresh, NEW t \in C, t.id = s[k].id PROVE t = s[k] \/ <<s[k], t>> \in less
    <3>1. PICK j \in 1..n : s[j] = t
      BY <1>1
    <3>2. ~(j < k)
      <4>1. j < k => j \in 1..(k - 1)
        BY <1>1
      <4> QED BY <2>1, <3>1, <4>1
    <3>3. j = k \/ k < j
      BY <1>1, <3>2
    <3> QED BY <1>1, <3>1, <3>3
  <2>2. ASSUME s[k] \in L, NEW j \in 1..(k - 1), s[j].id = s[k].id PROVE FALSE
    <3>1. j \in 1..n /\ j < k /\ ~(k < j)
      BY <1>1
    <3>2. s[j] = s[k] \/ <<s[k], s[j]>> \in less
      BY <1>1, <2>2, <3>1 DEF Earliest
    <3> QED BY <1>1, <1>2, <3>1, <3>2
  <2> QED BY <1>1, <2>1, <2>2 DEF Earliest
<1>4. fresh \subseteq 1..n /\ fresh \subseteq Nat
  BY <1>1
<1>5. IsFiniteSet(fresh)
  <2>1. IsFiniteSet(1..n)
    BY <1>1, FS_Interval
  <2> HIDE DEF fresh
  <2> QED BY <1>4, <2>1, FS_Subset
<1>6. \A x \in L : x \in C /\ \E k \in fresh : s[k] = x
  <2> SUFFICES ASSUME NEW x \in L PROVE x \in C /\ \E k \in fresh : s[k] = x
    OBVIOUS
  <2>1. x \in C
    BY DEF Earliest
  <2>2. PICK k \in 1..n : s[k] = x
    BY <1>1, <2>1
  <2> HIDE DEF fresh, L
  <2> QED BY <1>3, <2>1, <2>2
<1>7. \A k \in fresh : s[k] \in L
  <2> HIDE DEF fresh, L
  <2> QED BY <1>3, <1>4
<1>8. Unique(s) = [i \in 1..Cardinality(fresh) |->
                      s[CHOOSE k \in fresh : Cardinality({j \in fresh : j < k}) = i - 1]]
  BY <1>1 DEF Unique
<1> HIDE DEF fresh, L
<1>9. Ordering(fresh, Smaller) /\ \A i, j \in fresh : <<i, j>> \in Smaller <=> i < j
  BY <1>4, NumbersOrdered
<1>10. Cardinality(fresh) = Cardinality(L)
  <2>1. \A j, k \in fresh : s[j] = s[k] => j = k
    BY <1>2, <1>4
  <2>2. \A x \in L : \E k \in fresh : s[k] = x
    BY <1>6
  <2> QED BY <1>5, <1>7, <2>1, <2>2, SameSize
<1>11. ASSUME NEW k \in fresh
       PROVE  /\ Cardinality({j \in fresh : j < k}) = Rank(fresh, Smaller, k)
              /\ Cardinality({j \in fresh : j < k}) = Rank(L, less, s[k])
  <2> DEFINE A == {j \in fresh : j < k}
             B == Below(L, less, s[k])
  <2>1. A = Below(fresh, Smaller, k)
    BY <1>9 DEF Below
  <2>2. IsFiniteSet(A)
    BY <1>5, FS_Subset
  <2>3. \A j \in A : s[j] \in B
    <3> SUFFICES ASSUME NEW j \in fresh, j < k PROVE s[j] \in L /\ <<s[j], s[k]>> \in less
      BY DEF Below
    <3> QED BY <1>1, <1>4, <1>7
  <2>4. \A j, i \in A : s[j] = s[i] => j = i
    BY <1>2, <1>4
  <2>5. \A x \in B : \E j \in A : s[j] = x
    <3> SUFFICES ASSUME NEW x \in L, <<x, s[k]>> \in less PROVE \E j \in A : s[j] = x
      BY DEF Below
    <3>1. PICK j \in fresh : s[j] = x
      BY <1>6
    <3>2. j < k
      BY <1>1, <1>4, <3>1
    <3> QED BY <3>1, <3>2
  <2> HIDE DEF A, B
  <2>6. Cardinality(A) = Cardinality(B)
    BY <2>2, <2>3, <2>4, <2>5, SameSize
  <2> QED BY <2>1, <2>6 DEF A, B, Rank
<1>12. ASSUME NEW i \in 1..Cardinality(fresh)
       PROVE  Unique(s)[i] \in L /\ Rank(L, less, Unique(s)[i]) = i - 1
  <2> DEFINE place == CHOOSE k \in fresh : Cardinality({j \in fresh : j < k}) = i - 1
  <2>1. \E k \in fresh : Rank(fresh, Smaller, k) = i - 1
    BY <1>5, <1>9, OrderLists
  <2>2. \E k \in fresh : Cardinality({j \in fresh : j < k}) = i - 1
    BY <1>11, <2>1
  <2>3. place \in fresh /\ Cardinality({j \in fresh : j < place}) = i - 1
    BY <2>2
  <2>4. Unique(s)[i] = s[place]
    BY <1>8
  <2> HIDE DEF place
  <2>5. Rank(L, less, s[place]) = i - 1
    BY <1>11, <2>3
  <2>6. s[place] \in L
    BY <1>7, <2>3
  <2> QED BY <2>4, <2>5, <2>6
<1>13. Cardinality(L) \in Nat
  BY <1>5, <1>10, FS_CardinalityType
<1>14. /\ DOMAIN Unique(s) = 1..Cardinality(L) /\ Len(Unique(s)) = Cardinality(L)
       /\ Unique(s) = [i \in 1..Cardinality(L) |-> Unique(s)[i]]
  <2> DEFINE place(i) == CHOOSE k \in fresh : Cardinality({j \in fresh : j < k}) = i - 1
  <2>1. Unique(s) = [i \in 1..Cardinality(L) |-> s[place(i)]]
    BY <1>8, <1>10
  <2> HIDE DEF place
  <2> QED BY <1>13, <2>1
<1> QED BY <1>10, <1>12, <1>14 DEF L

-----------------------------------------------------------------------------
(* Whoever stored a record later did not read an earlier time: the wall    *)
(* clock was not set back between two records of one log.                  *)
SteadyClock ==
    \A logs \in Histories : \A sub \in DOMAIN logs :
        \A m, n \in DOMAIN logs[sub] : m <= n => logs[sub][m].at <= logs[sub][n].at

(* The record a log has at a place.                                        *)
Stored(logs, sub, seq) ==
    [sub |-> sub, seq |-> seq, id |-> logs[sub][seq].id, at |-> logs[sub][seq].at]

(* The places of a log that hold a record of the type.                     *)
Places(log, type) == {n \in DOMAIN log : type \in {AnyType, log[n].type}}

(* Before, as a set of pairs.                                              *)
Newer(R) == {p \in R \X R : Before(p[1], p[2])}

(* A log of the given histories.                                           *)
LEMMA LogFacts ==
    ASSUME NEW logs \in Histories, NEW sub \in DOMAIN logs
    PROVE  /\ sub \in Nat
           /\ Len(logs[sub]) \in Nat /\ DOMAIN logs[sub] = 1..Len(logs[sub])
           /\ \A n \in DOMAIN logs[sub] : logs[sub][n].at \in Nat
           /\ \A m, n \in DOMAIN logs[sub] : logs[sub][m].id = logs[sub][n].id => m = n
<1> DEFINE log == logs[sub]
           S == {log[n] : n \in DOMAIN log}
<1>1. sub \in Nat /\ log \in Seq(S)
  BY HistoryAssumption
<1>2. Len(log) \in Nat /\ DOMAIN log = 1..Len(log)
  <2> HIDE DEF S, log
  <2> QED BY <1>1
<1> QED BY <1>1, <1>2, HistoryAssumption

(* What the records of the type are.                                       *)
LEMMA RecordFacts ==
    ASSUME NEW logs \in Histories, NEW type, NEW r
    PROVE  /\ r \in Records(logs, type) <=>
                  \E sub \in DOMAIN logs : \E n \in Places(logs[sub], type) : r = Stored(logs, sub, n)
           /\ r \in Records(logs, type) =>
                  /\ r.sub \in Nat /\ r.seq \in Nat /\ r.at \in Nat
                  /\ r = Stored(logs, r.sub, r.seq)
<1>1. r \in Records(logs, type) <=>
          \E sub \in DOMAIN logs : \E n \in Places(logs[sub], type) : r = Stored(logs, sub, n)
  BY DEF Records, Places, Stored
<1>2. ASSUME NEW sub \in DOMAIN logs, NEW n \in Places(logs[sub], type), r = Stored(logs, sub, n)
      PROVE  /\ r.sub \in Nat /\ r.seq \in Nat /\ r.at \in Nat
             /\ r = Stored(logs, r.sub, r.seq)
  <2>1. sub \in Nat /\ n \in DOMAIN logs[sub] /\ n \in Nat /\ logs[sub][n].at \in Nat
    BY LogFacts DEF Places
  <2>2. r.sub = sub /\ r.seq = n /\ r.at = logs[sub][n].at
    BY <1>2 DEF Stored
  <2> QED BY <1>2, <2>1, <2>2
<1> QED BY <1>1, <1>2

(* Records are ordered by time, then subscription, then place.             *)
LEMMA RecordsOrdered ==
    ASSUME NEW logs \in Histories, NEW type
    PROVE  LET R == Records(logs, type)
           IN  /\ Ordering(R, Newer(R))
               /\ \A r, s \in R : <<r, s>> \in Newer(R) <=> Before(r, s)
<1> DEFINE R == Records(logs, type)
<1>1. \A r \in R : r.sub \in Nat /\ r.seq \in Nat /\ r.at \in Nat /\ r = Stored(logs, r.sub, r.seq)
  BY RecordFacts
<1> HIDE DEF R
<1>2. \A r, s \in R : <<r, s>> \in Newer(R) <=> Before(r, s)
  BY DEF Newer
<1>3. \A r \in R : ~Before(r, r)
  BY <1>1 DEF Before
<1>4. \A r, s, t \in R : Before(r, s) /\ Before(s, t) => Before(r, t)
  <2> SUFFICES ASSUME NEW r \in R, NEW s \in R, NEW t \in R, Before(r, s), Before(s, t)
               PROVE  Before(r, t)
    OBVIOUS
  <2>1. /\ r.sub \in Nat /\ r.seq \in Nat /\ r.at \in Nat
        /\ s.sub \in Nat /\ s.seq \in Nat /\ s.at \in Nat
        /\ t.sub \in Nat /\ t.seq \in Nat /\ t.at \in Nat
    BY <1>1
  <2> QED BY <2>1 DEF Before
<1>5. \A r, s \in R : r = s \/ Before(r, s) \/ Before(s, r)
  <2> SUFFICES ASSUME NEW r \in R, NEW s \in R, ~Before(r, s), ~Before(s, r) PROVE r = s
    OBVIOUS
  <2>1. /\ r.sub \in Nat /\ r.seq \in Nat /\ r.at \in Nat
        /\ s.sub \in Nat /\ s.seq \in Nat /\ s.at \in Nat
    BY <1>1
  <2>2. r.sub = s.sub /\ r.seq = s.seq
    BY <2>1 DEF Before
  <2>3. r = Stored(logs, r.sub, r.seq) /\ s = Stored(logs, s.sub, s.seq)
    BY <1>1
  <2> QED BY <2>2, <2>3
<1> QED BY <1>2, <1>3, <1>4, <1>5 DEF Ordering, R

(* What a function makes of finitely many arguments is finite.             *)
LEMMA FiniteImage ==
    ASSUME NEW A, IsFiniteSet(A), NEW h
    PROVE  IsFiniteSet({h[a] : a \in A})
<1> DEFINE B == {h[a] : a \in A}
           g == [a \in A |-> h[a]]
<1>1. g \in Surjection(A, B)
  BY DEF Surjection
<1> HIDE DEF g, B
<1>2. IsFiniteSet(B)
  BY <1>1, FS_Surjection
<1> QED BY <1>2 DEF B

(* Histories are finite.                                                   *)
LEMMA RecordsFinite ==
    ASSUME NEW logs \in Histories, NEW type
    PROVE  IsFiniteSet(Records(logs, type))
<1> DEFINE R == Records(logs, type)
           row(sub) == [n \in DOMAIN logs[sub] |-> Stored(logs, sub, n)]
           of(sub) == {row(sub)[n] : n \in DOMAIN logs[sub]}
           all == [sub \in DOMAIN logs |-> of(sub)]
<1>1. \A sub \in DOMAIN logs : IsFiniteSet(of(sub))
  <2> SUFFICES ASSUME NEW sub \in DOMAIN logs PROVE IsFiniteSet(of(sub))
    OBVIOUS
  <2>1. IsFiniteSet(DOMAIN logs[sub])
    BY LogFacts, FS_Interval
  <2> HIDE DEF row
  <2> QED BY <2>1, FiniteImage
<1>2. IsFiniteSet({all[sub] : sub \in DOMAIN logs})
  <2>1. IsFiniteSet(DOMAIN logs)
    BY HistoryAssumption
  <2> HIDE DEF all
  <2> QED BY <2>1, FiniteImage
<1>3. \A T \in {all[sub] : sub \in DOMAIN logs} : IsFiniteSet(T)
  <2> HIDE DEF of
  <2> QED BY <1>1
<1>4. IsFiniteSet(UNION {all[sub] : sub \in DOMAIN logs})
  <2> HIDE DEF all
  <2> QED BY <1>2, <1>3, FS_UNION
<1>5. R \subseteq UNION {all[sub] : sub \in DOMAIN logs}
  <2> SUFFICES ASSUME NEW r \in R PROVE r \in UNION {all[sub] : sub \in DOMAIN logs}
    OBVIOUS
  <2>1. PICK sub \in DOMAIN logs : \E n \in Places(logs[sub], type) : r = Stored(logs, sub, n)
    BY RecordFacts
  <2>2. PICK n \in DOMAIN logs[sub] : r = Stored(logs, sub, n)
    BY <2>1 DEF Places
  <2>3. r = row(sub)[n]
    BY <2>2
  <2>4. r \in of(sub)
    <3> HIDE DEF row
    <3> QED BY <2>3
  <2>5. all[sub] = of(sub)
    OBVIOUS
  <2> HIDE DEF of, all
  <2> QED BY <2>4, <2>5
<1> HIDE DEF R, all
<1>6. IsFiniteSet(R)
  BY <1>4, <1>5, FS_Subset
<1> QED BY <1>6 DEF R

(* The places of the walk at which a record is taken.                      *)
Taken(log, type, max) ==
    {j \in Wanted(log, type) : Cardinality({i \in Wanted(log, type) : i < j}) < max}

(* One subscription's candidates: the records of the type that have fewer  *)
(* than max such records behind them in the log.                           *)
LEMMA CandidateFacts ==
    ASSUME NEW logs \in Histories, NEW sub \in DOMAIN logs, NEW type, NEW max \in Nat
    PROVE  LET log == logs[sub]
               W == Wanted(log, type)
               n == Len(log)
           IN  /\ W = {j \in 1..n : n + 1 - j \in Places(log, type)}
               /\ \A r : r \in CandidatesOf(log, sub, type, max) <=>
                      \E j \in Taken(log, type, max) : r = Stored(logs, sub, n + 1 - j)
<1> DEFINE log == logs[sub]
           W == Wanted(log, type)
           n == Len(log)
           taken == Taken(log, type, max)
<1>1. n \in Nat /\ DOMAIN log = 1..n
  BY LogFacts
<1>2. Newest(log) = [j \in 1..n |-> n + 1 - j]
  BY <1>1, NewestFirst
<1>3. Len(Newest(log)) = n /\ \A j \in 1..n : Newest(log)[j] = n + 1 - j
  <2> HIDE DEF n, log
  <2> QED BY <1>1, <1>2
<1>4. W = {j \in 1..n : type \in {AnyType, log[n + 1 - j].type}}
  BY <1>3 DEF Wanted
<1>5. \A j \in 1..n : n + 1 - j \in DOMAIN log
  BY <1>1
<1>6. W = {j \in 1..n : n + 1 - j \in Places(log, type)}
  <2> HIDE DEF n, log, W
  <2> QED BY <1>4, <1>5 DEF Places
<1>7. CandidatesOf(log, sub, type, max) = At(log, sub, taken)
  BY DEF CandidatesOf, Taken
<1>8. At(log, sub, taken) = {Stored(logs, sub, Newest(log)[j]) : j \in taken}
  BY DEF At, Stored
<1>9. \A j \in taken : Stored(logs, sub, Newest(log)[j]) = Stored(logs, sub, n + 1 - j)
  <2>1. \A j \in taken : j \in 1..n
    BY <1>4 DEF Taken
  <2> HIDE DEF n, log, taken
  <2> QED BY <1>3, <2>1
<1>10. \A r : r \in CandidatesOf(log, sub, type, max) <=>
           \E j \in taken : r = Stored(logs, sub, n + 1 - j)
  <2> HIDE DEF n, log, taken
  <2> QED BY <1>7, <1>8, <1>9
<1> QED BY <1>6, <1>10

(* All candidates.                                                         *)
Candidates(logs, type, max) ==
    UNION {CandidatesOf(logs[sub], sub, type, max) : sub \in DOMAIN logs}

(* With a steady clock a record that is no candidate stands behind max     *)
(* candidates of its own subscription, all of them different events.       *)
LEMMA CandidatesBound ==
    ASSUME SteadyClock, NEW logs \in Histories, NEW type, NEW max \in Nat
    PROVE  Bounding(Records(logs, type), Newer(Records(logs, type)),
                    Candidates(logs, type, max), max)
<1> DEFINE R == Records(logs, type)
           less == Newer(R)
           C == Candidates(logs, type, max)
<1>1. ASSUME NEW r PROVE r \in C <=> \E sub \in DOMAIN logs :
                                         r \in CandidatesOf(logs[sub], sub, type, max)
  BY DEF Candidates
<1>2. ASSUME NEW r \in C PROVE r \in R
  <2>1. PICK sub \in DOMAIN logs : r \in CandidatesOf(logs[sub], sub, type, max)
    BY <1>1, <1>2
  <2> DEFINE log == logs[sub]
             n == Len(log)
             W == Wanted(log, type)
  <2>2. PICK j \in Taken(log, type, max) : r = Stored(logs, sub, n + 1 - j)
    BY <2>1, CandidateFacts
  <2>3. n + 1 - j \in Places(log, type)
    BY CandidateFacts DEF Taken
  <2> HIDE DEF n, W
  <2> QED BY <2>2, <2>3, RecordFacts
<1>3. ASSUME NEW z \in R \ C
      PROVE  \E d \in [1..max -> C] :
                 /\ \A i, j \in 1..max : d[i].id = d[j].id => i = j
                 /\ \A i \in 1..max : <<d[i], z>> \in less
  <2>1. PICK sub \in DOMAIN logs : \E seq \in Places(logs[sub], type) : z = Stored(logs, sub, seq)
    BY RecordFacts
  <2> DEFINE log == logs[sub]
             n == Len(log)
             W == Wanted(log, type)
             behind(j) == Cardinality({i \in W : i < j})
             f == InOrder(W, Smaller)
             d == [i \in 1..max |-> Stored(logs, sub, n + 1 - f[i])]
  <2>2. PICK seq \in Places(log, type) : z = Stored(logs, sub, seq)
    BY <2>1
  <2>3. /\ sub \in Nat /\ n \in Nat /\ DOMAIN log = 1..n
        /\ \A k \in 1..n : log[k].at \in Nat
        /\ \A k, l \in 1..n : log[k].id = log[l].id => k = l
        /\ \A k, l \in 1..n : k <= l => log[k].at <= log[l].at
    BY LogFacts DEF SteadyClock
  <2>4. seq \in 1..n
    BY <2>3 DEF Places
  <2>5. W = {j \in 1..n : n + 1 - j \in Places(log, type)}
    BY CandidateFacts
  <2>6. \A j \in W : behind(j) < max => Stored(logs, sub, n + 1 - j) \in C
    <3> SUFFICES ASSUME NEW j \in W, behind(j) < max
                 PROVE  Stored(logs, sub, n + 1 - j) \in CandidatesOf(log, sub, type, max)
      BY <1>1
    <3>1. j \in Taken(log, type, max)
      BY DEF Taken
    <3> QED BY <3>1, CandidateFacts
  <2> DEFINE p == n + 1 - seq
  <2>7. p \in 1..n /\ n + 1 - p = seq
    BY <2>3, <2>4
  <2>8. p \in W /\ ~(behind(p) < max)
    <3>1. p \in W
      BY <2>5, <2>7
    <3> HIDE DEF p, W, n
    <3> QED BY <1>3, <2>2, <2>6, <2>7, <3>1
  <2> HIDE DEF p
  <2>9. W \subseteq 1..n /\ W \subseteq Nat
    BY <2>3, <2>5
  <2> HIDE DEF W, n, log
  <2>10. IsFiniteSet(W) /\ Ordering(W, Smaller) /\ \A i, j \in W : <<i, j>> \in Smaller <=> i < j
    <3>1. IsFiniteSet(1..n)
      BY <2>3, FS_Interval
    <3> QED BY <2>9, <3>1, FS_Subset, NumbersOrdered
  <2>11. \A j \in W : behind(j) = Rank(W, Smaller, j)
    <3> SUFFICES ASSUME NEW j \in W PROVE {i \in W : i < j} = Below(W, Smaller, j)
      BY DEF Rank
    <3> QED BY <2>10 DEF Below
  <2>12. Cardinality(W) \in Nat /\ Rank(W, Smaller, p) \in 0..(Cardinality(W) - 1)
    BY <2>8, <2>10, RankGrows
  <2>13. \A i \in 1..max : i \in 1..Cardinality(W)
    BY <2>8, <2>11, <2>12
  <2>14. \A i \in 1..max : f[i] \in W /\ Rank(W, Smaller, f[i]) = i - 1
    BY <2>10, <2>13, OrderLists
  <2> HIDE DEF f
  <2>15. \A i \in 1..max : f[i] \in 1..n /\ f[i] < p /\ Stored(logs, sub, n + 1 - f[i]) \in C
    <3> SUFFICES ASSUME NEW i \in 1..max
                 PROVE  f[i] < p /\ Stored(logs, sub, n + 1 - f[i]) \in C
      BY <2>9, <2>14
    <3>1. f[i] \in W /\ Rank(W, Smaller, f[i]) = i - 1 /\ i - 1 < max
      BY <2>14
    <3>2. Rank(W, Smaller, f[i]) < Rank(W, Smaller, p)
      BY <2>8, <2>11, <2>12, <3>1
    <3>3. <<f[i], p>> \in Smaller
      BY <2>8, <2>10, <3>1, <3>2, RankOrders
    <3>4. behind(f[i]) < max
      <4> HIDE DEF behind
      <4> QED BY <2>11, <3>1
    <3> HIDE DEF behind
    <3> QED BY <2>6, <2>8, <2>10, <3>1, <3>3, <3>4
  <2> HIDE DEF behind
  <2>16. d \in [1..max -> C]
    BY <2>15
  <2>17. \A i \in 1..max : d[i] = Stored(logs, sub, n + 1 - f[i])
    OBVIOUS
  <2> HIDE DEF d
  <2>18. ASSUME NEW i \in 1..max, NEW j \in 1..max, d[i].id = d[j].id PROVE i = j
    <3>1. d[i].id = log[n + 1 - f[i]].id /\ d[j].id = log[n + 1 - f[j]].id
      <4>1. \A x : Stored(logs, sub, x).id = log[x].id
        BY DEF Stored, log
      <4> QED BY <2>17, <4>1
    <3>2. f[i] \in 1..n /\ f[j] \in 1..n
      BY <2>15
    <3>3. n + 1 - f[i] \in 1..n /\ n + 1 - f[j] \in 1..n
      BY <2>3, <3>2
    <3>4. n + 1 - f[i] = n + 1 - f[j]
      BY <2>3, <2>18, <3>1, <3>3
    <3>5. f[i] = f[j]
      BY <2>3, <3>2, <3>4
    <3>6. i - 1 = j - 1
      BY <2>14, <3>5
    <3> QED BY <3>6
  <2>19. ASSUME NEW i \in 1..max PROVE <<d[i], z>> \in less
    <3> DEFINE k == n + 1 - f[i]
    <3>1. k \in 1..n /\ seq < k
      BY <2>3, <2>4, <2>7, <2>15
    <3> HIDE DEF k
    <3>2. log[seq].at <= log[k].at /\ log[seq].at \in Nat /\ log[k].at \in Nat
      BY <2>3, <2>4, <3>1
    <3>3. d[i] = Stored(logs, sub, k)
      BY <2>17 DEF k
    <3>4. Before(Stored(logs, sub, k), Stored(logs, sub, seq))
      BY <2>3, <2>4, <3>1, <3>2 DEF Before, Stored, log
    <3>5. d[i] \in R /\ z \in R
      BY <1>2, <2>16
    <3>6. <<d[i], z>> \in less <=> Before(d[i], z)
      BY <3>5, RecordsOrdered
    <3> QED BY <2>2, <3>3, <3>4, <3>6
  <2> QED BY <2>16, <2>18, <2>19
<1> QED BY <1>2, <1>3 DEF Bounding

(* Sorting lists the records in order.                                     *)
LEMMA SortedLists ==
    ASSUME NEW C, IsFiniteSet(C), NEW less, Ordering(C, less),
           \A r, s \in C : <<r, s>> \in less <=> Before(r, s)
    PROVE  IsInOrder(Sorted(C), C, less)
<1> DEFINE n == Cardinality(C)
           place(k) == CHOOSE r \in C : Cardinality({s \in C : Before(s, r)}) = k - 1
<1>1. n \in Nat
  BY FS_CardinalityType
<1>2. Sorted(C) = [k \in 1..n |-> place(k)]
  BY DEF Sorted
<1>3. \A r \in C : Cardinality({s \in C : Before(s, r)}) = Rank(C, less, r)
  <2> SUFFICES ASSUME NEW r \in C PROVE {s \in C : Before(s, r)} = Below(C, less, r)
    BY DEF Rank
  <2> QED BY DEF Below
<1>4. ASSUME NEW k \in 1..n PROVE place(k) \in C /\ Rank(C, less, place(k)) = k - 1
  <2>1. \E r \in C : Rank(C, less, r) = k - 1
    BY OrderLists
  <2>2. \E r \in C : Cardinality({s \in C : Before(s, r)}) = k - 1
    BY <1>3, <2>1
  <2>3. place(k) \in C /\ Cardinality({s \in C : Before(s, place(k))}) = k - 1
    BY <2>2
  <2> HIDE DEF place
  <2> QED BY <1>3, <2>3
<1> HIDE DEF place
<1>5. Len(Sorted(C)) = n /\ \A k \in 1..n : Sorted(C)[k] = place(k)
  <2> HIDE DEF n
  <2> QED BY <1>1, <1>2
<1> QED BY <1>4, <1>5, RankedInOrder

(* The first max events, as the program finds them.                        *)
LEMMA ListsNewest ==
    ASSUME SteadyClock, NEW logs \in Histories, NEW type, NEW max \in Nat
    PROVE  IsNewest(List(logs, type, max), logs, type, max)
<1> DEFINE R == Records(logs, type)
           less == Newer(R)
           C == Candidates(logs, type, max)
           LR == Earliest(R, less)
           LC == Earliest(C, less)
           u == Unique(Sorted(C))
           list == List(logs, type, max)
           m == Cardinality(LC)
           n == Cardinality(LR)
<1>1. /\ IsFiniteSet(R) /\ Ordering(R, less)
      /\ \A r, s \in R : <<r, s>> \in less <=> Before(r, s)
  BY RecordsFinite, RecordsOrdered
<1>2. Bounding(R, less, C, max) /\ C \subseteq R
  <2>1. Bounding(R, less, C, max)
    BY CandidatesBound
  <2> QED BY <2>1 DEF Bounding
<1>3. list = IF Len(u) < max THEN u ELSE SubSeq(u, 1, max)
  BY DEF List, Candidates
<1>4. LastRecords(logs, type) = LR
  BY <1>1 DEF LastRecords, Earliest
<1> HIDE DEF R, C, less
<1>5. IsFiniteSet(C) /\ Ordering(C, less) /\ \A r, s \in C : <<r, s>> \in less <=> Before(r, s)
  BY <1>1, <1>2, FS_Subset, PartOrdered
<1>6. IsInOrder(Sorted(C), C, less)
  BY <1>5, SortedLists
<1>7. /\ DOMAIN u = 1..m /\ Len(u) = m /\ u = [i \in 1..m |-> u[i]]
      /\ \A i \in 1..m : u[i] \in LC /\ Rank(LC, less, u[i]) = i - 1
  BY <1>5, <1>6, UniqueLists
<1>8. /\ n \in Nat /\ m \in Nat
      /\ \A r \in LC : Rank(LC, less, r) < max => r \in LR /\ Rank(LR, less, r) = Rank(LC, less, r)
      /\ m < max => n = m
      /\ m >= max => n >= max
  BY <1>1, <1>2, SamePlaces
<1>9. LR \subseteq R
  BY DEF Earliest
<1> HIDE DEF u, list, LR, LC, m, n
<1>10. Len(list) = (IF n < max THEN n ELSE max)
       /\ \A i \in 1..Len(list) : i \in 1..m /\ i <= max /\ list[i] = u[i]
  <2>1. CASE m < max
    <3>1. list = u
      BY <1>3, <1>7, <2>1
    <3> QED BY <1>7, <1>8, <2>1, <3>1
  <2>2. CASE ~(m < max)
    <3>1. list = SubSeq(u, 1, max) /\ m >= max /\ n >= max /\ ~(n < max)
      BY <1>3, <1>7, <1>8, <2>2
    <3>2. u \in Seq({u[i] : i \in 1..m})
      <4> DEFINE U == {u[i] : i \in 1..m}
      <4>1. \A i \in 1..m : u[i] \in U
        OBVIOUS
      <4> HIDE DEF U
      <4>2. [i \in 1..m |-> u[i]] \in Seq(U)
        BY <1>8, <4>1
      <4> QED BY <1>7, <4>2 DEF U
    <3>3. Len(list) = max /\ \A i \in 1..max : list[i] = u[i]
      BY <1>7, <1>8, <3>1, <3>2
    <3> QED BY <1>8, <3>1, <3>3
  <2> QED BY <2>1, <2>2
<1>11. ASSUME NEW i \in 1..Len(list)
       PROVE  list[i] \in LR /\ Cardinality({r \in LR : Before(r, list[i])}) = i - 1
  <2>1. i \in 1..m /\ i <= max /\ list[i] = u[i] /\ i \in Nat
    BY <1>8, <1>10
  <2>2. u[i] \in LC /\ Rank(LC, less, u[i]) = i - 1 /\ i - 1 < max
    BY <1>7, <2>1
  <2>3. u[i] \in LR /\ Rank(LR, less, u[i]) = i - 1
    BY <1>8, <2>2
  <2>4. {r \in LR : Before(r, u[i])} = Below(LR, less, u[i])
    BY <1>1, <1>9, <2>3 DEF Below
  <2> QED BY <2>1, <2>3, <2>4 DEF Rank
<1> QED BY <1>4, <1>10, <1>11 DEF IsNewest, n, list

(* While the clock is steady `events list` is the newest events, for any   *)
(* subscriptions, logs of any length, any size of a chunk and any --max    *)
(* (jsonl.py 472-499).                                                     *)
THEOREM ListsAreNewest == ASSUME SteadyClock PROVE Spec => []ListIsNewest
<1>1. Init => ListIsNewest
  <2> SUFFICES ASSUME Init, call.of = "list"
               PROVE  IsNewest(List(call.logs, call.type, call.max),
                               call.logs, call.type, call.max)
    BY DEF ListIsNewest
  <2>1. call.logs \in Histories /\ call.max \in 1..MaxList
    BY DEF Init
  <2>2. call.max \in Nat
    BY <2>1, HistoryAssumption
  <2> QED BY <2>1, <2>2, ListsNewest
<1>2. ListIsNewest /\ [Next]_call => ListIsNewest'
  <2> SUFFICES ASSUME ListIsNewest, [Next]_call PROVE ListIsNewest'
    OBVIOUS
  <2>1. call' = call
    BY DEF Next
  <2> QED BY <2>1 DEF ListIsNewest
<1> QED BY <1>1, <1>2, PTL DEF Spec

-----------------------------------------------------------------------------
(* What is reported because of one key of a payload.                       *)
KeyProblems(fields, key) ==
    IF key \in Field
    THEN IF key \in DOMAIN fields
         THEN IF key \in Optional /\ fields[key] = Null THEN {}
              ELSE FieldProblems(key, fields[key])
         ELSE IF key \in Required THEN {<<<<key>>, "missing">>} ELSE {}
    ELSE IF key \in DOMAIN fields THEN {<<<<key>>, "unknown_field">>} ELSE {}

(* Required and Optional fields are apart.                                 *)
LEMMA FieldsApart == Field = Required \cup Optional /\ Required \cap Optional = {}
BY DEF Field, Required, Optional

(* The problems of a payload are those of its keys and of what it lacks.   *)
LEMMA ProblemsByKey ==
    ASSUME NEW fields
    PROVE  FromDict([object |-> fields]).problems =
               UNION {KeyProblems(fields, key) : key \in Field \cup DOMAIN fields}
<1> DEFINE keys == DOMAIN fields
           missing == Required \ keys
           envelope == [name \in Field |-> IF name \in keys THEN fields[name] ELSE Null]
           looked == {n \in Field \ missing : n \in Optional => envelope[n] # Null}
           unknown == {<<<<key>>, "unknown_field">> : key \in keys \ Field}
           lacking == {<<<<name>>, "missing">> : name \in missing}
           found == UNION {FieldProblems(name, envelope[name]) : name \in looked}
<1>1. FromDict([object |-> fields]).problems = unknown \cup lacking \cup found
  BY DEF FromDict, CollectErrors, Is
<1>2. ASSUME NEW p, p \in unknown \cup lacking \cup found
      PROVE  \E key \in Field \cup DOMAIN fields : p \in KeyProblems(fields, key)
  <2>1. CASE p \in unknown
    BY <2>1 DEF KeyProblems
  <2>2. CASE p \in lacking
    BY <2>2, FieldsApart DEF KeyProblems
  <2>3. CASE p \in found
    <3>1. PICK name \in looked : p \in FieldProblems(name, envelope[name])
      BY <2>3
    <3>2. name \in keys
      BY <3>1, FieldsApart
    <3> QED BY <3>1, <3>2 DEF KeyProblems
  <2> QED BY <1>2, <2>1, <2>2, <2>3
<1>3. ASSUME NEW key \in Field \cup DOMAIN fields, NEW p, p \in KeyProblems(fields, key)
      PROVE  p \in unknown \cup lacking \cup found
  <2>1. CASE key \notin Field
    BY <1>3, <2>1 DEF KeyProblems
  <2>2. CASE key \in Field /\ key \notin keys
    BY <1>3, <2>2 DEF KeyProblems
  <2>3. CASE key \in Field /\ key \in keys
    <3>1. envelope[key] = fields[key] /\ key \in looked
      BY <1>3, <2>3 DEF KeyProblems
    <3>2. p \in FieldProblems(key, envelope[key])
      BY <1>3, <2>3, <3>1 DEF KeyProblems
    <3> QED BY <3>1, <3>2
  <2> QED BY <2>1, <2>2, <2>3
<1> HIDE DEF unknown, lacking, found
<1> QED BY <1>1, <1>2, <1>3

(* The payload that changes make of Base.                                  *)
Changed(changes) == Override(Base, changes).object

(* Base has no problem, not at any key.                                    *)
LEMMA BaseIsClean == \A key : KeyProblems(Base, key) = {}
<1>1. \A key \in Field \cup DOMAIN Base : KeyProblems(Base, key) = {}
  BY BaseAssumption, ProblemsByKey
<1> QED BY <1>1 DEF KeyProblems

(* What is reported because of a key depends on the change of that key.    *)
LEMMA ChangesApart ==
    ASSUME NEW changes, NEW key
    PROVE  /\ key \notin DOMAIN changes => KeyProblems(Changed(changes), key) = {}
           /\ key \in DOMAIN changes =>
                  KeyProblems(Changed(changes), key) =
                      KeyProblems(Changed(Restrict(changes, {key})), key)
<1>1. /\ key \in DOMAIN Changed(changes) <=>
             IF key \in DOMAIN changes THEN changes[key] # Absent ELSE key \in DOMAIN Base
      /\ key \in DOMAIN Changed(changes) =>
             Changed(changes)[key] = IF key \in DOMAIN changes THEN changes[key] ELSE Base[key]
  BY DEF Changed, Override
<1>2. CASE key \notin DOMAIN changes
  <2>1. KeyProblems(Changed(changes), key) = KeyProblems(Base, key)
    BY <1>1, <1>2 DEF KeyProblems
  <2> QED BY <1>2, <2>1, BaseIsClean
<1>3. CASE key \in DOMAIN changes
  <2> DEFINE one == Restrict(changes, {key})
  <2>1. DOMAIN one = {key} /\ one[key] = changes[key]
    BY DEF Restrict
  <2> HIDE DEF one
  <2>2. /\ key \in DOMAIN Changed(one) <=> changes[key] # Absent
        /\ key \in DOMAIN Changed(one) => Changed(one)[key] = changes[key]
    BY <2>1 DEF Changed, Override
  <2>3. KeyProblems(Changed(changes), key) = KeyProblems(Changed(one), key)
    BY <1>1, <1>3, <2>2 DEF KeyProblems
  <2> QED BY <1>3, <2>3 DEF one
<1> QED BY <1>2, <1>3

(* The problems of a changed payload, change by change.                    *)
LEMMA ProblemsByChange ==
    ASSUME NEW changes
    PROVE  Parsed(changes).problems =
               UNION {Parsed(Restrict(changes, {key})).problems : key \in DOMAIN changes}
<1> DEFINE Of(c, key) == KeyProblems(Changed(c), key)
           Only(key) == Restrict(changes, {key})
<1>1. \A c : Parsed(c).problems = UNION {Of(c, key) : key \in Field \cup DOMAIN Changed(c)}
  BY ProblemsByKey DEF Parsed, Changed, Override
<1>2. \A c, key : Of(c, key) # {} => key \in Field \cup DOMAIN Changed(c)
  BY DEF KeyProblems
<1>3. \A key : DOMAIN Only(key) = {key}
  BY DEF Restrict
<1>4. \A c, key : key \notin DOMAIN c => Of(c, key) = {}
  BY ChangesApart
<1>5. \A key \in DOMAIN changes : Of(changes, key) = Of(Only(key), key)
  BY ChangesApart
<1> HIDE DEF Of, Only
<1>6. \A c, p : p \in Parsed(c).problems <=> \E key \in DOMAIN c : p \in Of(c, key)
  BY <1>1, <1>2, <1>4
<1>7. \A key \in DOMAIN changes : \A p : p \in Parsed(Only(key)).problems <=> p \in Of(changes, key)
  BY <1>3, <1>5, <1>6
<1>8. Parsed(changes).problems = UNION {Parsed(Only(key)).problems : key \in DOMAIN changes}
  BY <1>6, <1>7
<1> QED BY <1>8 DEF Only

(* Every problem of a payload is reported, and only those, whatever keys   *)
(* are wrong (envelope.py 490-525).                                        *)
THEOREM ProblemsAreComplete == Spec => []NoProblemHidesAnother
<1>1. Init => NoProblemHidesAnother
  BY ProblemsByChange DEF NoProblemHidesAnother
<1>2. NoProblemHidesAnother /\ [Next]_call => NoProblemHidesAnother'
  BY CallStays DEF NoProblemHidesAnother
<1> QED BY <1>1, <1>2, PTL DEF Spec

(* What from_dict accepts, and what it makes of it.                        *)
EnvelopeOf(fields) ==
    [name \in Field |-> IF name \in DOMAIN fields THEN fields[name] ELSE Null]

Accepts(fields) ==
    /\ DOMAIN fields \subseteq Field /\ Required \subseteq DOMAIN fields
    /\ \A key \in DOMAIN fields :
           (key \in Optional /\ fields[key] = Null) \/ FieldProblems(key, fields[key]) = {}

LEMMA AcceptedIff ==
    ASSUME NEW fields
    PROVE  /\ FromDict([object |-> fields]).problems = {} <=> Accepts(fields)
           /\ FromDict([object |-> fields]) =
                  [problems |-> FromDict([object |-> fields]).problems,
                   envelope |-> EnvelopeOf(fields)]
<1>1. FromDict([object |-> fields]).problems = {} <=>
          \A key \in Field \cup DOMAIN fields : KeyProblems(fields, key) = {}
  BY ProblemsByKey
<1>2. ASSUME \A key \in Field \cup DOMAIN fields : KeyProblems(fields, key) = {}
      PROVE  Accepts(fields)
  <2>1. DOMAIN fields \subseteq Field
    BY <1>2 DEF KeyProblems
  <2>2. Required \subseteq DOMAIN fields
    BY <1>2, FieldsApart DEF KeyProblems
  <2>3. ASSUME NEW key \in DOMAIN fields
        PROVE  (key \in Optional /\ fields[key] = Null) \/ FieldProblems(key, fields[key]) = {}
    BY <1>2, <2>1 DEF KeyProblems
  <2> QED BY <2>1, <2>2, <2>3 DEF Accepts
<1>3. ASSUME Accepts(fields), NEW key \in Field \cup DOMAIN fields
      PROVE  KeyProblems(fields, key) = {}
  BY <1>3 DEF Accepts, KeyProblems
<1>4. FromDict([object |-> fields]) =
          [problems |-> FromDict([object |-> fields]).problems, envelope |-> EnvelopeOf(fields)]
  BY DEF FromDict, EnvelopeOf, Is
<1> QED BY <1>1, <1>2, <1>3, <1>4

(* A field without problems is a text or a number, or the data.            *)
LEMMA FieldTells ==
    ASSUME NEW key \in Field, NEW value, FieldProblems(key, value) = {}
    PROVE  /\ key # "data" => Is("text", value) \/ Is("int", value)
           /\ key = "data" => Is("object", value) /\ DataProblems(value) = {}
<1>1. CASE key = "data"
  <2>1. DataProblems(value) = {}
    BY <1>1 DEF FieldProblems
  <2>2. Is("object", value)
    BY <2>1 DEF DataProblems
  <2> QED BY <1>1, <2>1, <2>2
<1>2. CASE key # "data"
  <2> SUFFICES ASSUME ~Is("text", value), ~Is("int", value) PROVE FALSE
    BY <1>2
  <2>1. \A max, fits : TextProblem(value, max, fits) = {"not_a_string"}
    BY DEF TextProblem, FormProblem
  <2>2. \A fits : FormProblem(value, fits) = {"not_a_string"}
    BY DEF FormProblem
  <2>3. TimeProblem(value) = {"not_a_string"}
    BY DEF TimeProblem, FormProblem
  <2>4. AttemptProblem(value) = {"not_an_integer"}
    BY DEF AttemptProblem
  <2> DEFINE one ==
        CASE key = "type" -> TextProblem(value, MaxType, IsEventType(value.text))
          [] key = "source" -> TextProblem(value, MaxSource, IsSource(value.text))
          [] key = "time" -> TimeProblem(value)
          [] key = "schemaVersion" -> TextProblem(value, MaxVersion, IsVersion(value.text))
          [] key = "traceparent" -> FormProblem(value, IsTraceparent(value.text))
          [] key = "deliveryAttempt" -> AttemptProblem(value)
          [] OTHER -> TextProblem(value, MaxId, IsIdentifier(value.text))
  <2>5. FieldProblems(key, value) = {<<<<key>>, code>> : code \in one}
    BY <1>2 DEF FieldProblems
  <2>6. one \in {{"not_a_string"}, {"not_an_integer"}}
    BY <2>1, <2>2, <2>3, <2>4
  <2> HIDE DEF one
  <2>7. PICK code \in one : TRUE
    BY <2>6
  <2>8. <<<<key>>, code>> \in FieldProblems(key, value)
    BY <2>5
  <2> QED BY <2>8
<1> QED BY <1>1, <1>2

(* Reading back what was written of a text, a number or nothing.           *)
LEMMA LoadsPlain ==
    ASSUME NEW value, IsOneKind(value),
           Is("text", value) \/ Is("int", value) \/ Is("null", value)
    PROVE  Loads(value) = value
<1>1. ~Is("object", value) /\ ~Is("array", value) /\ ~Is("tuple", value)
  BY DEF IsOneKind, Is
<1> QED BY <1>1 DEF Loads

LEMMA LoadsNull == Loads(Null) = Null
<1>1. IsOneKind(Null) /\ Is("null", Null)
  BY DEF IsOneKind, Is, Null
<1> QED BY <1>1, LoadsPlain

(* A tuple that is an array from now on has the same problems.             *)
LEMMA LoadsData ==
    ASSUME NEW value, IsValue(value), Is("object", value), DataProblems(value) = {}
    PROVE  Is("object", Loads(value)) /\ DataProblems(Loads(value)) = {}
<1> DEFINE items == value.object
           loaded == LoadsItems(items)
<1>1. Loads(value) = [object |-> loaded]
  <2>1. ~Is("array", value) /\ ~Is("tuple", value)
    BY DEF IsValue, IsOneKind, Is
  <2> QED BY <2>1 DEF Loads
<1>2. DOMAIN loaded = DOMAIN items /\ Walked(loaded) = Walked(items)
  BY DEF LoadsItems, Walked
<1>3. ASSUME NEW path \in Walked(items) PROVE PathProblems(loaded, path) = {}
  <2>1. path \in DOMAIN items /\ IsOneKind(items[path]) /\ PathProblems(items, path) = {}
    BY <1>3 DEF IsValue, DataProblems, Walked
  <2>2. path[Len(path)] # BadKey
    BY <2>1 DEF PathProblems
  <2>3. ItemProblem(items[path], Len(path)) = {}
    BY <2>1, <2>2 DEF PathProblems
  <2>4. ItemProblem(loaded[path], Len(path)) = {}
    <3>1. CASE ~Is("tuple", items[path])
      <4>1. loaded[path] = items[path]
        BY <2>1, <3>1 DEF LoadsItems
      <4> QED BY <2>3, <4>1
    <3>2. CASE Is("tuple", items[path])
      <4>1. loaded[path] = AnArray
        BY <2>1, <3>2 DEF LoadsItems
      <4>2. ~Is("real", items[path]) /\ ~Is("alien", items[path]) /\ IsContainer(items[path])
        BY <2>1, <3>2 DEF IsOneKind, Is, IsContainer
      <4>3. ~(Len(path) >= MaxDepth)
        BY <2>3, <4>2 DEF ItemProblem
      <4>4. ~Is("real", AnArray) /\ ~Is("alien", AnArray) /\ IsContainer(AnArray)
        BY DEF AnArray, Is, IsContainer
      <4> QED BY <4>1, <4>3, <4>4 DEF ItemProblem
    <3> QED BY <3>1, <3>2
  <2> QED BY <2>2, <2>4 DEF PathProblems
<1> HIDE DEF loaded, items
<1>4. Is("object", [object |-> loaded]) /\ [object |-> loaded].object = loaded
  BY DEF Is
<1>5. DataProblems([object |-> loaded]) = {}
  BY <1>2, <1>3, <1>4 DEF DataProblems
<1> QED BY <1>1, <1>4, <1>5

(* The walk of accepted data has been everywhere: it did not stop at a bad *)
(* key, which it would have reported, nor at a container too deep.         *)
LEMMA DataIsWalked ==
    ASSUME NEW value, IsValue(value), Is("object", value), DataProblems(value) = {},
           NEW path \in DOMAIN value.object
    PROVE  ItemProblem(value.object[path], Len(path)) = {}
<1> DEFINE items == value.object
           length == Len(path)
<1>1. /\ path \in Seq(Range(path)) /\ length \in Nat /\ length > 0
      /\ \A n \in 1..(length - 1) : /\ SubSeq(path, 1, n) \in DOMAIN items
                                    /\ IsContainer(items[SubSeq(path, 1, n)])
  <2>1. IsTree(items)
    BY DEF IsValue
  <2>2. path \in Seq(Range(path)) /\ path # <<>>
    BY <2>1 DEF IsTree
  <2> QED BY <2>1, <2>2 DEF IsTree
<1>2. ASSUME NEW walked \in Walked(items)
      PROVE  /\ walked[Len(walked)] # BadKey
             /\ ItemProblem(items[walked], Len(walked)) = {}
  <2>1. PathProblems(items, walked) = {}
    BY DEF DataProblems
  <2>2. walked[Len(walked)] # BadKey
    BY <2>1 DEF PathProblems
  <2> QED BY <2>1, <2>2 DEF PathProblems
<1>3. MaxDepth \in Nat /\ MaxDepth > 0
  BY DepthAssumption
<1> DEFINE bad == {i \in 1..length : path[i] = BadKey}
<1>4. \A n \in 1..(length - 1) :
          /\ Len(SubSeq(path, 1, n)) = n
          /\ \A i \in 1..n : SubSeq(path, 1, n)[i] = path[i]
  BY <1>1
<1> HIDE DEF items, length, bad
<1>5. ASSUME NEW n \in 1..(length - 1), n <= MaxDepth, \A i \in 1..(n - 1) : path[i] # BadKey
      PROVE  SubSeq(path, 1, n) \in Walked(items)
  <2> DEFINE above == SubSeq(path, 1, n)
  <2>1. above \in DOMAIN items /\ Len(above) = n
    BY <1>1, <1>4
  <2>2. \A i \in 1..(n - 1) : i \in 1..n /\ above[i] = path[i]
    BY <1>1, <1>4
  <2> HIDE DEF above
  <2>3. above \in Walked(items)
    BY <1>5, <2>1, <2>2 DEF Walked
  <2> QED BY <2>3 DEF above
<1>6. ASSUME length <= MaxDepth, \A i \in 1..(length - 1) : path[i] # BadKey
      PROVE  path \in Walked(items)
  BY <1>1, <1>6 DEF Walked, items, length
<1>7. \A i \in 1..length : i <= MaxDepth => path[i] # BadKey
  <2> SUFFICES ASSUME NEW first \in bad, \A i \in bad : first <= i, first <= MaxDepth
               PROVE  FALSE
    <3>1. bad # {} => \E first \in bad : \A i \in bad : first <= i
      <4>1. bad \subseteq Nat
        BY <1>1 DEF bad
      <4> QED BY <4>1, LeastNat
    <3> QED BY <1>1, <1>3, <3>1 DEF bad
  <2>1. first \in 1..length /\ path[first] = BadKey /\ \A i \in 1..(first - 1) : path[i] # BadKey
    BY <1>1 DEF bad
  <2>2. CASE first < length
    <3>1. SubSeq(path, 1, first) \in Walked(items)
      BY <1>1, <1>5, <2>1, <2>2
    <3>2. Len(SubSeq(path, 1, first)) = first /\ SubSeq(path, 1, first)[first] = BadKey
      BY <1>1, <1>4, <2>1, <2>2
    <3> QED BY <1>2, <3>1, <3>2
  <2>3. CASE first = length
    <3>1. path \in Walked(items)
      BY <1>6, <2>1, <2>3
    <3> QED BY <1>2, <2>1, <2>3, <3>1 DEF length
  <2> QED BY <1>1, <2>1, <2>2, <2>3
<1>8. length <= MaxDepth
  <2> SUFFICES ASSUME length > MaxDepth PROVE FALSE
    BY <1>1, <1>3
  <2> DEFINE above == SubSeq(path, 1, MaxDepth)
  <2>1. MaxDepth \in 1..(length - 1)
    BY <1>1, <1>3
  <2>2. above \in Walked(items) /\ Len(above) = MaxDepth /\ IsContainer(items[above])
    BY <1>1, <1>3, <1>4, <1>5, <1>7, <2>1
  <2>3. ItemProblem(items[above], MaxDepth) = {}
    BY <1>2, <2>2
  <2>4. above \in DOMAIN items /\ IsOneKind(items[above])
    BY <2>2 DEF Walked, IsValue, items
  <2>5. ItemProblem(items[above], MaxDepth) = {"too_deep"}
    <3> HIDE DEF above
    <3>1. ~Is("real", items[above]) /\ ~Is("alien", items[above])
      BY <2>2, <2>4 DEF IsOneKind, Is, IsContainer
    <3> QED BY <1>3, <2>2, <3>1 DEF ItemProblem
  <2> QED BY <2>3, <2>5
<1>9. path \in Walked(items)
  BY <1>1, <1>3, <1>6, <1>7, <1>8
<1> QED BY <1>2, <1>9 DEF items, length

(* The event that a payload is taken for, written and read again.          *)
Told(event) == [name \in Field |-> Loads(event[name])]

Written(event) == {name \in Field : name = "data" \/ event[name] # Null}

LEMMA WrittenEvent ==
    ASSUME NEW event
    PROVE  /\ ToDict(event) = [object |-> [name \in Written(event) |-> event[name]]]
           /\ LoadsObject(ToDict(event)) =
                  [object |-> [name \in Written(event) |-> Loads(event[name])]]
<1>1. ToDict(event) = [object |-> [name \in Written(event) |-> event[name]]]
  BY DEF ToDict, Restrict, Written
<1>2. LoadsObject([object |-> [name \in Written(event) |-> event[name]]]) =
          [object |-> [name \in Written(event) |-> Loads(event[name])]]
  BY DEF LoadsObject
<1> QED BY <1>1, <1>2

(* What is known of each field of an accepted event.                       *)
LEMMA AcceptedField ==
    ASSUME NEW fields, Accepts(fields), \A key \in DOMAIN fields : IsValue(fields[key]),
           NEW name \in Written(EnvelopeOf(fields))
    PROVE  LET value == EnvelopeOf(fields)[name]
           IN  /\ name \in Field /\ IsValue(value)
               /\ FieldProblems(name, value) = {} /\ FieldProblems(name, Loads(value)) = {}
               /\ name # "data" => Loads(value) = value /\ (Is("text", value) \/ Is("int", value))
               /\ name = "data" => Is("object", value) /\ DataProblems(value) = {}
<1> DEFINE value == EnvelopeOf(fields)[name]
<1>1. name \in Field /\ (name = "data" \/ value # Null)
  BY DEF Written
<1>2. name \in DOMAIN fields /\ value = fields[name]
  <2>1. name \in Required \/ value # Null
    BY <1>1 DEF Required
  <2> QED BY <1>1, <2>1 DEF Accepts, EnvelopeOf
<1>3. "data" \notin Optional
  BY DEF Optional
<1> HIDE DEF value
<1>4. FieldProblems(name, value) = {} /\ IsValue(value)
  BY <1>1, <1>2, <1>3 DEF Accepts
<1>5. CASE name = "data"
  <2>1. Is("object", value) /\ DataProblems(value) = {}
    BY <1>1, <1>4, <1>5, FieldTells
  <2>2. DataProblems(Loads(value)) = {}
    BY <1>4, <2>1, LoadsData
  <2>3. FieldProblems(name, Loads(value)) = {}
    BY <1>5, <2>2 DEF FieldProblems
  <2> QED BY <1>1, <1>4, <1>5, <2>1, <2>3 DEF value
<1>6. CASE name # "data"
  <2>1. Is("text", value) \/ Is("int", value)
    BY <1>1, <1>4, <1>6, FieldTells
  <2>2. Loads(value) = value
    BY <1>4, <2>1, LoadsPlain DEF IsValue
  <2> QED BY <1>1, <1>4, <1>6, <2>1, <2>2 DEF value
<1> QED BY <1>5, <1>6

(* An accepted event is accepted again, and is the same.                   *)
LEMMA EventComesBack ==
    ASSUME NEW fields, Accepts(fields), \A key \in DOMAIN fields : IsValue(fields[key])
    PROVE  LET event == EnvelopeOf(fields)
           IN  FromDict(LoadsObject(ToDict(event))) = [problems |-> {}, envelope |-> Told(event)]
<1> DEFINE event == EnvelopeOf(fields)
           back == [name \in Written(event) |-> Loads(event[name])]
<1> HIDE DEF event
<1>1. LoadsObject(ToDict(event)) = [object |-> back]
  BY WrittenEvent
<1>2. Required \subseteq Written(event)
  <2> SUFFICES ASSUME NEW name \in Required, name # "data" PROVE event[name] # Null
    BY FieldsApart DEF Written
  <2>1. name \in Field /\ name \in DOMAIN fields /\ event[name] = fields[name] /\ name \notin Optional
    BY FieldsApart DEF Accepts, event, EnvelopeOf
  <2>2. FieldProblems(name, event[name]) = {}
    BY <2>1 DEF Accepts
  <2>3. Is("text", event[name]) \/ Is("int", event[name])
    BY <2>1, <2>2, FieldTells
  <2> QED BY <2>3 DEF Is, Null
<1>3. Written(event) \subseteq Field
  BY DEF Written
<1>4. \A name \in Written(event) : FieldProblems(name, back[name]) = {}
  BY AcceptedField DEF event
<1>5. \A name \in Field :
          (IF name \in Written(event) THEN Loads(event[name]) ELSE Null) = Loads(event[name])
  BY LoadsNull DEF Written
<1>6. DOMAIN back = Written(event) /\ \A name \in Written(event) : back[name] = Loads(event[name])
  OBVIOUS
<1> HIDE DEF back
<1>7. Accepts(back)
  BY <1>2, <1>3, <1>4, <1>6 DEF Accepts
<1>8. EnvelopeOf(back) = Told(event)
  BY <1>5, <1>6 DEF EnvelopeOf, Told
<1>9. FromDict([object |-> back]) = [problems |-> {}, envelope |-> Told(event)]
  BY <1>7, <1>8, AcceptedIff
<1> QED BY <1>1, <1>9 DEF event

(* An accepted event can be written.                                       *)
LEMMA EventIsWritten ==
    ASSUME NEW fields, Accepts(fields), \A key \in DOMAIN fields : IsValue(fields[key])
    PROVE  Dumps(ToDict(EnvelopeOf(fields)))
<1> DEFINE event == EnvelopeOf(fields)
<1>1. SUFFICES ASSUME NEW name \in Written(event), NEW value \in Contents(event[name])
               PROVE  ~Is("alien", value) /\ value # [real |-> "nan"]
  BY WrittenEvent DEF Dumps
<1>2. CASE name # "data"
  <2>1. IsOneKind(event[name]) /\ (Is("text", event[name]) \/ Is("int", event[name]))
    BY <1>2, AcceptedField DEF IsValue
  <2>2. ~IsContainer(event[name])
    BY <2>1 DEF IsOneKind, Is, IsContainer
  <2>3. value = event[name]
    BY <1>1, <2>2 DEF Contents
  <2>4. ~Is("alien", value) /\ ~Is("real", value)
    BY <2>1, <2>3 DEF IsOneKind, Is
  <2> QED BY <2>4 DEF Is
<1>3. CASE name = "data"
  <2> DEFINE items == event[name].object
  <2>1. IsValue(event[name]) /\ Is("object", event[name]) /\ DataProblems(event[name]) = {}
    BY <1>3, AcceptedField
  <2>2. PICK path \in DOMAIN items : value = items[path]
    <3>1. IsContainer(event[name])
      BY <2>1 DEF IsContainer
    <3>2. (CHOOSE kind \in DOMAIN event[name] : TRUE) = "object"
      BY <2>1 DEF IsValue, IsOneKind, Is
    <3>3. event[name]["object"] = items
      OBVIOUS
    <3> HIDE DEF event
    <3> QED BY <1>1, <3>1, <3>2, <3>3 DEF Contents
  <2>3. ItemProblem(value, Len(path)) = {} /\ IsOneKind(value)
    BY <2>1, <2>2, DataIsWalked DEF IsValue
  <2>4. ~Is("alien", value)
    <3>1. ~(Is("alien", value) /\ Is("real", value))
      BY <2>3 DEF IsOneKind, Is
    <3>2. ~(Is("alien", value) /\ IsContainer(value))
      BY <2>3 DEF IsOneKind, Is, IsContainer
    <3> QED BY <2>3, <3>1, <3>2 DEF ItemProblem
  <2>5. ASSUME value = [real |-> "nan"] PROVE FALSE
    <3>1. Is("real", value) /\ value.real # "finite" /\ ~Is("alien", value) /\ ~IsContainer(value)
      BY <2>5 DEF Is, IsContainer
    <3> QED BY <2>3, <3>1 DEF ItemProblem
  <2> QED BY <2>4, <2>5
<1> QED BY <1>2, <1>3

(* The time of a valid event is a text.                                    *)
LEMMA BaseTime == Is("text", Base["time"]) /\ IsOneKind(Base["time"])
<1> DEFINE value == Base["time"]
<1>1. "time" \in Required /\ "time" \in Field /\ "time" \notin Optional
  BY DEF Required, Optional, Field
<1>2. Accepts(Base)
  BY BaseAssumption, AcceptedIff
<1>3. "time" \in DOMAIN Base /\ FieldProblems("time", value) = {}
  BY <1>1, <1>2 DEF Accepts
<1>4. IsOneKind(value)
  BY <1>3, BaseAssumption DEF IsValue
<1> HIDE DEF value
<1>5. TimeProblem(value) = {}
  <2>1. FieldProblems("time", value) = {<<<<"time">>, code>> : code \in TimeProblem(value)}
    BY DEF FieldProblems
  <2>2. \A code \in TimeProblem(value) : <<<<"time">>, code>> \in FieldProblems("time", value)
    BY <2>1
  <2> QED BY <1>3, <2>2
<1>6. Is("text", value)
  <2> SUFFICES ASSUME ~Is("text", value) PROVE FALSE
    OBVIOUS
  <2>1. \A fits : FormProblem(value, fits) = {"not_a_string"}
    BY DEF FormProblem
  <2>2. TimeProblem(value) = {"not_a_string"}
    BY <2>1 DEF TimeProblem
  <2> QED BY <1>5, <2>2
<1> QED BY <1>4, <1>6 DEF value

(* A text made here is of one kind.                                        *)
LEMMA TextKind ==
    ASSUME NEW characters
    PROVE  /\ Is("text", TextOf(characters)) /\ IsOneKind(TextOf(characters))
           /\ TextOf(characters).text = characters /\ ~Unhashable(TextOf(characters))
           /\ TextOf(characters) # Null
BY DEF TextOf, Is, IsOneKind, Unhashable, Null

(* A record of the log comes back if its event does.                       *)
LEMMA RecordComesBack ==
    ASSUME NEW event, NEW told,
           FromDict(LoadsObject(ToDict(event))) = [problems |-> {}, envelope |-> told],
           NEW at, Is("text", at), IsOneKind(at), NEW characters
    PROVE  LET record == [seq |-> [int |-> 1], subscription |-> TextOf(characters),
                          recordedAt |-> at, envelope |-> event]
           IN  HistoryFromDict(LoadsRecord(HistoryToDict(record)))
                   = [record EXCEPT !.envelope = told]
<1> DEFINE record == [seq |-> [int |-> 1], subscription |-> TextOf(characters),
                      recordedAt |-> at, envelope |-> event]
           one == [int |-> 1]
           version == TextOf(<<"1">>)
           read == LoadsRecord(HistoryToDict(record)).object
           wire == [storeFormatVersion |-> version, seq |-> one,
                    subscription |-> TextOf(characters), recordedAt |-> at,
                    event |-> ToDict(event)]
<1>1. Is("int", one) /\ IsOneKind(one) /\ one.int = 1
  BY DEF Is, IsOneKind
<1>2. /\ Loads(one) = one /\ Loads(version) = version /\ Loads(at) = at
      /\ Loads(TextOf(characters)) = TextOf(characters)
  BY <1>1, TextKind, LoadsPlain
<1>3. HistoryToDict(record) = [object |-> wire]
  BY DEF HistoryToDict
<1>4. LoadsRecord([object |-> wire]) =
          [object |-> [key \in DOMAIN wire |-> IF key = "event" THEN LoadsObject(wire[key])
                                                                ELSE Loads(wire[key])]]
  BY DEF LoadsRecord
<1>5. LoadsRecord([object |-> wire]) = [object |-> read]
  BY <1>3, <1>4
<1>6. /\ DOMAIN read = {"storeFormatVersion", "seq", "subscription", "recordedAt", "event"}
      /\ read["storeFormatVersion"] = version /\ read["seq"] = one
      /\ read["subscription"] = TextOf(characters) /\ read["recordedAt"] = at
      /\ read["event"] = LoadsObject(ToDict(event))
  BY <1>2, <1>3, <1>4
<1> HIDE DEF read, one, version
<1>7. ~Unhashable(version) /\ version \in Formats
  BY TextKind DEF version, Formats
<1>8. HistoryKeys \subseteq DOMAIN read
  BY <1>6 DEF HistoryKeys
<1>9. StrOf(TextOf(characters)) = TextOf(characters) /\ StrOf(at) = at
  BY TextKind DEF StrOf
<1>10. Is("object", [object |-> read]) /\ [object |-> read].object = read
  BY DEF Is
<1>11. ~(one.int < 1)
  BY <1>1
<1>12. HistoryFromDict([object |-> read]) =
           [seq |-> one, subscription |-> TextOf(characters), recordedAt |-> at, envelope |-> told]
  BY <1>1, <1>6, <1>7, <1>8, <1>9, <1>10, <1>11 DEF HistoryFromDict
<1>13. [record EXCEPT !.envelope = told] =
           [seq |-> one, subscription |-> TextOf(characters), recordedAt |-> at, envelope |-> told]
  BY DEF one
<1> QED BY <1>3, <1>5, <1>12, <1>13

(* The fields of a changed payload are values.                             *)
LEMMA ChangedValues ==
    ASSUME NEW changes \in Changes
    PROVE  \A key \in DOMAIN Changed(changes) : IsValue(Changed(changes)[key])
BY ChangeAssumption, BaseAssumption DEF Changed, Override

(* An accepted event survives the wire and the store, whatever its data    *)
(* holds (envelope.py 466-525, backend.py 83-146).                         *)
THEOREM EventsComeBack == Spec => []EnvelopesComeBack
<1>1. Init => EnvelopesComeBack
  <2> SUFFICES ASSUME Init, call.of = "envelope", Parsed(call.changes).problems = {}
               PROVE  LET event == Parsed(call.changes).envelope
                          same == [name \in Field |-> Loads(event[name])]
                          record == [seq |-> [int |-> 1], subscription |-> TextOf(<<"a">>),
                                     recordedAt |-> Base["time"], envelope |-> event]
                      IN  /\ Dumps(ToDict(event))
                          /\ FromDict(LoadsObject(ToDict(event))) =
                                 [problems |-> {}, envelope |-> same]
                          /\ HistoryFromDict(LoadsRecord(HistoryToDict(record))) =
                                 [record EXCEPT !.envelope = same]
    BY DEF EnvelopesComeBack
  <2> DEFINE fields == Changed(call.changes)
             event == EnvelopeOf(fields)
  <2>1. call.changes \in Changes
    BY DEF Init
  <2>2. Override(Base, call.changes) = [object |-> fields]
    BY DEF Changed, Override
  <2>3. Accepts(fields) /\ Parsed(call.changes).envelope = event
    <3> DEFINE answer == FromDict([object |-> fields])
    <3>1. Parsed(call.changes) = answer
      BY <2>2 DEF Parsed
    <3>2. answer = [problems |-> answer.problems, envelope |-> event]
      BY AcceptedIff
    <3>3. answer.problems = {} => Accepts(fields)
      BY AcceptedIff
    <3> HIDE DEF answer, event, fields
    <3>4. answer.envelope = event
      BY <3>2
    <3> QED BY <3>1, <3>3, <3>4
  <2>4. \A key \in DOMAIN fields : IsValue(fields[key])
    BY <2>1, ChangedValues
  <2> HIDE DEF fields
  <2>5. Dumps(ToDict(event))
    BY <2>3, <2>4, EventIsWritten
  <2>6. FromDict(LoadsObject(ToDict(event))) = [problems |-> {}, envelope |-> Told(event)]
    BY <2>3, <2>4, EventComesBack
  <2> HIDE DEF event
  <2> DEFINE record == [seq |-> [int |-> 1], subscription |-> TextOf(<<"a">>),
                        recordedAt |-> Base["time"], envelope |-> event]
  <2>7. HistoryFromDict(LoadsRecord(HistoryToDict(record)))
            = [record EXCEPT !.envelope = Told(event)]
    BY <2>6, BaseTime, RecordComesBack
  <2> HIDE DEF record
  <2>8. Told(event) = [name \in Field |-> Loads(event[name])]
    BY DEF Told
  <2> QED BY <2>3, <2>5, <2>6, <2>7, <2>8 DEF record
<1>2. EnvelopesComeBack /\ [Next]_call => EnvelopesComeBack'
  BY CallStays DEF EnvelopesComeBack
<1> QED BY <1>1, <1>2, PTL DEF Spec

-----------------------------------------------------------------------------
(* A name the registry takes is a text the store takes.                    *)
LEMMA NamesAgree ==
    ASSUME NEW name, NameProblems(name) = {},
           name # Null => name = [text |-> name.text] /\ name.text \in Seq(Range(name.text))
    PROVE  name = TextOf(name.text) /\ name.text \in Seq(Range(name.text)) /\ IsStoreName(name)
<1>1. Is("text", name) /\ name.text # <<>>
  BY DEF NameProblems
<1>2. name # Null
  BY <1>1 DEF Is, Null
<1>3. name = TextOf(name.text) /\ name.text \in Seq(Range(name.text))
  BY <1>2 DEF TextOf
<1>4. ~(Len(name.text) > MaxName) /\ IsSlug(name.text)
  <2>1. \A code \in {"too_long", "reserved_mqtt_char", "malformed"} :
            ~ \/ code = "too_long" /\ Len(name.text) > MaxName
              \/ code = "reserved_mqtt_char" /\ Range(name.text) \cap {"#", "+", "/"} # {}
              \/ code = "malformed" /\ (~IsSlug(name.text) \/ Climbs(name.text))
    BY <1>1 DEF NameProblems
  <2> QED BY <2>1
<1>5. Len(BeforeLine(name.text)) \in Nat /\ Len(BeforeLine(name.text)) <= Len(name.text)
  BY <1>1, <1>3 DEF BeforeLine, Front
<1>6. Len(BeforeLine(name.text)) <= MaxName
  BY <1>3, <1>4, <1>5, MaxNameAssumption
<1> QED BY <1>1, <1>3, <1>4, <1>6 DEF IsStoreName

(* A file tells the name it was made for.                                  *)
LEMMA StemOfPath ==
    ASSUME NEW name, name = TextOf(name.text), name.text \in Seq(Range(name.text))
    PROVE  Stem(PathOf(name)) = name
<1> DEFINE text == name.text
           end == Suffix
           S == Range(text) \cup Range(end)
<1>1. text \in Seq(S) /\ end \in Seq(S) /\ Len(end) = 2
  BY DEF Suffix, Range
<1> HIDE DEF text, end, S
<1>2. Len(text) \in Nat /\ Len(text \o end) = Len(text) + Len(end)
  BY <1>1, LenProperties, ConcatProperties
<1>3. SubSeq(text \o end, 1, Len(text)) = text
  BY <1>1, <1>2, SubSeqOfConcat1, SubSeqFull, SubSeqEmpty, EmptySeq
<1>4. Len(text \o end) - Len(end) = Len(text)
  BY <1>1, <1>2
<1>5. SubSeq(text \o end, 1, Len(text \o end) - Len(end)) = text
  BY <1>3, <1>4
<1> QED BY <1>5 DEF Stem, PathOf, text, end

(* What `sub add` writes are texts under exactly the record's keys.        *)
LEMMA RegisteredIsRecord ==
    ASSUME NEW name, Is("text", name)
    PROVE  /\ DOMAIN Registered(name) = RecordKeys
           /\ Registered(name) = [key \in RecordKeys |-> Registered(name)[key]]
           /\ \A key \in RecordKeys : Is("text", Registered(name)[key])
           /\ Registered(name)["registryFormatVersion"] = TextOf(<<"1">>)
           /\ Registered(name).name = name
<1>1. Registered(name) =
          [registryFormatVersion |-> TextOf(<<"1">>), name |-> name, pattern |-> TextOf(<<"*">>),
           filter |-> TextOf(<<"+">>), clientId |-> ClientIdFor(name), created |-> Base["time"],
           owner |-> ClientIdFor(name)]
  BY DEF Registered, NewRecord
<1>2. \A characters : Is("text", TextOf(characters))
  BY TextKind
<1>3. Is("text", ClientIdFor(name))
  BY <1>2 DEF ClientIdFor
<1> DEFINE at == Base["time"]
           id == ClientIdFor(name)
           one == TextOf(<<"1">>)
           star == TextOf(<<"*">>)
           plus == TextOf(<<"+">>)
<1>4. Is("text", at)
  BY BaseTime
<1>5. Is("text", one) /\ Is("text", star) /\ Is("text", plus)
  BY <1>2
<1> HIDE DEF at, id, one, star, plus
<1>6. Is("text", id)
  BY <1>3 DEF id
<1>7. Registered(name) =
          [registryFormatVersion |-> one, name |-> name, pattern |-> star, filter |-> plus,
           clientId |-> id, created |-> at, owner |-> id]
  BY <1>1 DEF at, id, one, star, plus
<1> DEFINE record == [registryFormatVersion |-> one, name |-> name, pattern |-> star,
                      filter |-> plus, clientId |-> id, created |-> at, owner |-> id]
<1>8. DOMAIN record = RecordKeys
  BY DEF RecordKeys
<1>9. record = [key \in RecordKeys |-> record[key]]
  BY DEF RecordKeys
<1>10. \A key \in RecordKeys : Is("text", record[key])
  BY <1>4, <1>5, <1>6 DEF RecordKeys
<1>11. record["registryFormatVersion"] = one /\ record.name = name
  OBVIOUS
<1> HIDE DEF record
<1>12. Registered(name) = record
  BY <1>7 DEF record
<1> QED BY <1>8, <1>9, <1>10, <1>11, <1>12 DEF one

(* What a record is read as, from the file of a name.                      *)
LEMMA LoadTells ==
    ASSUME NEW fields, NEW file, Stem(PathOf(file)) = file
    PROVE  LET read == Load(PathOf(file), [object |-> fields])
               record == RecordFromDict([object |-> fields])
           IN  /\ ~Is("refused", read) => read.name = file
               /\ ~Is("refused", record) =>
                      read = IF record.name = file THEN record ELSE Refused("Corrupt")
<1>1. [object |-> fields] # NotJson
  <2>1. "object" \in DOMAIN [object |-> fields] /\ "object" \notin DOMAIN NotJson
    BY DEF NotJson
  <2> QED BY <2>1
<1> DEFINE record == RecordFromDict([object |-> fields])
<1>2. Load(PathOf(file), [object |-> fields]) =
          IF ~Is("refused", record) /\ record.name # file THEN Refused("Corrupt") ELSE record
  BY <1>1 DEF Load
<1>3. Is("refused", Refused("Corrupt"))
  BY DEF Refused, Is
<1> HIDE DEF record
<1> QED BY <1>2, <1>3 DEF record

(* Keys this build does not know change nothing.                           *)
LEMMA RecordIsRead ==
    ASSUME NEW name, Is("text", name), NEW edits, DOMAIN edits \cap RecordKeys = {}
    PROVE  RecordFromDict(Override(Registered(name), edits)) = Registered(name)
<1> DEFINE record == Registered(name)
           fields == Override(record, edits).object
<1>1. Override(record, edits) = [object |-> fields]
  BY DEF Override
<1>2. /\ DOMAIN record = RecordKeys /\ record = [key \in RecordKeys |-> record[key]]
      /\ \A key \in RecordKeys : Is("text", record[key])
      /\ record["registryFormatVersion"] = TextOf(<<"1">>)
  BY RegisteredIsRecord
<1> HIDE DEF record
<1>3. RecordKeys \subseteq DOMAIN fields /\ \A key \in RecordKeys : fields[key] = record[key]
  BY <1>2 DEF Override
<1>4. "registryFormatVersion" \in RecordKeys
  BY DEF RecordKeys
<1> HIDE DEF fields
<1>5. Is("object", [object |-> fields]) /\ [object |-> fields].object = fields
  BY DEF Is
<1>6. ~Unhashable(TextOf(<<"1">>)) /\ TextOf(<<"1">>) \in Formats
  BY TextKind DEF Formats
<1>7. RecordFromDict([object |-> fields]) = Restrict(fields, RecordKeys)
  BY <1>2, <1>3, <1>4, <1>5, <1>6 DEF RecordFromDict
<1>8. Restrict(fields, RecordKeys) = [key \in RecordKeys |-> record[key]]
  BY <1>3 DEF Restrict
<1> QED BY <1>1, <1>2, <1>7, <1>8 DEF record

(* The store takes the names the registry takes; a record is found by its  *)
(* name only, and reads as what was written whatever other keys were added *)
(* (record.py 147-357, registry.py 102-165, history/__init__.py 112-141).  *)
THEOREM RegistryReadsBack == Spec => []RecordsComeBack
<1>1. Init => RecordsComeBack
  <2> SUFFICES ASSUME Init, call.of = "record", NameProblems(call.name) = {}
               PROVE  LET record == Registered(call.name)
                          read == Load(PathOf(call.file), Override(record, call.edits))
                      IN  /\ IsStoreName(call.name)
                          /\ DOMAIN call.edits \cap RecordKeys = {} =>
                                 (read = record <=> call.file = call.name)
                          /\ ~Is("refused", read) => read.name = call.file
    BY DEF RecordsComeBack
  <2> DEFINE name == call.name
             file == call.file
             record == Registered(name)
             read == Load(PathOf(file), Override(record, call.edits))
             fields == Override(record, call.edits).object
  <2>1. name \in Names \cup Others /\ (file = name \/ file \in Others)
    BY DEF Init
  <2>2. name = TextOf(name.text) /\ name.text \in Seq(Range(name.text)) /\ IsStoreName(name)
    BY <2>1, NameAssumption, NamesAgree
  <2>3. Is("text", name)
    BY <2>2, TextKind
  <2>4. Stem(PathOf(file)) = file
    <3>1. CASE file = name
      BY <2>2, <3>1, StemOfPath
    <3>2. CASE file \in Others
      <4>1. file = TextOf(file.text) /\ file.text \in Seq(Range(file.text))
        BY <3>2, NameAssumption DEF TextOf
      <4> QED BY <4>1, StemOfPath
    <3> QED BY <2>1, <3>1, <3>2
  <2>5. Override(record, call.edits) = [object |-> fields]
    BY DEF Override
  <2> HIDE DEF fields, name, file
  <2>6. ~Is("refused", read) => read.name = file
    BY <2>4, <2>5, LoadTells
  <2>7. ASSUME DOMAIN call.edits \cap RecordKeys = {}
        PROVE  read = record <=> file = name
    <3>1. RecordFromDict([object |-> fields]) = record
      BY <2>3, <2>5, <2>7, RecordIsRead
    <3>2. DOMAIN record = RecordKeys /\ record.name = name
      BY <2>3, RegisteredIsRecord
    <3>3. "refused" \notin RecordKeys /\ Is("refused", Refused("Corrupt"))
      BY DEF RecordKeys, Refused, Is
    <3>4. ~Is("refused", record) /\ record # Refused("Corrupt")
      BY <3>2, <3>3 DEF Is
    <3> HIDE DEF record
    <3>5. read = IF record.name = file THEN record ELSE Refused("Corrupt")
      BY <2>4, <2>5, <3>1, <3>4, LoadTells
    <3> QED BY <3>2, <3>4, <3>5
  <2> QED BY <2>2, <2>6, <2>7 DEF name, file
<1>2. RecordsComeBack /\ [Next]_call => RecordsComeBack'
  BY CallStays DEF RecordsComeBack
<1> QED BY <1>1, <1>2, PTL DEF Spec

-----------------------------------------------------------------------------
(* What FlattenSeq has joined after each piece.                            *)
Joins(f, s, n) == f = [i \in 1..n |-> IF i = 1 THEN s[i] ELSE f[i - 1] \o s[i]]

LEMMA JoinsExist ==
    ASSUME NEW s, NEW n \in Nat, n > 0
    PROVE  \E f : Joins(f, s, n)
<1> DEFINE Bad == {k \in Nat : k > 0 /\ ~\E f : Joins(f, s, k)}
<1>1. SUFFICES ASSUME Bad # {} PROVE FALSE
  OBVIOUS
<1>2. PICK k \in Bad : \A j \in Bad : k <= j
  <2>1. Bad \subseteq Nat
    OBVIOUS
  <2> HIDE DEF Bad
  <2> QED BY <1>1, <2>1, LeastNat
<1>3. k \in Nat /\ k > 0 /\ \A f : ~Joins(f, s, k)
  BY <1>2
<1>4. CASE k = 1
  <2> DEFINE g == [i \in 1..1 |-> s[i]]
  <2>1. Joins(g, s, 1)
    <3>1. g = [i \in 1..1 |-> IF i = 1 THEN s[i] ELSE g[i - 1] \o s[i]]
      OBVIOUS
    <3> HIDE DEF g
    <3> QED BY <3>1 DEF Joins
  <2> HIDE DEF g
  <2> QED BY <1>3, <1>4, <2>1
<1>5. CASE k # 1
  <2>1. k - 1 \in Nat /\ k - 1 > 0 /\ k - 1 \notin Bad
    BY <1>2, <1>3, <1>5
  <2>2. PICK f : Joins(f, s, k - 1)
    BY <2>1
  <2> DEFINE g == [i \in 1..k |-> IF i = k THEN f[k - 1] \o s[k] ELSE f[i]]
             h == [i \in 1..k |-> IF i = 1 THEN s[i] ELSE g[i - 1] \o s[i]]
  <2>3. ASSUME NEW i \in 1..k PROVE g[i] = h[i]
    <3>1. CASE i = k
      <4>0. k \in 1..k /\ k - 1 \in 1..k /\ k - 1 # k
        BY <1>3, <2>1
      <4>1. g[k] = f[k - 1] \o s[k]
        BY <4>0
      <4>2. g[k - 1] = f[k - 1]
        BY <4>0
      <4> HIDE DEF g
      <4>3. h[k] = g[k - 1] \o s[k]
        BY <4>0, <1>5
      <4> HIDE DEF h
      <4> QED BY <3>1, <4>1, <4>2, <4>3
    <3>2. CASE i # k
      <4>1. i \in 1..(k - 1)
        BY <1>3, <3>2
      <4>2. f[i] = IF i = 1 THEN s[i] ELSE f[i - 1] \o s[i]
        BY <2>2, <4>1 DEF Joins
      <4>3. g[i] = f[i]
        BY <1>3, <3>2
      <4>4. i # 1 => g[i - 1] = f[i - 1]
        BY <1>3, <4>1
      <4> HIDE DEF g
      <4>5. h[i] = IF i = 1 THEN s[i] ELSE g[i - 1] \o s[i]
        OBVIOUS
      <4> QED BY <4>2, <4>3, <4>4, <4>5
    <3> QED BY <3>1, <3>2
  <2>4. g = h
    <3>1. DOMAIN g = 1..k /\ DOMAIN h = 1..k
      OBVIOUS
    <3>2. g = [i \in 1..k |-> g[i]] /\ h = [i \in 1..k |-> h[i]]
      OBVIOUS
    <3> HIDE DEF g, h
    <3> QED BY <2>3, <3>2
  <2>5. Joins(g, s, k)
    <3> HIDE DEF g
    <3> QED BY <2>4 DEF Joins
  <2> HIDE DEF g
  <2> QED BY <1>3, <2>5
<1> QED BY <1>4, <1>5

LEMMA FlattenJoins ==
    ASSUME NEW s, NEW n \in Nat, n > 0, Len(s) = n
    PROVE  \E f : Joins(f, s, n) /\ FlattenSeq(s) = f[n]
<1> DEFINE F(f) == f = [i \in 1..n |-> IF i = 1 THEN s[i] ELSE f[i - 1] \o s[i]]
<1>1. FlattenSeq(s) = (CHOOSE f : F(f))[n]
  BY DEF FlattenSeq
<1>2. \E f : F(f)
  BY JoinsExist DEF Joins
<1> DEFINE f == CHOOSE g : F(g)
<1>3. F(f)
  <2> HIDE DEF F
  <2> QED BY <1>2
<1>4. FlattenSeq(s) = f[n]
  BY <1>1
<1> HIDE DEF f
<1> QED BY <1>3, <1>4 DEF Joins

(* Where the lines of ids.txt end, and what is written between.            *)
Lines(ids, file, end) ==
    /\ end[0] = 0 /\ end[Len(ids)] = Len(file)
    /\ \A i \in 0..Len(ids) : end[i] \in Nat
    /\ \A i \in 1..Len(ids) :
           /\ end[i] = end[i - 1] + Len(ids[i]) + 1
           /\ \A p \in 1..Len(ids[i]) : file[end[i - 1] + p] = ids[i][p]
           /\ file[end[i]] = "nl"

IsIdList(ids) ==
    /\ ids \in Seq(Range(ids))
    /\ \A n \in DOMAIN ids : ids[n] \in Seq(Range(ids[n])) /\ ids[n] # <<>>

CharactersOf(ids) == {"nl"} \cup UNION {Range(ids[i]) : i \in DOMAIN ids}

LEMMA IdsAreTexts ==
    ASSUME NEW ids, IsIdList(ids)
    PROVE  /\ Len(ids) \in Nat /\ DOMAIN ids = 1..Len(ids)
           /\ ids = [i \in 1..Len(ids) |-> ids[i]]
           /\ \A i \in 1..Len(ids) : /\ ids[i] \in Seq(CharactersOf(ids))
                                     /\ Len(ids[i]) \in Nat /\ Len(ids[i]) > 0
<1>1. ids \in Seq(Range(ids))
  BY DEF IsIdList
<1>2. Len(ids) \in Nat /\ DOMAIN ids = 1..Len(ids) /\ ids = [i \in 1..Len(ids) |-> ids[i]]
  BY <1>1, LenProperties
<1>3. ASSUME NEW i \in 1..Len(ids)
      PROVE  ids[i] \in Seq(CharactersOf(ids)) /\ Len(ids[i]) \in Nat /\ Len(ids[i]) > 0
  <2>1. ids[i] \in Seq(Range(ids[i])) /\ ids[i] # <<>>
    BY <1>2 DEF IsIdList
  <2>2. Range(ids[i]) \subseteq CharactersOf(ids)
    BY <1>2 DEF CharactersOf
  <2> QED BY <2>1, <2>2, SeqMonotonic, LenProperties, EmptySeq
<1> QED BY <1>2, <1>3

(* ids.txt is made of those lines.                                         *)
LEMMA SidecarHasLines ==
    ASSUME NEW ids, IsIdList(ids)
    PROVE  SidecarOf(ids) \in Seq(CharactersOf(ids)) /\ \E end : Lines(ids, SidecarOf(ids), end)
<1> DEFINE n == Len(ids)
           C == CharactersOf(ids)
           s == [i \in 1..n |-> Append(ids[i], "nl")]
           file == SidecarOf(ids)
<1>1. /\ n \in Nat /\ DOMAIN ids = 1..n
      /\ \A i \in 1..n : ids[i] \in Seq(C) /\ Len(ids[i]) \in Nat /\ Len(ids[i]) > 0
  BY IdsAreTexts
<1>2. "nl" \in C
  BY DEF CharactersOf
<1>3. file = FlattenSeq(s) /\ Len(s) = n
  BY <1>1 DEF SidecarOf
<1> HIDE DEF n, C, file
<1>4. CASE n = 0
  <2>1. s = <<>>
    BY <1>4
  <2>2. file = <<>>
    BY <1>3, <1>4, <2>1 DEF FlattenSeq
  <2> DEFINE end == [i \in 0..0 |-> 0]
  <2>3. file \in Seq(C) /\ Len(file) = 0
    BY <2>2, EmptySeq
  <2>4. end[0] = 0 /\ \A i \in 0..0 : end[i] \in Nat
    OBVIOUS
  <2> HIDE DEF end
  <2>5. Lines(ids, file, end)
    BY <1>4, <2>3, <2>4 DEF Lines, n
  <2> QED BY <2>3, <2>5 DEF file, C
<1>5. CASE n # 0
  <2>1. \A i \in 1..n : /\ s[i] \in Seq(C) /\ Len(s[i]) = Len(ids[i]) + 1
                        /\ \A p \in 1..Len(ids[i]) : s[i][p] = ids[i][p]
                        /\ s[i][Len(ids[i]) + 1] = "nl"
    BY <1>1, <1>2, AppendProperties
  <2> HIDE DEF s
  <2>2. PICK f : Joins(f, s, n) /\ file = f[n]
    <3>1. n \in Nat /\ n > 0
      BY <1>1, <1>5
    <3>2. \E f : Joins(f, s, n) /\ FlattenSeq(s) = f[n]
      BY <1>3, <3>1, FlattenJoins
    <3> QED BY <1>3, <3>2
  <2>3. f[1] = s[1] /\ \A i \in 2..n : f[i] = f[i - 1] \o s[i]
    <3>1. \A i \in 1..n : f[i] = IF i = 1 THEN s[i] ELSE f[i - 1] \o s[i]
      BY <2>2 DEF Joins
    <3>2. 1 \in 1..n /\ \A i \in 2..n : i \in 1..n /\ i # 1
      BY <1>1, <1>5
    <3> QED BY <3>1, <3>2
  <2>4. \A i \in 1..n : f[i] \in Seq(C)
    <3> DEFINE Bad == {i \in 1..n : f[i] \notin Seq(C)}
    <3> SUFFICES ASSUME Bad # {} PROVE FALSE
      OBVIOUS
    <3>1. PICK i \in Bad : \A j \in Bad : i <= j
      <4>1. Bad \subseteq Nat
        BY <1>1
      <4> HIDE DEF Bad
      <4> QED BY <4>1, LeastNat
    <3>2. i \in 1..n /\ f[i] \notin Seq(C) /\ i # 1
      BY <1>1, <1>5, <2>1, <2>3
    <3>3. i - 1 \in 1..n /\ i \in 2..n /\ i - 1 \notin Bad
      BY <1>1, <3>1, <3>2
    <3>4. f[i] = f[i - 1] \o s[i] /\ f[i - 1] \in Seq(C) /\ s[i] \in Seq(C)
      BY <2>1, <2>3, <3>3
    <3> QED BY <3>2, <3>4, ConcatProperties
  <2> DEFINE end == [i \in 0..n |-> IF i = 0 THEN 0 ELSE Len(f[i])]
  <2>5. end[0] = 0 /\ \A i \in 1..n : end[i] = Len(f[i])
    BY <1>1
  <2> HIDE DEF end
  <2>6. \A i \in 0..n : end[i] \in Nat
    BY <1>1, <2>4, <2>5, LenProperties
  <2>7. ASSUME NEW i \in 1..n
        PROVE  /\ end[i] = end[i - 1] + Len(ids[i]) + 1
               /\ \A p \in 1..(Len(ids[i]) + 1) : f[i][end[i - 1] + p] = s[i][p]
               /\ i > 1 => \A p \in 1..end[i - 1] : f[i][p] = f[i - 1][p]
    <3>1. CASE i = 1
      BY <1>1, <2>1, <2>3, <2>5, <3>1
    <3>2. CASE i # 1
      <4>1. i \in 2..n /\ i - 1 \in 1..n
        BY <1>1, <3>2
      <4>2. f[i] = f[i - 1] \o s[i] /\ f[i - 1] \in Seq(C) /\ s[i] \in Seq(C)
        BY <2>1, <2>3, <2>4, <4>1
      <4>3. /\ Len(f[i]) = Len(f[i - 1]) + Len(s[i])
            /\ \A p \in 1..(Len(f[i - 1]) + Len(s[i])) :
                   f[i][p] = IF p <= Len(f[i - 1]) THEN f[i - 1][p] ELSE s[i][p - Len(f[i - 1])]
        <5> DEFINE t == f[i - 1]
                   u == s[i]
        <5>1. f[i] = t \o u /\ t \in Seq(C) /\ u \in Seq(C)
          BY <4>2
        <5> HIDE DEF t, u
        <5>2. /\ Len(t \o u) = Len(t) + Len(u)
              /\ \A p \in 1..(Len(t) + Len(u)) :
                     (t \o u)[p] = IF p <= Len(t) THEN t[p] ELSE u[p - Len(t)]
          BY <5>1, ConcatProperties
        <5> QED BY <5>1, <5>2 DEF t, u
      <4>4. Len(f[i - 1]) = end[i - 1] /\ Len(f[i]) = end[i] /\ end[i - 1] \in Nat
        BY <2>5, <2>6, <4>1
      <4>5. Len(s[i]) = Len(ids[i]) + 1 /\ Len(ids[i]) \in Nat
        BY <1>1, <2>1
      <4>6. end[i] = end[i - 1] + Len(ids[i]) + 1
        <5>1. Len(f[i]) = Len(f[i - 1]) + Len(s[i])
          BY <4>3
        <5>2. end[i] = end[i - 1] + (Len(ids[i]) + 1)
          BY <5>1, <4>4, <4>5
        <5>3. \A b, c \in Nat : b + (c + 1) = b + c + 1
          OBVIOUS
        <5> QED BY <5>2, <5>3, <4>4, <4>5
      <4>7. ASSUME NEW p \in 1..(Len(ids[i]) + 1) PROVE f[i][end[i - 1] + p] = s[i][p]
        <5>1. /\ end[i - 1] + p \in 1..(Len(f[i - 1]) + Len(s[i]))
              /\ ~(end[i - 1] + p <= Len(f[i - 1])) /\ (end[i - 1] + p) - Len(f[i - 1]) = p
          BY <4>4, <4>5
        <5> QED BY <4>3, <5>1
      <4>8. ASSUME NEW p \in 1..end[i - 1] PROVE f[i][p] = f[i - 1][p]
        <5>1. p \in 1..(Len(f[i - 1]) + Len(s[i])) /\ p <= Len(f[i - 1])
          BY <4>4, <4>5
        <5> QED BY <4>3, <5>1
      <4> QED BY <4>6, <4>7, <4>8
    <3> QED BY <3>1, <3>2
  <2>8. ASSUME NEW i \in 1..n
        PROVE  \A m \in i..n : end[i] <= end[m] /\ \A p \in 1..end[i] : f[m][p] = f[i][p]
    <3> DEFINE Kept(m) == end[i] <= end[m] /\ \A p \in 1..end[i] : f[m][p] = f[i][p]
               Bad == {m \in i..n : ~Kept(m)}
    <3> SUFFICES ASSUME Bad # {} PROVE FALSE
      OBVIOUS
    <3>1. PICK m \in Bad : \A j \in Bad : m <= j
      <4>1. Bad \subseteq Nat
        BY <1>1
      <4> HIDE DEF Bad
      <4> QED BY <4>1, LeastNat
    <3>2. m \in i..n /\ ~Kept(m) /\ i \in Nat /\ n \in Nat
      BY <1>1, <3>1
    <3>3. m # i
      BY <2>6, <3>2
    <3>4. m \in 1..n /\ m - 1 \in i..n /\ m - 1 \in 0..n /\ m > 1 /\ m - 1 \notin Bad
      BY <3>1, <3>2, <3>3
    <3>5. Kept(m - 1)
      BY <3>4
    <3>6. /\ end[m] = end[m - 1] + Len(ids[m]) + 1 /\ Len(ids[m]) \in Nat
          /\ \A p \in 1..end[m - 1] : f[m][p] = f[m - 1][p]
      BY <1>1, <2>7, <3>4
    <3>7. end[i] \in Nat /\ end[m - 1] \in Nat /\ end[m] \in Nat
      BY <2>6, <3>2, <3>4
    <3> QED BY <3>2, <3>5, <3>6, <3>7
  <2>9. ASSUME NEW i \in 1..n
        PROVE  /\ end[i] = end[i - 1] + Len(ids[i]) + 1
               /\ \A p \in 1..Len(ids[i]) : file[end[i - 1] + p] = ids[i][p]
               /\ file[end[i]] = "nl"
    <3>1. end[i] = end[i - 1] + Len(ids[i]) + 1 /\ Len(ids[i]) \in Nat /\ end[i - 1] \in Nat
      BY <1>1, <2>6, <2>7
    <3>2. \A p \in 1..end[i] : file[p] = f[i][p]
      BY <1>1, <2>2, <2>8
    <3>3. ASSUME NEW p \in 1..(Len(ids[i]) + 1) PROVE file[end[i - 1] + p] = s[i][p]
      <4>1. end[i - 1] + p \in 1..end[i]
        BY <3>1
      <4> QED BY <2>7, <3>2, <4>1
    <3>4. \A p \in 1..Len(ids[i]) : file[end[i - 1] + p] = ids[i][p]
      <4> SUFFICES ASSUME NEW p \in 1..Len(ids[i]) PROVE file[end[i - 1] + p] = ids[i][p]
        OBVIOUS
      <4>1. p \in 1..(Len(ids[i]) + 1)
        BY <3>1
      <4> QED BY <2>1, <3>3, <4>1
    <3>5. file[end[i]] = "nl"
      <4>1. Len(ids[i]) + 1 \in 1..(Len(ids[i]) + 1)
                /\ end[i - 1] + (Len(ids[i]) + 1) = end[i]
        BY <3>1
      <4>2. file[end[i - 1] + (Len(ids[i]) + 1)] = s[i][Len(ids[i]) + 1]
        BY <3>3, <4>1
      <4> QED BY <2>1, <4>1, <4>2
    <3> QED BY <3>1, <3>4, <3>5
  <2>10. end[n] = Len(file) /\ file \in Seq(C)
    BY <1>1, <1>5, <2>2, <2>4, <2>5
  <2>11. Lines(ids, file, end)
    BY <2>5, <2>6, <2>9, <2>10 DEF Lines, n
  <2> QED BY <2>10, <2>11 DEF file, C
<1> QED BY <1>4, <1>5

(* An id with no newline in it is one line.                                *)
AreOneLine(ids) == \A n \in DOMAIN ids : "nl" \notin Range(ids[n])

LEMMA InsideLine ==
    ASSUME NEW ids, IsIdList(ids), AreOneLine(ids), NEW file, NEW end, Lines(ids, file, end),
           NEW i \in 1..Len(ids)
    PROVE  /\ end[i - 1] \in Nat /\ end[i] \in Nat
           /\ Len(ids[i]) \in Nat /\ Len(ids[i]) > 0 /\ end[i] = end[i - 1] + Len(ids[i]) + 1
           /\ \A p \in (end[i - 1] + 1)..(end[i] - 1) :
                  file[p] = ids[i][p - end[i - 1]] /\ file[p] # "nl"
<1>1. Len(ids) \in Nat /\ DOMAIN ids = 1..Len(ids) /\ Len(ids[i]) \in Nat /\ Len(ids[i]) > 0
  BY IdsAreTexts
<1>2. i - 1 \in 0..Len(ids) /\ i \in 0..Len(ids)
  BY <1>1
<1>3. /\ end[i - 1] \in Nat /\ end[i] \in Nat /\ end[i] = end[i - 1] + Len(ids[i]) + 1
      /\ \A p \in 1..Len(ids[i]) : file[end[i - 1] + p] = ids[i][p]
  BY <1>2 DEF Lines
<1>4. \A p \in 1..Len(ids[i]) : ids[i][p] # "nl"
  <2>1. ids[i] \in Seq(CharactersOf(ids)) /\ "nl" \notin Range(ids[i])
    BY <1>1, IdsAreTexts DEF AreOneLine
  <2>2. DOMAIN ids[i] = 1..Len(ids[i])
    BY <2>1, LenProperties
  <2> QED BY <2>1, <2>2 DEF Range
<1>5. ASSUME NEW p \in (end[i - 1] + 1)..(end[i] - 1)
      PROVE  file[p] = ids[i][p - end[i - 1]] /\ file[p] # "nl"
  <2> DEFINE q == p - end[i - 1]
  <2>1. q \in 1..Len(ids[i]) /\ end[i - 1] + q = p
    BY <1>1, <1>3
  <2> HIDE DEF q
  <2>2. file[p] = ids[i][q] /\ file[p] # "nl"
    BY <1>3, <1>4, <2>1
  <2> QED BY <2>2 DEF q
<1> QED BY <1>1, <1>3, <1>5

LEMMA EndsGrow ==
    ASSUME NEW ids, IsIdList(ids), NEW file, NEW end, Lines(ids, file, end)
    PROVE  \A i, j \in 0..Len(ids) : i < j => end[i] < end[j]
<1>1. Len(ids) \in Nat
  BY IdsAreTexts
<1>2. SUFFICES ASSUME NEW i \in 0..Len(ids) PROVE \A j \in 0..Len(ids) : i < j => end[i] < end[j]
  OBVIOUS
<1> DEFINE Bad == {j \in 0..Len(ids) : i < j /\ ~(end[i] < end[j])}
<1>3. SUFFICES ASSUME Bad # {} PROVE FALSE
  OBVIOUS
<1>4. PICK j \in Bad : \A k \in Bad : j <= k
  <2>1. Bad \subseteq Nat
    BY <1>1
  <2> HIDE DEF Bad
  <2> QED BY <1>3, <2>1, LeastNat
<1>5. j \in 1..Len(ids) /\ j - 1 \in 0..Len(ids) /\ i < j /\ ~(end[i] < end[j]) /\ j - 1 \notin Bad
  BY <1>1, <1>4
<1>6. Len(ids[j]) \in Nat /\ end[j - 1] \in Nat /\ end[i] \in Nat
      /\ end[j] = end[j - 1] + Len(ids[j]) + 1
  BY <1>5, IdsAreTexts DEF Lines
<1>7. i = j - 1 \/ end[i] < end[j - 1]
  BY <1>1, <1>5
<1> QED BY <1>5, <1>6, <1>7

(* The line that a place of the file is in.                                *)
LEMMA LineOf ==
    ASSUME NEW ids, IsIdList(ids), NEW file, NEW end, Lines(ids, file, end),
           NEW p \in 1..Len(file), Len(file) \in Nat
    PROVE  \E i \in 1..Len(ids) : end[i - 1] < p /\ p <= end[i]
<1> DEFINE After == {i \in 0..Len(ids) : p <= end[i]}
<1>1. Len(ids) \in Nat
  BY IdsAreTexts
<1>2. Len(ids) \in After
  BY <1>1 DEF Lines
<1>3. PICK i \in After : \A k \in After : i <= k
  <2>1. After \subseteq Nat /\ After # {}
    BY <1>1, <1>2
  <2> HIDE DEF After
  <2> QED BY <2>1, LeastNat
<1>4. end[0] = 0 /\ \A k \in 0..Len(ids) : end[k] \in Nat
  BY DEF Lines
<1>5. i \in 1..Len(ids) /\ i - 1 \in 0..Len(ids) /\ i - 1 \notin After
  BY <1>1, <1>3, <1>4
<1>6. end[i - 1] < p
  BY <1>4, <1>5
<1> QED BY <1>3, <1>5, <1>6

LEMMA NewlinesAreEnds ==
    ASSUME NEW ids, IsIdList(ids), AreOneLine(ids), NEW file, NEW end, Lines(ids, file, end),
           NEW p \in 1..Len(file), Len(file) \in Nat
    PROVE  file[p] = "nl" <=> \E i \in 1..Len(ids) : p = end[i]
<1>1. PICK i \in 1..Len(ids) : end[i - 1] < p /\ p <= end[i]
  BY LineOf
<1>2. /\ end[i - 1] \in Nat /\ end[i] \in Nat
      /\ \A q \in (end[i - 1] + 1)..(end[i] - 1) : file[q] # "nl"
  BY InsideLine
<1>3. \A k \in 1..Len(ids) : file[end[k]] = "nl"
  BY DEF Lines
<1>4. p # end[i] => p \in (end[i - 1] + 1)..(end[i] - 1)
  BY <1>1, <1>2
<1> QED BY <1>2, <1>3, <1>4

LEMMA LastNewlineIs ==
    ASSUME NEW text, NEW n \in Nat, NEW i \in 0..n, i = 0 \/ text[i] = "nl",
           \A j \in (i + 1)..n : text[j] # "nl"
    PROVE  LastNewline(text, n) = i
<1> DEFINE IsLast(k) == (k = 0 \/ text[k] = "nl") /\ \A j \in (k + 1)..n : text[j] # "nl"
<1>1. IsLast(i)
  OBVIOUS
<1>2. ASSUME NEW k \in 0..n, IsLast(k) PROVE k = i
  <2>1. CASE k < i
    BY <1>2, <2>1
  <2>2. CASE i < k
    BY <1>2, <2>2
  <2> QED BY <2>1, <2>2
<1>3. LastNewline(text, n) = CHOOSE k \in 0..n : IsLast(k)
  BY DEF LastNewline
<1> HIDE DEF IsLast
<1> QED BY <1>1, <1>2, <1>3

(* As many of the ends as of their numbers.                                *)
UpTo(end, i) == {end[l] : l \in 1..i}

LEMMA EndsCount ==
    ASSUME NEW n \in Nat, NEW d, \A i \in 1..n : d[i] \in Nat,
           \A i, j \in 1..n : i < j => d[i] < d[j]
    PROVE  \A i \in 0..n : IsFiniteSet(UpTo(d, i)) /\ Cardinality(UpTo(d, i)) = i
<1> DEFINE Up(i) == UpTo(d, i)
           Good(i) == IsFiniteSet(Up(i)) /\ Cardinality(Up(i)) = i
           Bad == {i \in 0..n : ~Good(i)}
<1>1. SUFFICES ASSUME Bad # {} PROVE FALSE
  OBVIOUS
<1>2. PICK i \in Bad : \A k \in Bad : i <= k
  <2>1. Bad \subseteq Nat
    OBVIOUS
  <2> HIDE DEF Bad
  <2> QED BY <1>1, <2>1, LeastNat
<1>3. i # 0
  <2>1. Up(0) = {}
    BY DEF UpTo
  <2>2. Good(0)
    <3> HIDE DEF Up
    <3> QED BY <2>1, FS_EmptySet
  <2> HIDE DEF Good
  <2> QED BY <1>2, <2>2
<1>4. i \in 1..n /\ i - 1 \in 0..n /\ i - 1 \notin Bad
  BY <1>2, <1>3
<1>5. Good(i - 1)
  BY <1>4
<1>6. Up(i) = Up(i - 1) \cup {d[i]}
  <2>1. 1..i = (1..(i - 1)) \cup {i}
    BY <1>4
  <2> QED BY <2>1 DEF UpTo
<1>7. d[i] \notin Up(i - 1)
  <2>1. \A l \in 1..(i - 1) : d[l] # d[i]
    <3> SUFFICES ASSUME NEW l \in 1..(i - 1) PROVE d[l] # d[i]
      OBVIOUS
    <3>1. l \in 1..n /\ l < i
      BY <1>4
    <3>2. d[l] < d[i] /\ d[l] \in Nat /\ d[i] \in Nat
      BY <1>4, <3>1
    <3> QED BY <3>2
  <2> QED BY <2>1 DEF UpTo
<1>8. Good(i)
  <2> HIDE DEF Up
  <2>1. IsFiniteSet(Up(i - 1)) /\ Cardinality(Up(i - 1)) = i - 1
    BY <1>5
  <2>2. IsFiniteSet(Up(i)) /\ Cardinality(Up(i)) = Cardinality(Up(i - 1)) + 1
    BY <1>6, <1>7, <2>1, FS_AddElement
  <2> QED BY <1>4, <2>1, <2>2
<1> HIDE DEF Good
<1> QED BY <1>2, <1>8

(* A text made of whole lines is cut into them.                            *)
LEMMA LinesOfText ==
    ASSUME NEW ids, IsIdList(ids), AreOneLine(ids), NEW S, NEW text \in Seq(S),
           NEW end, Lines(ids, text, end)
    PROVE  LinesOf(text) = ids
<1> DEFINE n == Len(ids)
           len == Len(text)
           ends == {i \in 2..len : text[i] = "nl" /\ text[i - 1] # "nl"}
           Place(l) == CHOOSE i \in ends : Cardinality({j \in ends : j < i}) = l - 1
           Line(l) == SubSeq(text, LastNewline(text, Place(l) - 1) + 1, Place(l) - 1)
<1>1. n \in Nat /\ len \in Nat /\ ids = [l \in 1..n |-> ids[l]]
  BY IdsAreTexts, LenProperties
<1>2. /\ end[0] = 0 /\ end[n] = len /\ \A l \in 0..n : end[l] \in Nat
      /\ \A i, j \in 0..n : i < j => end[i] < end[j]
      /\ \A l \in 1..n : text[end[l]] = "nl"
  BY EndsGrow DEF Lines
<1>3. \A l \in 1..n : /\ Len(ids[l]) \in Nat /\ Len(ids[l]) > 0
                      /\ end[l] = end[l - 1] + Len(ids[l]) + 1
                      /\ \A p \in (end[l - 1] + 1)..(end[l] - 1) :
                             text[p] = ids[l][p - end[l - 1]] /\ text[p] # "nl"
  BY InsideLine
<1>4. \A p \in 1..len : text[p] = "nl" <=> \E l \in 1..n : p = end[l]
  BY <1>1, NewlinesAreEnds
<1>5. LinesOf(text) = [l \in 1..Cardinality(ends) |-> Line(l)]
  BY DEF LinesOf
<1> HIDE DEF n, len
<1>6. \A l \in 1..n : /\ l \in 0..n /\ l - 1 \in 0..n /\ end[l - 1] + 1 < end[l] /\ end[l] <= len
                      /\ end[l] \in 2..len /\ end[l] - 1 \in (end[l - 1] + 1)..(end[l] - 1)
  <2> SUFFICES ASSUME NEW l \in 1..n
               PROVE  /\ l \in 0..n /\ l - 1 \in 0..n /\ end[l - 1] + 1 < end[l] /\ end[l] <= len
                      /\ end[l] \in 2..len /\ end[l] - 1 \in (end[l - 1] + 1)..(end[l] - 1)
    OBVIOUS
  <2>1. l \in 0..n /\ l - 1 \in 0..n
    BY <1>1
  <2>2. end[l - 1] \in Nat /\ end[l] \in Nat /\ end[n] = len
    BY <1>2, <2>1
  <2>3. end[l - 1] + 1 < end[l]
    BY <1>3, <2>2
  <2>4. end[l] <= len
    <3>1. n \in 0..n /\ (l = n \/ l < n)
      BY <1>1
    <3> QED BY <1>1, <1>2, <2>1, <2>2, <3>1
  <2> QED BY <1>1, <2>1, <2>2, <2>3, <2>4
<1>7. ends = UpTo(end, n)
  <2>1. ASSUME NEW p \in ends PROVE p \in {end[l] : l \in 1..n}
    BY <1>1, <1>4
  <2>2. ASSUME NEW l \in 1..n PROVE end[l] \in ends
    <3>1. text[end[l]] = "nl" /\ text[end[l] - 1] # "nl"
      BY <1>2, <1>3, <1>6
    <3> QED BY <1>6, <3>1
  <2> HIDE DEF ends
  <2> QED BY <2>1, <2>2 DEF UpTo
<1>8. \A i \in 0..n : Cardinality(UpTo(end, i)) = i
  <2>1. \A i \in 1..n : end[i] \in Nat
    BY <1>2, <1>6
  <2>2. \A i, j \in 1..n : i < j => end[i] < end[j]
    BY <1>2, <1>6
  <2> QED BY <1>1, <2>1, <2>2, EndsCount
<1>9. Cardinality(ends) = n
  <2>1. n \in 0..n
    BY <1>1
  <2> HIDE DEF ends
  <2> QED BY <1>7, <1>8, <2>1
<1> HIDE DEF ends
<1>10. ASSUME NEW l \in 1..n PROVE Cardinality({j \in ends : j < end[l]}) = l - 1
  <2>1. \A i \in 1..n : end[i] < end[l] <=> i \in 1..(l - 1)
    <3> SUFFICES ASSUME NEW i \in 1..n PROVE end[i] < end[l] <=> i \in 1..(l - 1)
      OBVIOUS
    <3>1. i \in 0..n /\ l \in 0..n /\ end[i] \in Nat /\ end[l] \in Nat
      BY <1>2, <1>6
    <3>2. (i < l => end[i] < end[l]) /\ (l < i => end[l] < end[i])
      BY <1>2, <3>1
    <3>3. i = l \/ i < l \/ l < i
      BY <1>1
    <3>4. i < l <=> i \in 1..(l - 1)
      BY <1>1
    <3> QED BY <3>1, <3>2, <3>3, <3>4
  <2>2. 1..(l - 1) \subseteq 1..n
    BY <1>1
  <2>3. {j \in ends : j < end[l]} = UpTo(end, l - 1)
    <3>1. ASSUME NEW j \in ends, j < end[l] PROVE j \in {end[i] : i \in 1..(l - 1)}
      BY <1>7, <2>1, <3>1 DEF UpTo
    <3>2. ASSUME NEW i \in 1..(l - 1) PROVE end[i] \in ends /\ end[i] < end[l]
      BY <1>7, <2>1, <2>2 DEF UpTo
    <3> QED BY <3>1, <3>2 DEF UpTo
  <2> QED BY <1>6, <1>8, <2>3
<1>11. ASSUME NEW l \in 1..n PROVE Place(l) = end[l]
  <2>1. end[l] \in ends /\ Cardinality({j \in ends : j < end[l]}) = l - 1
    BY <1>7, <1>10 DEF UpTo
  <2>2. ASSUME NEW i \in ends, Cardinality({j \in ends : j < i}) = l - 1 PROVE i = end[l]
    <3>1. PICK m \in 1..n : i = end[m]
      BY <1>7 DEF UpTo
    <3>2. m - 1 = l - 1
      BY <1>10, <2>2, <3>1
    <3> QED BY <1>1, <3>1, <3>2
  <2> QED BY <2>1, <2>2
<1>12. ASSUME NEW l \in 1..n PROVE Line(l) = ids[l]
  <2> DEFINE from == end[l - 1]
             to == end[l] - 1
             id == ids[l]
             T == S \cup CharactersOf(ids)
  <2>1. /\ from \in Nat /\ to \in Nat /\ Len(id) \in Nat /\ Len(id) > 0 /\ to = from + Len(id)
        /\ from <= to /\ to <= len
        /\ \A p \in (from + 1)..to : text[p] = id[p - from] /\ text[p] # "nl"
    <3>1. end[l - 1] \in Nat /\ end[l] \in Nat
      BY <1>2, <1>6
    <3>2. /\ Len(id) \in Nat /\ Len(id) > 0 /\ end[l] = end[l - 1] + Len(id) + 1
          /\ end[l] <= len
      BY <1>3, <1>6
    <3>3. \A p \in (end[l - 1] + 1)..(end[l] - 1) :
              text[p] = ids[l][p - end[l - 1]] /\ text[p] # "nl"
      BY <1>3
    <3>4. to \in Nat /\ to = from + Len(id) /\ from <= to /\ to <= len
      BY <1>1, <3>1, <3>2
    <3> QED BY <3>1, <3>2, <3>3, <3>4
  <2>2. from = 0 \/ text[from] = "nl"
    <3>1. l = 1 \/ l - 1 \in 1..n
      BY <1>1
    <3> QED BY <1>2, <3>1
  <2>3. id \in Seq(T) /\ \A p \in 1..len : text[p] \in T
    <3>1. id \in Seq(CharactersOf(ids))
      BY IdsAreTexts DEF n
    <3>2. \A p \in 1..len : text[p] \in S
      BY LenProperties DEF len
    <3> QED BY <3>1, <3>2, SeqMonotonic
  <2>4. Place(l) - 1 = to
    BY <1>11
  <2> HIDE DEF from, to, id, Place, T
  <2>5. LastNewline(text, to) = from
    <3>1. from \in 0..to /\ \A p \in (from + 1)..to : text[p] # "nl"
      BY <2>1
    <3> QED BY <2>1, <2>2, <3>1, LastNewlineIs
  <2>6. SubSeq(text, from + 1, to) = id
    <3>1. from + 1 \in Int /\ to \in Int /\ \A p \in (from + 1)..to : text[p] \in T
      BY <1>1, <2>1, <2>3
    <3>2. /\ SubSeq(text, from + 1, to) \in Seq(T)
          /\ Len(SubSeq(text, from + 1, to)) =
                 IF from + 1 <= to THEN to - (from + 1) + 1 ELSE 0
          /\ \A i \in 1..(to - (from + 1) + 1) :
                 SubSeq(text, from + 1, to)[i] = text[from + 1 + i - 1]
      BY <3>1, SubSeqProperties
    <3> DEFINE cut == SubSeq(text, from + 1, to)
    <3>3. cut \in Seq(T) /\ Len(cut) = Len(id) /\ \A i \in 1..Len(id) : cut[i] = text[from + i]
      <4>1. from + 1 <= to /\ to - (from + 1) + 1 = Len(id)
        BY <2>1
      <4>2. \A i \in 1..Len(id) : from + 1 + i - 1 = from + i
        BY <2>1
      <4> QED BY <3>2, <4>1, <4>2
    <3> HIDE DEF cut
    <3>4. \A i \in 1..Len(id) : cut[i] = id[i]
      <4> SUFFICES ASSUME NEW i \in 1..Len(id) PROVE cut[i] = id[i]
        OBVIOUS
      <4>1. from + i \in (from + 1)..to /\ (from + i) - from = i
        BY <2>1
      <4> QED BY <2>1, <3>3, <4>1
    <3>5. cut = id
      BY <2>3, <3>3, <3>4, SeqEqual
    <3> QED BY <3>5 DEF cut
  <2> QED BY <2>4, <2>5, <2>6 DEF id
<1> HIDE DEF Line
<1>13. LinesOf(text) = [l \in 1..n |-> Line(l)]
  BY <1>5, <1>9
<1>14. [l \in 1..n |-> Line(l)] = [l \in 1..n |-> ids[l]]
  BY <1>12
<1> QED BY <1>1, <1>13, <1>14

LEMMA EndsOrdered ==
    ASSUME NEW ids, IsIdList(ids), NEW file, NEW end, Lines(ids, file, end),
           NEW i \in 0..Len(ids), NEW j \in 0..Len(ids), i <= j
    PROVE  end[i] <= end[j]
<1>1. i = j \/ i < j
  BY IdsAreTexts
<1>2. end[i] \in Nat /\ end[j] \in Nat
  BY DEF Lines
<1>3. i < j => end[i] < end[j]
  BY EndsGrow
<1> QED BY <1>1, <1>2, <1>3

LEMMA Slice ==
    ASSUME NEW S, NEW text \in Seq(S), NEW a \in Nat, NEW b \in Nat, a <= b, b <= Len(text)
    PROVE  /\ SubSeq(text, a + 1, b) \in Seq(S) /\ Len(SubSeq(text, a + 1, b)) = b - a
           /\ \A p \in 1..(b - a) : SubSeq(text, a + 1, b)[p] = text[a + p]
<1> DEFINE piece == SubSeq(text, a + 1, b)
<1>1. Len(text) \in Nat /\ \A p \in 1..Len(text) : text[p] \in S
  BY LenProperties
<1>2. \A p \in (a + 1)..b : text[p] \in S
  BY <1>1
<1>3. a + 1 \in Int /\ b \in Int
  OBVIOUS
<1>4. /\ piece \in Seq(S) /\ Len(piece) = IF a + 1 <= b THEN b - (a + 1) + 1 ELSE 0
      /\ \A p \in 1..(b - (a + 1) + 1) : piece[p] = text[a + 1 + p - 1]
  BY <1>2, <1>3, SubSeqProperties
<1> HIDE DEF piece
<1>5. (IF a + 1 <= b THEN b - (a + 1) + 1 ELSE 0) = b - a /\ b - (a + 1) + 1 = b - a
  OBVIOUS
<1>6. \A p \in 1..(b - a) : a + 1 + p - 1 = a + p
  OBVIOUS
<1>7. piece \in Seq(S) /\ Len(piece) = b - a /\ \A p \in 1..(b - a) : piece[p] = text[a + p]
  BY <1>4, <1>5, <1>6
<1> QED BY <1>7 DEF piece

(* The ids after the k-th, up to the m-th, and their part of the file.     *)
Part(ids, k, m) == [i \in 1..(m - k) |-> ids[k + i]]

LEMMA PartIsIdList ==
    ASSUME NEW ids, IsIdList(ids), AreOneLine(ids), NEW k \in 0..Len(ids), NEW m \in k..Len(ids)
    PROVE  /\ IsIdList(Part(ids, k, m)) /\ AreOneLine(Part(ids, k, m))
           /\ Part(ids, k, m) \in Seq(Range(ids)) /\ Len(Part(ids, k, m)) = m - k
<1> DEFINE part == Part(ids, k, m)
<1>1. Len(ids) \in Nat /\ DOMAIN ids = 1..Len(ids) /\ m - k \in Nat
      /\ \A i \in 1..(m - k) : k + i \in DOMAIN ids
  BY IdsAreTexts
<1>2. DOMAIN part = 1..(m - k) /\ \A i \in 1..(m - k) : part[i] = ids[k + i]
  BY DEF Part
<1>3. \A i \in 1..(m - k) : ids[k + i] \in Range(ids)
  BY <1>1 DEF Range
<1>4. part \in Seq(Range(ids)) /\ Len(part) = m - k
  BY <1>1, <1>3 DEF Part
<1>5. part \in Seq(Range(part))
  BY <1>4, SeqOfRange
<1> HIDE DEF part
<1>6. \A i \in DOMAIN part : /\ part[i] \in Seq(Range(part[i])) /\ part[i] # <<>>
                             /\ "nl" \notin Range(part[i])
  BY <1>1, <1>2 DEF IsIdList, AreOneLine
<1>7. IsIdList(part) /\ AreOneLine(part)
  BY <1>5, <1>6 DEF IsIdList, AreOneLine
<1> QED BY <1>4, <1>7 DEF part

LEMMA PartOfLines ==
    ASSUME NEW ids, IsIdList(ids), AreOneLine(ids), NEW S, NEW file \in Seq(S),
           NEW end, Lines(ids, file, end), NEW k \in 0..Len(ids), NEW m \in k..Len(ids)
    PROVE  LinesOf(SubSeq(file, end[k] + 1, end[m])) = Part(ids, k, m)
<1> DEFINE n == Len(ids)
           part == Part(ids, k, m)
           text == SubSeq(file, end[k] + 1, end[m])
           ends == [i \in 0..(m - k) |-> end[k + i] - end[k]]
<1>1. n \in Nat /\ Len(file) \in Nat /\ DOMAIN ids = 1..n /\ k \in 0..n /\ m \in 0..n /\ n \in 0..n
      /\ k <= m /\ m <= n
  BY IdsAreTexts, LenProperties
<1>2. IsIdList(part) /\ AreOneLine(part) /\ Len(part) = m - k
      /\ \A i \in 1..(m - k) : part[i] = ids[k + i]
  BY PartIsIdList DEF Part
<1>3. /\ end[n] = Len(file) /\ \A i \in 0..n : end[i] \in Nat
      /\ \A i, j \in 0..n : i < j => end[i] < end[j]
      /\ \A i \in 1..n : /\ end[i] = end[i - 1] + Len(ids[i]) + 1
                         /\ \A p \in 1..Len(ids[i]) : file[end[i - 1] + p] = ids[i][p]
                         /\ file[end[i]] = "nl"
  BY EndsGrow DEF Lines
<1> HIDE DEF n, part
<1>4. /\ end[k] \in Nat /\ end[m] \in Nat /\ end[k] <= end[m] /\ end[m] <= Len(file)
  <2>2. end[k] \in Nat /\ end[m] \in Nat /\ end[n] = Len(file)
    BY <1>1, <1>3
  <2>3. end[k] <= end[m] /\ end[m] <= end[n]
    BY <1>1, EndsOrdered DEF n
  <2> QED BY <2>2, <2>3
<1>5. /\ text \in Seq(S) /\ Len(text) = end[m] - end[k]
      /\ \A p \in 1..(end[m] - end[k]) : text[p] = file[end[k] + p]
  BY <1>4, Slice
<1> HIDE DEF text
<1>6. \A i \in 0..(m - k) : /\ k + i \in 0..n /\ k + i <= m /\ ends[i] = end[k + i] - end[k]
                            /\ end[k + i] \in Nat /\ end[k] <= end[k + i] /\ end[k + i] <= end[m]
  <2> SUFFICES ASSUME NEW i \in 0..(m - k)
               PROVE  /\ k + i \in 0..n /\ k + i <= m /\ ends[i] = end[k + i] - end[k]
                      /\ end[k + i] \in Nat /\ end[k] <= end[k + i] /\ end[k + i] <= end[m]
    OBVIOUS
  <2>1. k + i \in 0..n /\ k + i <= m /\ ends[i] = end[k + i] - end[k]
    BY <1>1
  <2> HIDE DEF ends
  <2>2. k <= k + i
    BY <1>1
  <2>3. end[k + i] \in Nat
    BY <1>3, <2>1
  <2>4. end[k] <= end[k + i] /\ end[k + i] <= end[m]
    BY <1>1, <2>1, <2>2, EndsOrdered DEF n
  <2> QED BY <2>1, <2>3, <2>4
<1> HIDE DEF ends
<1>7. ends[0] = 0 /\ ends[m - k] = Len(text)
  <2>1. 0 \in 0..(m - k) /\ m - k \in 0..(m - k) /\ k + 0 = k /\ k + (m - k) = m
    BY <1>1
  <2> QED BY <1>4, <1>5, <1>6, <2>1
<1>8. ASSUME NEW i \in 0..(m - k) PROVE ends[i] \in Nat
  <2>1. ends[i] = end[k + i] - end[k] /\ end[k + i] \in Nat /\ end[k] <= end[k + i]
    BY <1>6
  <2> QED BY <1>4, <2>1
<1>9. ASSUME NEW i \in 1..(m - k)
      PROVE  /\ ends[i] = ends[i - 1] + Len(part[i]) + 1
             /\ \A p \in 1..Len(part[i]) : text[ends[i - 1] + p] = part[i][p]
             /\ text[ends[i]] = "nl"
  <2> DEFINE l == k + i
  <2>1. /\ l \in 1..n /\ i \in 0..(m - k) /\ i - 1 \in 0..(m - k) /\ k + (i - 1) = l - 1
    BY <1>1 DEF n
  <2>2. /\ ends[i] = end[l] - end[k] /\ ends[i - 1] = end[l - 1] - end[k] /\ part[i] = ids[l]
        /\ end[l] \in Nat /\ end[l - 1] \in Nat /\ end[k] <= end[l - 1] /\ end[l] <= end[m]
    BY <1>2, <1>6, <2>1
  <2> HIDE DEF l
  <2>3. Len(ids[l]) \in Nat /\ Len(ids[l]) > 0 /\ end[l] = end[l - 1] + Len(ids[l]) + 1
        /\ (\A p \in 1..Len(ids[l]) : file[end[l - 1] + p] = ids[l][p]) /\ file[end[l]] = "nl"
    BY <1>3, <2>1, IdsAreTexts DEF n
  <2>4. ends[i] = ends[i - 1] + Len(part[i]) + 1
    <3>1. Len(part[i]) = Len(ids[l])
      BY <2>2
    <3>2. Len(ids[l]) \in Nat /\ end[l] = end[l - 1] + Len(ids[l]) + 1
      BY <2>3
    <3>3. \A a, b, c, d \in Nat : a = b + c + 1 => a - d = (b - d) + c + 1
      OBVIOUS
    <3> DEFINE a == end[l]
               b == end[l - 1]
               c == Len(ids[l])
               d == end[k]
    <3>4. a \in Nat /\ b \in Nat /\ c \in Nat /\ d \in Nat /\ a = b + c + 1
      BY <1>4, <2>2, <3>2
    <3> HIDE DEF a, b, c, d
    <3>5. a - d = (b - d) + c + 1
      BY <3>3, <3>4
    <3>6. end[l] - end[k] = (end[l - 1] - end[k]) + Len(ids[l]) + 1
      BY <3>5 DEF a, b, c, d
    <3> QED BY <2>2, <3>1, <3>6
  <2>5. ASSUME NEW p \in 1..Len(part[i]) PROVE text[ends[i - 1] + p] = part[i][p]
    <3>1. p \in 1..Len(ids[l]) /\ Len(ids[l]) \in Nat
      BY <2>2, <2>3
    <3>2. end[l] = end[l - 1] + Len(ids[l]) + 1
      BY <2>3
    <3>3. ends[i - 1] + p \in 1..(end[m] - end[k]) /\ end[k] + (ends[i - 1] + p) = end[l - 1] + p
      <4> DEFINE a == end[l]
                 b == end[l - 1]
                 c == Len(ids[l])
                 d == end[k]
                 e == end[m]
      <4>3. /\ a \in Nat /\ b \in Nat /\ c \in Nat /\ d \in Nat /\ e \in Nat
            /\ a = b + c + 1 /\ d <= b /\ a <= e
        BY <1>4, <2>2, <3>1, <3>2
      <4>1. p \in Nat /\ 1 <= p /\ p <= c
        BY <3>1
      <4> HIDE DEF a, b, c, d, e
      <4>4. (b - d) + p \in 1..(e - d) /\ d + ((b - d) + p) = b + p
        BY <4>1, <4>3
      <4> QED BY <2>2, <4>4 DEF b, d, e
    <3>4. text[ends[i - 1] + p] = file[end[l - 1] + p]
      BY <1>5, <3>3
    <3> QED BY <2>2, <2>3, <3>1, <3>4
  <2>6. text[ends[i]] = "nl"
    <3>1. end[l] > end[l - 1]
      BY <2>2, <2>3
    <3>2. ends[i] \in 1..(end[m] - end[k]) /\ end[k] + ends[i] = end[l]
      BY <1>4, <2>2, <3>1
    <3> QED BY <1>5, <2>3, <3>2
  <2> QED BY <2>4, <2>5, <2>6
<1>10. Lines(part, text, ends)
  BY <1>2, <1>7, <1>8, <1>9 DEF Lines
<1>11. LinesOf(text) = part
  BY <1>2, <1>5, <1>10, LinesOfText
<1> QED BY <1>11 DEF text, part

(* A refresh reads the lines completed since the last one.                 *)
LEMMA RefreshReads ==
    ASSUME NEW ids, IsIdList(ids), AreOneLine(ids), NEW S, NEW file \in Seq(S),
           NEW end, Lines(ids, file, end), NEW k \in 0..Len(ids),
           NEW cut \in Nat, end[k] <= cut, cut <= Len(file)
    PROVE  \E m \in k..Len(ids) :
               /\ end[m] <= cut /\ (m = Len(ids) \/ cut < end[m + 1])
               /\ ReadIds(SubSeq(file, 1, cut), end[k]) =
                      [lines |-> Part(ids, k, m), offset |-> end[m]]
<1> DEFINE n == Len(ids)
           Later == {i \in k..n : cut < end[i]}
           from == end[k]
           front == SubSeq(file, 1, cut)
           blob == SubSeq(front, from + 1, Len(front))
<1>1. n \in Nat /\ Len(file) \in Nat /\ k \in Nat /\ \A i \in 0..n : end[i] \in Nat
  BY IdsAreTexts, LenProperties DEF Lines
<1>2. PICK m \in k..n : end[m] <= cut /\ (m = n \/ (m + 1 \in k..n /\ cut < end[m + 1]))
  <2>1. CASE Later = {}
    <3>1. n \in k..n /\ n \in 0..n /\ n \notin Later
      BY <1>1, <2>1
    <3>2. end[n] <= cut
      BY <1>1, <3>1
    <3> QED BY <3>1, <3>2
  <2>2. CASE Later # {}
    <3>1. PICK i \in Later : \A j \in Later : i <= j
      <4>1. Later \subseteq Nat
        BY <1>1
      <4> HIDE DEF Later
      <4> QED BY <2>2, <4>1, LeastNat
    <3>2. i # k
      BY <1>1, <3>1
    <3>3. i - 1 \in k..n /\ i - 1 \in 0..n /\ i - 1 \notin Later /\ (i - 1) + 1 = i
      BY <1>1, <3>1, <3>2
    <3>4. end[i - 1] <= cut
      BY <1>1, <3>3
    <3>5. i \in k..n /\ cut < end[i]
      BY <3>1
    <3> QED BY <3>3, <3>4, <3>5
  <2> QED BY <2>1, <2>2
<1> DEFINE to == end[m]
<1>3. /\ m \in Nat /\ k <= m /\ m \in 0..n /\ from \in Nat /\ to \in Nat /\ from <= to
      /\ from <= cut /\ to <= cut
  <2>1. m \in Nat /\ k <= m /\ m \in 0..n /\ k \in 0..n
    BY <1>1
  <2> QED BY <1>1, <1>2, <2>1, EndsOrdered
<1>4. front \in Seq(S) /\ Len(front) = cut /\ \A p \in 1..cut : front[p] = file[p]
  <2>1. /\ SubSeq(file, 0 + 1, cut) \in Seq(S) /\ Len(SubSeq(file, 0 + 1, cut)) = cut - 0
        /\ \A p \in 1..(cut - 0) : SubSeq(file, 0 + 1, cut)[p] = file[0 + p]
    BY Slice
  <2>2. 0 + 1 = 1 /\ cut - 0 = cut /\ \A p \in 1..cut : 0 + p = p
    OBVIOUS
  <2> HIDE DEF Later
  <2> QED BY <2>1, <2>2
<1> HIDE DEF Later, front
<1>5. /\ blob \in Seq(S) /\ Len(blob) = cut - from
      /\ \A p \in 1..(cut - from) : blob[p] = file[from + p]
  <2>1. /\ SubSeq(front, from + 1, cut) \in Seq(S) /\ Len(SubSeq(front, from + 1, cut)) = cut - from
        /\ \A p \in 1..(cut - from) : SubSeq(front, from + 1, cut)[p] = front[from + p]
    <3>1. from \in Nat /\ from <= cut /\ cut <= Len(front) /\ front \in Seq(S)
      BY <1>3, <1>4
    <3> HIDE DEF from
    <3> QED BY <3>1, Slice
  <2>2. \A p \in 1..(cut - from) : front[from + p] = file[from + p]
    BY <1>3, <1>4
  <2> HIDE DEF from
  <2> QED BY <1>4, <2>1, <2>2
<1> HIDE DEF blob
<1> DEFINE last == to - from
<1>6. LastNewline(blob, Len(blob)) = last
  <2>1. Len(blob) \in Nat /\ last \in 0..Len(blob)
    BY <1>3, <1>5
  <2>2. last = 0 \/ blob[last] = "nl"
    <3>1. CASE m = k
      BY <1>3, <3>1
    <3>2. CASE m # k
      <4>1. m \in 1..n /\ m - 1 \in 0..n
        BY <1>1, <1>3, <3>2
      <4>2. file[to] = "nl" /\ end[k] <= end[m - 1] /\ end[m] = end[m - 1] + Len(ids[m]) + 1
            /\ end[m - 1] \in Nat /\ Len(ids[m]) \in Nat
        <5>1. file[to] = "nl"
          BY <4>1 DEF Lines
        <5>2. k <= m - 1
          BY <1>1, <1>3, <3>2
        <5>3. end[k] <= end[m - 1]
          BY <4>1, <5>2, EndsOrdered
        <5> QED BY <4>1, <5>1, <5>3, InsideLine
      <4>3. from < to
        BY <1>3, <4>2
      <4>4. last \in 1..(cut - from) /\ from + last = to
        BY <1>3, <4>3
      <4> HIDE DEF last, from, to
      <4> QED BY <1>5, <4>2, <4>4 DEF to
    <3> QED BY <3>1, <3>2
  <2>3. ASSUME NEW j \in (last + 1)..Len(blob) PROVE blob[j] # "nl"
    <3> DEFINE p == from + j
    <3>1. p \in 1..Len(file) /\ to < p /\ p <= cut /\ j \in 1..(cut - from)
      <4>1. Len(blob) = cut - from
        BY <1>5
      <4> HIDE DEF from, to
      <4>2. j \in Nat /\ (to - from) + 1 <= j /\ j <= cut - from
        BY <1>3, <4>1
      <4> QED BY <1>1, <1>3, <4>2
    <3>2. blob[j] = file[p]
      BY <1>5, <3>1
    <3> HIDE DEF p, from, to, last
    <3>3. ASSUME NEW l \in 1..n PROVE p # end[l]
      <4>1. l \in 0..n /\ end[l] \in Nat
        BY <1>1
      <4>2. CASE l <= m
        <5>1. end[l] <= to
          BY <1>3, <4>1, <4>2, EndsOrdered DEF to
        <5> QED BY <1>3, <3>1, <4>1, <5>1
      <4>3. CASE m < l
        <5>1. m + 1 \in 0..n /\ m + 1 <= l /\ m # n
          BY <1>1, <1>3, <4>3
        <5>2. cut < end[m + 1] /\ end[m + 1] \in Nat
          BY <1>1, <1>2, <5>1
        <5>3. end[m + 1] <= end[l]
          BY <4>1, <5>1, EndsOrdered
        <5> QED BY <3>1, <4>1, <5>2, <5>3
      <4> QED BY <1>1, <1>3, <4>2, <4>3
    <3> QED BY <1>1, <3>1, <3>2, <3>3, NewlinesAreEnds
  <2> HIDE DEF last
  <2> QED BY <2>1, <2>2, <2>3, LastNewlineIs
<1>7. CASE cut <= from
  <2>1. cut = from /\ to = cut
    BY <1>3, <1>7
  <2>2. m = k
    <3>1. k < m => end[k] < end[m]
      BY <1>1, <1>3, EndsGrow
    <3> QED BY <1>1, <1>3, <2>1, <3>1
  <2>3. ReadIds(front, from) = [lines |-> <<>>, offset |-> cut]
    BY <1>4, <1>7 DEF ReadIds
  <2>4. Part(ids, k, m) = <<>>
    BY <1>1, <2>2 DEF Part
  <2> QED BY <1>2, <2>1, <2>3, <2>4 DEF front
<1>8. CASE from < cut
  <2>1. ReadIds(front, from) =
            IF last = 0 THEN [lines |-> <<>>, offset |-> from]
            ELSE [lines |-> LinesOf(SubSeq(blob, 1, last)), offset |-> from + last]
    <3>1. ~(Len(front) <= from)
      BY <1>3, <1>4, <1>8
    <3> HIDE DEF last, from
    <3> QED BY <1>6, <3>1 DEF ReadIds, blob
  <2>2. CASE last = 0
    <3>1. from = to
      BY <1>3, <2>2
    <3>2. m = k
      <4>1. k < m => end[k] < end[m]
        BY <1>1, <1>3, EndsGrow
      <4> QED BY <1>1, <1>3, <3>1, <4>1
    <3>3. Part(ids, k, m) = <<>>
      BY <1>1, <3>2 DEF Part
    <3> QED BY <1>2, <2>1, <2>2, <3>1, <3>3 DEF front
  <2>3. CASE last # 0
    <3>1. from + last = to /\ last \in Nat /\ last <= cut - from
      BY <1>3
    <3>2. to <= Len(file)
      BY <1>1, <1>3
    <3> DEFINE one == SubSeq(blob, 1, last)
               other == SubSeq(file, from + 1, to)
    <3>3. one \in Seq(S) /\ Len(one) = last /\ \A p \in 1..last : one[p] = blob[p]
      <4> HIDE DEF last
      <4>1. /\ SubSeq(blob, 0 + 1, last) \in Seq(S) /\ Len(SubSeq(blob, 0 + 1, last)) = last - 0
            /\ \A p \in 1..(last - 0) : SubSeq(blob, 0 + 1, last)[p] = blob[0 + p]
        BY <1>5, <3>1, Slice
      <4>2. 0 + 1 = 1 /\ last - 0 = last /\ \A p \in 1..last : 0 + p = p
        BY <3>1
      <4> QED BY <4>1, <4>2
    <3>4. other \in Seq(S) /\ Len(other) = last /\ \A p \in 1..last : other[p] = file[from + p]
      <4> HIDE DEF from, to
      <4>1. from \in Nat /\ to \in Nat /\ from <= to
        BY <1>3
      <4> QED BY <3>2, <4>1, Slice
    <3>5. \A p \in 1..last : blob[p] = file[from + p]
      BY <1>3, <1>5, <3>1
    <3> HIDE DEF one, other, last
    <3>6. one = other
      BY <3>3, <3>4, <3>5, SeqEqual
    <3>7. LinesOf(other) = Part(ids, k, m)
      BY PartOfLines DEF other
    <3>8. ReadIds(front, from) = [lines |-> Part(ids, k, m), offset |-> to]
      BY <2>1, <2>3, <3>1, <3>6, <3>7 DEF one
    <3> QED BY <1>2, <3>8 DEF front
  <2> QED BY <2>2, <2>3
<1> QED BY <1>3, <1>7, <1>8

(* No id of the logs has a newline in it; one that has takes two lines.    *)
OneLine == \A ids \in IdLists : AreOneLine(ids)

(* Two refreshes of ids.txt, the first with the writer anywhere in it,     *)
(* read every id once and in order (jsonl.py 233-256).                     *)
THEOREM SidecarIsRead ==
    ASSUME OneLine
    PROVE  Spec => []SidecarReadsExactly
<1>1. Init => SidecarReadsExactly
  <2> SUFFICES ASSUME Init, call.of = "sidecar"
               PROVE  LET file == SidecarOf(call.ids)
                          early == ReadIds(SubSeq(file, 1, call.cut), 0)
                          late == ReadIds(file, early.offset)
                      IN  early.lines \o late.lines = call.ids /\ late.offset = Len(file)
    BY DEF SidecarReadsExactly
  <2> DEFINE ids == call.ids
             cut == call.cut
             file == SidecarOf(ids)
             n == Len(ids)
  <2>1. ids \in IdLists /\ cut \in 0..Len(file)
    BY DEF Init
  <2>2. IsIdList(ids) /\ AreOneLine(ids)
    BY <2>1, IdAssumption DEF OneLine, IsIdList
  <2> HIDE DEF ids, cut
  <2>3. file \in Seq(CharactersOf(ids)) /\ \E end : Lines(ids, file, end)
    BY <2>2, SidecarHasLines
  <2>4. PICK end : Lines(ids, file, end)
    BY <2>3
  <2> HIDE DEF file
  <2>5. /\ n \in Nat /\ Len(file) \in Nat /\ ids = [i \in 1..n |-> ids[i]]
        /\ 0 \in 0..n /\ end[0] = 0 /\ end[n] = Len(file) /\ \A i \in 0..n : end[i] \in Nat
    BY <2>2, <2>3, <2>4, IdsAreTexts, LenProperties DEF Lines
  <2>6. cut \in Nat /\ cut <= Len(file) /\ end[0] <= cut
    BY <2>1, <2>5
  <2>7. PICK m \in 0..n : /\ end[m] <= cut
                          /\ ReadIds(SubSeq(file, 1, cut), end[0]) =
                                 [lines |-> Part(ids, 0, m), offset |-> end[m]]
    BY <2>2, <2>3, <2>4, <2>5, <2>6, RefreshReads
  <2>8. end[m] \in Nat /\ end[m] <= Len(file)
    BY <2>5, <2>6, <2>7
  <2>9. PICK k \in m..n : /\ end[k] <= Len(file) /\ (k = n \/ Len(file) < end[k + 1])
                          /\ ReadIds(SubSeq(file, 1, Len(file)), end[m]) =
                                 [lines |-> Part(ids, m, k), offset |-> end[k]]
    <3> DEFINE len == Len(file)
    <3>1. len \in Nat /\ end[m] <= len /\ len <= Len(file)
      BY <2>5, <2>8
    <3> HIDE DEF len
    <3>2. \E k \in m..n : /\ end[k] <= len /\ (k = n \/ len < end[k + 1])
                          /\ ReadIds(SubSeq(file, 1, len), end[m]) =
                                 [lines |-> Part(ids, m, k), offset |-> end[k]]
      BY <2>2, <2>3, <2>4, <3>1, RefreshReads
    <3> QED BY <3>2 DEF len
  <2>10. k = n
    <3> SUFFICES ASSUME k # n PROVE FALSE
      OBVIOUS
    <3>1. k + 1 \in 0..n /\ n \in 0..n /\ k + 1 <= n /\ Len(file) < end[k + 1]
      BY <2>5, <2>9
    <3>2. end[k + 1] <= end[n] /\ end[k + 1] \in Nat
      BY <2>2, <2>4, <2>5, <3>1, EndsOrdered
    <3> QED BY <2>5, <3>1, <3>2
  <2>11. SubSeq(file, 1, Len(file)) = file
    BY <2>3, SubSeqFull
  <2>12. Part(ids, 0, m) \o Part(ids, m, n) = ids
    <3> DEFINE T == Range(ids)
               one == Part(ids, 0, m)
               other == Part(ids, m, n)
    <3>1. m \in Nat /\ m <= n /\ m \in 0..n /\ n \in m..n
      BY <2>5
    <3>2. one \in Seq(T) /\ Len(one) = m /\ \A i \in 1..m : one[i] = ids[i]
      <4>1. one \in Seq(T) /\ Len(one) = m - 0
        BY <2>2, <2>5, PartIsIdList
      <4>2. m - 0 = m /\ \A i \in 1..m : 0 + i = i
        BY <3>1
      <4> QED BY <4>1, <4>2 DEF Part
    <3>3. other \in Seq(T) /\ Len(other) = n - m /\ \A i \in 1..(n - m) : other[i] = ids[m + i]
      BY <2>2, <3>1, PartIsIdList DEF Part
    <3>4. ids \in Seq(T)
      BY <2>2 DEF IsIdList
    <3> HIDE DEF n, T, one, other
    <3>5. /\ one \o other \in Seq(T) /\ Len(one \o other) = Len(one) + Len(other)
          /\ \A i \in 1..(Len(one) + Len(other)) :
                 (one \o other)[i] = IF i <= Len(one) THEN one[i] ELSE other[i - Len(one)]
      BY <3>2, <3>3, ConcatProperties
    <3>6. Len(one) + Len(other) = n
      BY <2>5, <3>1, <3>2, <3>3
    <3>7. ASSUME NEW i \in 1..n PROVE (one \o other)[i] = ids[i]
      <4>1. CASE i <= m
        <5>1. i \in 1..m
          BY <4>1
        <5> QED BY <3>2, <3>5, <3>6, <4>1, <5>1
      <4>2. CASE ~(i <= m)
        <5>1. i - m \in 1..(n - m) /\ m + (i - m) = i
          BY <2>5, <3>1, <4>2
        <5>2. (one \o other)[i] = other[i - m]
          BY <3>2, <3>5, <3>6, <4>2
        <5> QED BY <3>3, <5>1, <5>2
      <4> QED BY <4>1, <4>2
    <3> DEFINE both == one \o other
    <3>8. both \in Seq(T) /\ Len(both) = n /\ \A i \in 1..n : both[i] = ids[i]
      BY <3>5, <3>6, <3>7
    <3> HIDE DEF both
    <3>9. both = ids
      BY <3>4, <3>8, SeqEqual DEF n
    <3> QED BY <3>9 DEF both, one, other
  <2> DEFINE early == ReadIds(SubSeq(file, 1, cut), 0)
             late == ReadIds(file, early.offset)
  <2>13. early = [lines |-> Part(ids, 0, m), offset |-> end[m]]
    BY <2>5, <2>7
  <2>14. late = [lines |-> Part(ids, m, n), offset |-> Len(file)]
    <3>1. early.offset = end[m]
      BY <2>13
    <3> HIDE DEF early
    <3> QED BY <2>5, <2>9, <2>10, <2>11, <3>1
  <2> HIDE DEF early, late
  <2>15. early.lines \o late.lines = ids /\ late.offset = Len(file)
    BY <2>12, <2>13, <2>14
  <2> QED BY <2>15 DEF early, late, file, ids, cut
<1>2. SidecarReadsExactly /\ [Next]_call => SidecarReadsExactly'
  BY CallStays DEF SidecarReadsExactly
<1> QED BY <1>1, <1>2, PTL DEF Spec
=============================================================================
