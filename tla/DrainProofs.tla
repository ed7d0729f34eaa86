----------------------------- MODULE DrainProofs -----------------------------
(***************************************************************************)
(* Theorems about Drain, for any events, watchers, queue and bounds.  The  *)
(* ones on what the session queued assume a broker that keeps it.          *)
(***************************************************************************)
EXTENDS Drain, Integers, SequenceTheorems, TLAPS

(* A sequence without one of its elements.                                 *)
Without(s, i) == SubSeq(s, 1, i - 1) \o SubSeq(s, i + 1, Len(s))

(* It is shorter by one, and what followed moves up.                       *)
LEMMA Removed ==
    ASSUME NEW S, NEW s \in Seq(S), NEW i \in 1..Len(s)
    PROVE  /\ Without(s, i) \in Seq(S) /\ Len(Without(s, i)) = Len(s) - 1
           /\ \A k \in 1..Len(Without(s, i)) :
                  Without(s, i)[k] = IF k < i THEN s[k] ELSE s[k + 1]
<1> DEFINE t == Without(s, i)
           a == SubSeq(s, 1, i - 1)
           b == SubSeq(s, i + 1, Len(s))
<1>1. Len(s) \in Nat /\ i \in Nat /\ i >= 1 /\ i <= Len(s)
  BY LenProperties
<1>2. /\ a \in Seq(S) /\ Len(a) = i - 1
      /\ \A k \in 1..(i - 1) : a[k] = s[k]
  BY <1>1
<1>3. /\ b \in Seq(S) /\ Len(b) = Len(s) - i
      /\ \A k \in 1..(Len(s) - i) : b[k] = s[i + k]
  BY <1>1
<1>4. t = a \o b
  BY DEF Without
<1> HIDE DEF t, a, b
<1>5. /\ t \in Seq(S) /\ Len(t) = Len(a) + Len(b)
      /\ \A k \in 1..(Len(a) + Len(b)) : t[k] = IF k <= Len(a) THEN a[k] ELSE b[k - Len(a)]
  <2>1. a \in Seq(S) /\ b \in Seq(S)
    BY <1>2, <1>3
  <2> QED
    BY <2>1, <1>4, ConcatProperties
<1>6. Len(t) = Len(s) - 1
  <2>1. Len(a) = i - 1 /\ Len(b) = Len(s) - i /\ Len(t) = Len(a) + Len(b)
    BY <1>2, <1>3, <1>5
  <2>2. (i - 1) + (Len(s) - i) = Len(s) - 1
    BY <1>1
  <2> QED
    BY <2>1, <2>2
<1>7. ASSUME NEW k \in 1..Len(t)
      PROVE  t[k] = IF k < i THEN s[k] ELSE s[k + 1]
  <2>0. k \in 1..(Len(s) - 1) /\ k \in 1..(Len(a) + Len(b))
    BY <1>5, <1>6, <1>7
  <2>1. CASE k < i
    <3>1. k \in 1..(i - 1) /\ k <= Len(a)
      BY <1>1, <1>2, <2>0, <2>1
    <3> QED
      BY <1>2, <1>5, <2>0, <2>1, <3>1
  <2>2. CASE ~(k < i)
    <3>1. k - Len(a) \in 1..(Len(s) - i) /\ ~(k <= Len(a)) /\ i + (k - Len(a)) = k + 1
      BY <1>1, <1>2, <2>0, <2>2
    <3> QED
      BY <1>3, <1>5, <2>0, <2>2, <3>1
  <2> QED
    BY <2>1, <2>2
<1> QED
  BY <1>5, <1>6, <1>7 DEF t

(* The first element of a sequence, and the others.                        *)
LEMMA HeadTail ==
    ASSUME NEW S, NEW s \in Seq(S), s # <<>>
    PROVE  /\ Head(s) \in S /\ Tail(s) \in Seq(S) /\ Len(Tail(s)) = Len(s) - 1
           /\ Head(s) = s[1] /\ Len(s) \in Nat \ {0}
           /\ \A k \in 1..Len(Tail(s)) : Tail(s)[k] = s[k + 1]
BY HeadTailProperties, EmptySeq

(* Positions in a sequence that is one longer.                             *)
LEMMA Within ==
    ASSUME NEW n \in Nat, NEW i \in 1..(n + 1), NEW j \in 1..(n + 1), i < j
    PROVE  i \in 1..n /\ (j \in 1..n \/ j = n + 1)
OBVIOUS

(* A sequence that is not empty has a first element.                       *)
LEMMA First ==
    ASSUME NEW S, NEW s \in Seq(S), s # <<>>
    PROVE  1 \in 1..Len(s)
<1>1. Len(s) \in Nat \ {0}
  BY EmptySeq
<1> QED
  BY <1>1

(* One more at the end.                                                    *)
LEMMA Appended ==
    ASSUME NEW S, NEW s \in Seq(S), NEW x \in S
    PROVE  /\ Append(s, x) \in Seq(S) /\ Len(Append(s, x)) = Len(s) + 1
           /\ Len(s) \in Nat
           /\ Append(s, x)[Len(s) + 1] = x
           /\ \A k \in 1..Len(s) : Append(s, x)[k] = s[k]
BY AppendProperties

-----------------------------------------------------------------------------
(* The types, part by part.                                                *)
BrokerOK ==
    /\ session \in BOOLEAN /\ subscribed \in BOOLEAN
    /\ queue \in Seq(Message) /\ lastMid \in Nat
    /\ conn \in Watcher \cup {Nobody}
    /\ sent \subseteq Nat /\ acks \subseteq Nat

StoreOK == history \in Seq(Event) /\ accepted \in Seq(Event)

StepOK ==
    /\ pc \in [Watcher -> States]
    /\ inbox \in [Watcher -> Seq(Message)]
    /\ hand \in [Watcher -> Message \cup {NoMessage}]

HandOK ==
    \A w \in Watcher :
        /\ pc[w] = "skip" => hand[w] # NoMessage /\ hand[w].body = Malformed
        /\ pc[w] \in {"persist", "read back", "ack"} =>
               hand[w] # NoMessage /\ hand[w].body \in Event

CallOK ==
    /\ found \in [Watcher -> Nat] /\ budget \in [Watcher -> 0..Max]
    /\ batch \in [Watcher -> Seq(Nat)] /\ cursor \in [Watcher -> Nat]
    /\ since \in [Watcher -> Nat] /\ seen \in [Watcher -> SUBSET Nat]

CountersOK == published \in Nat /\ faults \in Nat /\ losses \in Nat /\ reconnects \in Nat

(* Cursors and what was found stay within the history.                     *)
CursorsIn ==
    \A w \in Watcher :
        /\ since[w] <= Len(history) /\ found[w] <= Len(history)
        /\ pc[w] # "idle" => since[w] <= cursor[w] /\ cursor[w] <= Len(history)

Typed ==
    BrokerOK /\ StoreOK /\ StepOK /\ HandOK /\ CallOK /\ CountersOK /\ CursorsIn

(* The message on hand has its identifier and its body.                    *)
LEMMA OnHand ==
    ASSUME StepOK, HandOK, NEW w \in Watcher
    PROVE  /\ pc[w] \in {"skip", "persist", "read back", "ack"} =>
                  hand[w] \in Message /\ hand[w].mid \in Nat
           /\ pc[w] \in {"persist", "read back", "ack"} => hand[w].body \in Event
<1>1. pc[w] \in {"skip", "persist", "read back", "ack"} => hand[w] \in Message
  BY DEF StepOK, HandOK
<1>2. hand[w] \in Message => hand[w].mid \in Nat
  BY DEF Message
<1> QED
  BY <1>1, <1>2 DEF HandOK

(* The broker's side keeps its types.                                      *)
LEMMA BrokerTypes ==
    ASSUME BrokerOK, StepOK, HandOK, [Next]_vars
    PROVE  BrokerOK'
<1> USE DEF brokerVars, Disconnected
<1>1. ASSUME NEW b \in Body, Publish(b)
      PROVE  BrokerOK'
  <2>1. queue \in Seq(Message) /\ lastMid \in Nat
    BY DEF BrokerOK
  <2>2. [mid |-> lastMid + 1, body |-> b] \in Message
    BY <2>1 DEF Message
  <2>3. queue' \in Seq(Message) /\ lastMid' \in Nat
    BY <1>1, <2>1, <2>2 DEF Publish
  <2> QED
    BY <1>1, <2>3 DEF Publish, BrokerOK
<1>2. CASE Deliver
  <2>1. PICK i \in 1..Len(queue) : sent' = sent \cup {queue[i].mid}
    BY <1>2 DEF Deliver
  <2>2. queue[i] \in Message
    BY DEF BrokerOK
  <2>3. queue[i].mid \in Nat
    BY <2>2 DEF Message
  <2> QED
    BY <1>2, <2>1, <2>3 DEF Deliver, BrokerOK
<1>3. CASE ProcessAck
  <2>1. queue \in Seq(Message) /\ acks \subseteq Nat
    BY DEF BrokerOK
  <2>2. acks' \subseteq Nat
    BY <1>3, <2>1 DEF ProcessAck
  <2>3. queue' = queue \/ \E i \in 1..Len(queue) : queue' = Without(queue, i)
    BY <1>3 DEF ProcessAck, Without
  <2>4. queue' \in Seq(Message)
    BY <2>1, <2>3, Removed
  <2> QED
    BY <1>3, <2>2, <2>4 DEF ProcessAck, BrokerOK
<1>4. CASE DropConnection
  BY <1>4 DEF DropConnection, BrokerOK
<1>5. CASE LoseSession
  BY <1>5, EmptySeq DEF LoseSession, BrokerOK
<1>6. ASSUME NEW w \in Watcher, Open(w) \/ Reconnect(w)
      PROVE  BrokerOK'
  BY <1>6 DEF Open, Reconnect, Bind, BrokerOK
<1>7. ASSUME NEW w \in Watcher, Subscribe(w)
      PROVE  BrokerOK'
  BY <1>7 DEF Subscribe, BrokerOK
<1>8. ASSUME NEW w \in Watcher, Skip(w) \/ Ack(w)
      PROVE  BrokerOK'
  <2>1. hand[w].mid \in Nat
    BY <1>8, OnHand DEF Skip, Ack
  <2>2. SendAck(w)
    BY <1>8 DEF Skip, Ack
  <2> QED
    BY <2>1, <2>2 DEF SendAck, BrokerOK
<1>9. ASSUME NEW w \in Watcher, PersistRaises(w) \/ Close(w) \/ Fail(w)
      PROVE  BrokerOK'
  <2>1. /\ UNCHANGED <<session, subscribed, queue, lastMid>>
        /\ Disconnected \/ UNCHANGED <<conn, sent, acks>>
    BY <1>9 DEF PersistRaises, Close, Fail
  <2> QED
    BY <2>1 DEF BrokerOK
<1>10. CASE UNCHANGED brokerVars
  BY <1>10 DEF BrokerOK
<1>11. ASSUME NEW w \in Watcher,
              \/ ReplayHistory(w) \/ Take(w) \/ Persist(w) \/ ReadBack(w) \/ Stop(w)
              \/ Return(w)
       PROVE  UNCHANGED brokerVars
  BY <1>11 DEF ReplayHistory, Take, Persist, ReadBack, Stop, Return
<1> HIDE DEF brokerVars
<1>12. CASE UNCHANGED vars
  BY <1>10, <1>12 DEF vars, brokerVars
<1>13. CASE Broker
  BY <1>1, <1>2, <1>3, <1>4, <1>5, <1>13 DEF Broker
<1>14. ASSUME NEW w \in Watcher, Watch(w)
       PROVE  BrokerOK'
  BY <1>6, <1>7, <1>8, <1>9, <1>10, <1>11, <1>14 DEF Watch, Consume
<1> QED
  BY <1>12, <1>13, <1>14 DEF Next

(* The store grows by one event or not at all.                             *)
LEMMA StoreTypes ==
    ASSUME StoreOK, StepOK, HandOK, [Next]_vars
    PROVE  StoreOK' /\ Len(history) \in Nat /\ Len(history') \in Nat
           /\ Len(history) <= Len(history')
           /\ \A s \in 1..Len(history) : s \in 1..Len(history') /\ history'[s] = history[s]
<1>0. history \in Seq(Event) /\ accepted \in Seq(Event) /\ Len(history) \in Nat
  BY DEF StoreOK
<1>1. ASSUME NEW b \in Body, Publish(b)
      PROVE  accepted' \in Seq(Event) /\ UNCHANGED history
  <2>1. b # Malformed => b \in Event
    BY DEF Body
  <2> QED
    BY <1>0, <1>1, <2>1 DEF Publish
<1>2. CASE LoseSession
  BY <1>0, <1>2 DEF LoseSession, StoreOK
<1>3. ASSUME NEW w \in Watcher, Persist(w)
      PROVE  UNCHANGED accepted
             /\ (UNCHANGED history \/ \E e \in Event : history' = Append(history, e))
  <2>1. hand[w].body \in Event
    BY <1>3, OnHand DEF Persist
  <2> QED
    BY <1>3, <2>1 DEF Persist
<1>4. CASE UNCHANGED <<history, accepted>>
  BY <1>0, <1>4 DEF StoreOK
<1>5. CASE accepted' \in Seq(Event) /\ UNCHANGED history
  BY <1>0, <1>5 DEF StoreOK
<1>6. ASSUME NEW e \in Event, history' = Append(history, e), UNCHANGED accepted
      PROVE  /\ history' \in Seq(Event) /\ Len(history') = Len(history) + 1
             /\ \A s \in 1..Len(history) : history'[s] = history[s]
  BY <1>0, <1>6, Appended
<1>7. CASE UNCHANGED accepted /\ \E e \in Event : history' = Append(history, e)
  BY <1>0, <1>6, <1>7 DEF StoreOK
<1>8. ASSUME NEW w \in Watcher, Watch(w), ~Persist(w)
      PROVE  UNCHANGED <<history, accepted>>
  BY <1>8 DEF Watch, Consume, ReplayHistory, Open, Subscribe, Take, PersistRaises,
              ReadBack, Skip, Ack, Stop, Close, Return, Fail, Reconnect
<1>9. CASE Deliver \/ ProcessAck \/ DropConnection
  BY <1>4, <1>9 DEF Deliver, ProcessAck, DropConnection
<1>10. CASE UNCHANGED vars
  BY <1>4, <1>10 DEF vars
<1>11. CASE Broker
  BY <1>1, <1>2, <1>5, <1>9, <1>11 DEF Broker
<1>12. ASSUME NEW w \in Watcher, Watch(w)
       PROVE  \/ UNCHANGED <<history, accepted>>
              \/ UNCHANGED accepted /\ \E e \in Event : history' = Append(history, e)
  BY <1>3, <1>8, <1>12
<1> QED
  BY <1>4, <1>7, <1>10, <1>11, <1>12 DEF Next

(* One watcher goes on, and its message with it.                           *)
LEMMA Moves ==
    ASSUME StepOK, NEW w \in Watcher, NEW l \in States,
           NEW m \in Message \cup {NoMessage}, NEW q \in Seq(Message),
           pc' = [pc EXCEPT ![w] = l],
           hand' = hand \/ hand' = [hand EXCEPT ![w] = m],
           inbox' = inbox \/ inbox' = [inbox EXCEPT ![w] = q]
    PROVE  StepOK'
BY DEF StepOK

(* So every step does.                                                     *)
LEMMA StepTypes ==
    ASSUME BrokerOK, StepOK, [Next]_vars
    PROVE  StepOK'
<1> USE DEF drainVars, Goto
<1>1. CASE Deliver
  <2>1. CASE inbox' = inbox
    BY <1>1, <2>1 DEF Deliver, StepOK
  <2>2. CASE inbox' # inbox
    <3>1. PICK i \in 1..Len(queue) : inbox' = [inbox EXCEPT ![conn] = Append(@, queue[i])]
      BY <1>1, <2>2 DEF Deliver
    <3>2. queue[i] \in Message /\ conn \in Watcher
      BY <1>1 DEF BrokerOK, Deliver
    <3>3. inbox \in [Watcher -> Seq(Message)]
      BY DEF StepOK
    <3>4. inbox' \in [Watcher -> Seq(Message)]
      BY <3>1, <3>2, <3>3
    <3> QED
      BY <1>1, <3>4 DEF Deliver, StepOK
  <2> QED
    BY <2>1, <2>2
<1>2. CASE UNCHANGED <<pc, inbox, hand>>
  BY <1>2 DEF StepOK
<1>3. ASSUME NEW w \in Watcher, Take(w)
      PROVE  StepOK'
  <2>1. inbox[w] \in Seq(Message) /\ inbox[w] # <<>>
    BY <1>3 DEF Take, StepOK
  <2>2. Head(inbox[w]) \in Message /\ Tail(inbox[w]) \in Seq(Message)
    BY <2>1, HeadTail
  <2>3. {"skip", "persist"} \subseteq States
    BY DEF States
  <2>4. /\ hand' = [hand EXCEPT ![w] = Head(inbox[w])]
        /\ inbox' = [inbox EXCEPT ![w] = Tail(inbox[w])]
        /\ pc' = [pc EXCEPT ![w] = IF Head(inbox[w]).body = Malformed THEN "skip" ELSE "persist"]
    BY <1>3 DEF Take
  <2> QED
    BY <2>2, <2>3, <2>4, Moves
<1>4. ASSUME NEW w \in Watcher,
             \/ ReplayHistory(w) \/ Open(w) \/ Subscribe(w) \/ Persist(w) \/ PersistRaises(w)
             \/ ReadBack(w) \/ Skip(w) \/ Ack(w) \/ Stop(w) \/ Close(w) \/ Return(w) \/ Fail(w)
      PROVE  StepOK'
  <2>1. <<>> \in Seq(Message) /\ NoMessage \in Message \cup {NoMessage}
    BY EmptySeq
  <2>2. {"idle", "open", "subscribe", "consume", "read back", "ack", "close", "return"}
            \subseteq States
    BY DEF States
  <2>3. \E l \in {"idle", "open", "subscribe", "consume", "read back", "ack", "close", "return"} :
            pc' = [pc EXCEPT ![w] = l]
    BY <1>4 DEF ReplayHistory, Open, Subscribe, Persist, PersistRaises, ReadBack, Skip, Ack,
                Stop, Close, Return, Fail
  <2>4. /\ hand' = hand \/ hand' = [hand EXCEPT ![w] = NoMessage]
        /\ inbox' = inbox \/ inbox' = [inbox EXCEPT ![w] = <<>>]
    BY <1>4 DEF ReplayHistory, Open, Subscribe, Persist, PersistRaises, ReadBack, Skip, Ack,
                Stop, Close, Return, Fail
  <2> QED
    BY <2>1, <2>2, <2>3, <2>4, Moves
<1>5. ASSUME NEW w \in Watcher, Reconnect(w)
      PROVE  StepOK'
  BY <1>2, <1>5 DEF Reconnect
<1>6. CASE UNCHANGED vars
  BY <1>2, <1>6 DEF vars
<1>7. CASE Broker
  BY <1>1, <1>2, <1>7 DEF Broker, Publish, ProcessAck, DropConnection, LoseSession
<1> QED
  BY <1>3, <1>4, <1>5, <1>6, <1>7 DEF Next, Watch, Consume

(* A step that stores or acknowledges has an event on hand.                *)
LEMMA HandTypes ==
    ASSUME StepOK, HandOK, [Next]_vars
    PROVE  HandOK'
<1> USE DEF drainVars, Goto
<1>1. CASE UNCHANGED <<pc, hand>>
  BY <1>1 DEF HandOK
<1>2. ASSUME NEW w \in Watcher, Watch(w), NEW v \in Watcher
      PROVE  /\ pc'[v] = "skip" => hand'[v] # NoMessage /\ hand'[v].body = Malformed
             /\ pc'[v] \in {"persist", "read back", "ack"} =>
                    hand'[v] # NoMessage /\ hand'[v].body \in Event
  <2>1. CASE v # w
    <3>1. pc'[v] = pc[v] /\ hand'[v] = hand[v]
      BY <1>2, <2>1
         DEF StepOK, Watch, Consume, ReplayHistory, Open, Subscribe, Take, Persist, PersistRaises,
             ReadBack, Skip, Ack, Stop, Close, Return, Fail, Reconnect
    <3> QED
      BY <3>1 DEF HandOK
  <2>2. CASE v = w /\ Take(w)
    <3>1. inbox[w] \in Seq(Message) /\ inbox[w] # <<>>
      BY <2>2 DEF Take, StepOK
    <3>2. Head(inbox[w]) \in Message
      BY <3>1, HeadTail
    <3>3. Head(inbox[w]) # NoMessage /\ Head(inbox[w]).body \in Event \cup {Malformed}
      BY <3>2, NoMessageAssumption DEF Message, Body
    <3>4. hand'[w] = Head(inbox[w])
          /\ pc'[w] = IF Head(inbox[w]).body = Malformed THEN "skip" ELSE "persist"
      BY <2>2 DEF Take, StepOK
    <3> QED
      BY <2>2, <3>3, <3>4
  <2>3. CASE v = w /\ (Persist(w) \/ ReadBack(w) \/ Reconnect(w))
    BY <2>3 DEF StepOK, HandOK, Persist, ReadBack, Reconnect
  <2>4. CASE /\ v = w
             /\ \/ ReplayHistory(w) \/ Open(w) \/ Subscribe(w) \/ PersistRaises(w) \/ Skip(w)
                \/ Ack(w) \/ Stop(w) \/ Close(w) \/ Return(w) \/ Fail(w)
    <3>1. pc'[w] \in {"idle", "open", "subscribe", "consume", "close", "return"}
      BY <2>4 DEF StepOK, ReplayHistory, Open, Subscribe, PersistRaises, Skip, Ack, Stop, Close,
                  Return, Fail
    <3> QED
      BY <2>4, <3>1
  <2> QED
    BY <1>2, <2>1, <2>2, <2>3, <2>4 DEF Watch, Consume
<1>3. CASE UNCHANGED vars
  BY <1>1, <1>3 DEF vars
<1>4. CASE Broker
  BY <1>1, <1>4 DEF Broker, Publish, Deliver, ProcessAck, DropConnection, LoseSession
<1> QED
  BY <1>2, <1>3, <1>4 DEF Next, HandOK

(* Counters count.                                                         *)
LEMMA CounterTypes ==
    ASSUME CountersOK, [Next]_vars
    PROVE  CountersOK'
<1> DEFINE Counts == /\ published' \in {published, published + 1}
                     /\ faults' \in {faults, faults + 1}
                     /\ losses' \in {losses, losses + 1}
                     /\ reconnects' \in {reconnects, reconnects + 1}
<1>0. Counts => CountersOK'
  BY DEF CountersOK
<1> USE DEF boundVars
<1>1. CASE Broker
  <2>1. CASE \E b \in Body : Publish(b)
    BY <1>0, <2>1 DEF Publish
  <2>2. CASE Deliver \/ ProcessAck \/ DropConnection \/ LoseSession
    BY <1>0, <2>2 DEF Deliver, ProcessAck, DropConnection, LoseSession
  <2> QED
    BY <1>1, <2>1, <2>2 DEF Broker
<1>2. ASSUME NEW w \in Watcher, Watch(w)
      PROVE  Counts
  BY <1>2 DEF Watch, Consume, ReplayHistory, Open, Subscribe, Take, Persist, PersistRaises,
              ReadBack, Skip, Ack, Stop, Close, Return, Fail, Reconnect
<1>3. CASE UNCHANGED vars
  BY <1>0, <1>3 DEF vars
<1> QED
  BY <1>0, <1>1, <1>2, <1>3 DEF Next

(* An interval has one end.                                                *)
LEMMA SameEnd ==
    ASSUME NEW m \in Nat, NEW n \in Nat, 1..m = 1..n
    PROVE  m = n
<1>1. m \in 1..m \/ m = 0
  OBVIOUS
<1>2. n \in 1..n \/ n = 0
  OBVIOUS
<1> QED
  BY <1>1, <1>2

(* The page that a watch replays.                                          *)
LEMMA Page ==
    ASSUME NEW from \in Nat, NEW length \in Nat, from <= length,
           NEW upto, upto = Smaller(from + Max, length),
           NEW page, page = [i \in 1..(upto - from) |-> from + i]
    PROVE  /\ upto \in Nat /\ from <= upto /\ upto <= length
           /\ page \in Seq(Nat) /\ Max - Len(page) \in 0..Max
<1>1. /\ upto \in Nat /\ from <= upto /\ upto <= length
      /\ upto - from \in Nat /\ upto - from <= Max
  BY MaxAssumption DEF Smaller
<1> DEFINE n == upto - from
<1>2. n \in Nat /\ n <= Max
  BY <1>1
<1> HIDE DEF n
<1>3. page = [i \in 1..n |-> from + i]
  BY DEF n
<1>4. \A i \in 1..n : from + i \in Nat
  BY <1>2
<1>5. page \in Seq(Nat) /\ Len(page) = n
  <2>1. page \in [1..n -> Nat]
    BY <1>3, <1>4
  <2>2. page \in Seq(Nat)
    BY <1>2, <2>1, SeqDef
  <2>3. DOMAIN page = 1..n /\ DOMAIN page = 1..Len(page) /\ Len(page) \in Nat
    BY <1>3, <2>2, LenProperties
  <2>4. Len(page) = n
    BY <1>2, <2>3, SameEnd
  <2> QED
    BY <2>2, <2>4
<1>6. Max - n \in 0..Max
  BY <1>2, MaxAssumption
<1> QED
  BY <1>1, <1>5, <1>6

(* Where the store has an event, or gives it a place.                      *)
LEMMA Place ==
    ASSUME StoreOK, StepOK, HandOK, NEW w \in Watcher, Persist(w)
    PROVE  \E n \in Nat : found' = [found EXCEPT ![w] = n] /\ n <= Len(history')
<1>0. Len(history) \in Nat /\ history \in Seq(Event) /\ hand[w].body \in Event
  <2>1. pc[w] = "persist"
    BY DEF Persist
  <2>2. hand[w].body \in Event
    BY <2>1, OnHand
  <2>3. history \in Seq(Event)
    BY DEF StoreOK
  <2> QED
    BY <2>2, <2>3, LenProperties
<1>1. CASE Stored(hand[w].body)
  <2> DEFINE n == SeqOf(hand[w].body)
  <2>1. n \in 1..Len(history)
    BY <1>1 DEF Stored, SeqOf
  <2>2. found' = [found EXCEPT ![w] = n] /\ history' = history
    BY <1>1 DEF Persist
  <2> HIDE DEF n
  <2>3. n \in Nat /\ n <= Len(history')
    BY <1>0, <2>1, <2>2
  <2> QED
    BY <2>2, <2>3
<1>2. CASE ~Stored(hand[w].body)
  <2>1. found' = [found EXCEPT ![w] = Len(history) + 1]
        /\ history' = Append(history, hand[w].body)
    BY <1>2 DEF Persist
  <2>2. Len(history') = Len(history) + 1
    BY <1>0, <2>1, Appended
  <2>3. Len(history) + 1 \in Nat /\ Len(history) + 1 <= Len(history')
    BY <1>0, <2>2
  <2> QED
    BY <2>1, <2>3
<1> QED
  BY <1>1, <1>2

(* What a call collects, and what its caller has.                          *)
LEMMA CallTypes ==
    ASSUME StoreOK, StepOK, HandOK, CallOK, CursorsIn, [Next]_vars
    PROVE  CallOK' /\ CursorsIn'
<1> USE DEF drainVars, callerVars, Goto
<1>0. /\ Len(history) \in Nat /\ Len(history') \in Nat /\ Len(history) <= Len(history')
      /\ \A v \in Watcher : since[v] \in Nat /\ found[v] \in Nat /\ cursor[v] \in Nat
      /\ pc \in [Watcher -> States]
  BY StoreTypes DEF CallOK, StepOK
<1>1. ASSUME NEW w \in Watcher, ReplayHistory(w)
      PROVE  CallOK' /\ CursorsIn'
  <2>1. since[w] \in Nat /\ since[w] <= Len(history)
    BY <1>0 DEF CursorsIn
  <2> DEFINE upto == Smaller(since[w] + Max, Len(history))
             page == [i \in 1..(upto - since[w]) |-> since[w] + i]
  <2>2. /\ upto \in Nat /\ since[w] <= upto /\ upto <= Len(history)
        /\ page \in Seq(Nat) /\ Max - Len(page) \in 0..Max
    BY <1>0, <2>1, Page
  <2>3. /\ batch' = [batch EXCEPT ![w] = page] /\ cursor' = [cursor EXCEPT ![w] = upto]
        /\ budget' = [budget EXCEPT ![w] = Max - Len(page)]
        /\ UNCHANGED <<since, seen, found, history>>
        /\ \A v \in Watcher : v # w => pc'[v] = pc[v]
    BY <1>0, <1>1 DEF ReplayHistory
  <2> HIDE DEF upto, page
  <2>4. CallOK'
    BY <2>2, <2>3 DEF CallOK
  <2>5. CursorsIn'
    BY <1>0, <2>2, <2>3 DEF CallOK, CursorsIn
  <2> QED
    BY <2>4, <2>5
<1>2. ASSUME NEW w \in Watcher, Take(w)
      PROVE  CallOK' /\ CursorsIn'
  <2>1. budget[w] \in 0..Max /\ budget[w] > 0 /\ budget' = [budget EXCEPT ![w] = budget[w] - 1]
    BY <1>2 DEF Take, CallOK
  <2>2. budget[w] - 1 \in 0..Max
    BY <2>1, MaxAssumption
  <2>3. CallOK'
    BY <1>2, <2>1, <2>2 DEF Take, CallOK
  <2>4. \A v \in Watcher : pc'[v] # "idle" => pc[v] # "idle"
    BY <1>0, <1>2 DEF Take
  <2>5. CursorsIn'
    BY <1>2, <2>4 DEF Take, CursorsIn
  <2> QED
    BY <2>3, <2>5
<1>3. ASSUME NEW w \in Watcher, Persist(w)
      PROVE  CallOK' /\ CursorsIn'
  <2>1. PICK n \in Nat : found' = [found EXCEPT ![w] = n] /\ n <= Len(history')
    BY <1>3, Place
  <2>2. UNCHANGED <<budget, batch, cursor, since, seen>>
        /\ \A v \in Watcher : pc'[v] # "idle" => pc[v] # "idle"
    BY <1>0, <1>3 DEF Persist
  <2>3. CallOK'
    BY <2>1, <2>2 DEF CallOK
  <2>4. \A v \in Watcher : found'[v] = (IF v = w THEN n ELSE found[v])
    BY <2>1 DEF CallOK
  <2>5. CursorsIn'
    BY <1>0, <2>1, <2>2, <2>4 DEF CursorsIn
  <2> QED
    BY <2>3, <2>5
<1>4. ASSUME NEW w \in Watcher, Ack(w)
      PROVE  CallOK' /\ CursorsIn'
  <2> DEFINE reached == Larger(cursor[w], found[w])
  <2>1. /\ reached \in Nat
        /\ since[w] <= reached /\ reached <= Len(history)
    BY <1>0, <1>4 DEF Ack, Larger, CursorsIn
  <2>2. Append(batch[w], found[w]) \in Seq(Nat)
    <3>1. batch[w] \in Seq(Nat) /\ found[w] \in Nat
      BY DEF CallOK
    <3> QED
      BY <3>1, Appended
  <2>3. /\ batch' = [batch EXCEPT ![w] = Append(batch[w], found[w])]
        /\ cursor' = [cursor EXCEPT ![w] = reached] /\ found' = [found EXCEPT ![w] = 0]
        /\ UNCHANGED <<budget, since, seen, history>>
        /\ \A v \in Watcher : pc'[v] # "idle" => pc[v] # "idle"
    BY <1>0, <1>4 DEF Ack
  <2> HIDE DEF reached
  <2>4. CallOK'
    BY <2>1, <2>2, <2>3 DEF CallOK
  <2>5. \A v \in Watcher : /\ found'[v] = (IF v = w THEN 0 ELSE found[v])
                           /\ cursor'[v] = (IF v = w THEN reached ELSE cursor[v])
    BY <2>3 DEF CallOK
  <2>6. CursorsIn'
    BY <1>0, <2>1, <2>3, <2>5 DEF CursorsIn
  <2> QED
    BY <2>4, <2>6
<1>5. ASSUME NEW w \in Watcher, Return(w)
      PROVE  CallOK' /\ CursorsIn'
  <2>1. batch[w] \in Seq(Nat)
    BY DEF CallOK
  <2>2. RangeOf(batch[w]) \subseteq Nat
    BY <2>1 DEF RangeOf
  <2>3. /\ since' = [since EXCEPT ![w] = cursor[w]]
        /\ seen' = [seen EXCEPT ![w] = seen[w] \cup RangeOf(batch[w])]
        /\ batch' = [batch EXCEPT ![w] = <<>>]
        /\ UNCHANGED <<budget, found, cursor, history>>
        /\ pc[w] = "return" /\ pc' = [pc EXCEPT ![w] = "idle"]
    BY <1>5 DEF Return
  <2>4. CallOK'
    BY <1>0, <2>2, <2>3, EmptySeq DEF CallOK
  <2>5. \A v \in Watcher : /\ since'[v] = (IF v = w THEN cursor[w] ELSE since[v])
                           /\ pc'[v] = (IF v = w THEN "idle" ELSE pc[v])
    BY <1>0, <2>3 DEF CallOK
  <2>6. CursorsIn'
    BY <1>0, <2>3, <2>5 DEF CursorsIn
  <2> QED
    BY <2>4, <2>6
<1>6. ASSUME NEW w \in Watcher, Fail(w)
      PROVE  CallOK' /\ CursorsIn'
  <2>1. /\ found' = [found EXCEPT ![w] = 0] /\ batch' = [batch EXCEPT ![w] = <<>>]
        /\ UNCHANGED <<budget, cursor, since, seen, history>>
        /\ pc' = [pc EXCEPT ![w] = "idle"]
    BY <1>6 DEF Fail
  <2>2. CallOK'
    BY <2>1, EmptySeq DEF CallOK
  <2>3. \A v \in Watcher : /\ found'[v] = (IF v = w THEN 0 ELSE found[v])
                           /\ pc'[v] = (IF v = w THEN "idle" ELSE pc[v])
    BY <1>0, <2>1 DEF CallOK
  <2>4. CursorsIn'
    BY <1>0, <2>1, <2>3 DEF CursorsIn
  <2> QED
    BY <2>2, <2>4
<1>7. ASSUME NEW w \in Watcher, PersistRaises(w)
      PROVE  CallOK' /\ CursorsIn'
  <2>1. batch' = [batch EXCEPT ![w] = <<>>]
        /\ UNCHANGED <<budget, cursor, since, seen, history, found>>
        /\ \A v \in Watcher : pc'[v] # "idle" => pc[v] # "idle"
    BY <1>0, <1>7 DEF PersistRaises
  <2> QED
    BY <2>1, EmptySeq DEF CallOK, CursorsIn
<1>8. CASE /\ UNCHANGED <<found, budget, batch, cursor, since, seen, history>>
           /\ \A v \in Watcher : pc'[v] # "idle" => pc[v] # "idle"
  BY <1>8 DEF CallOK, CursorsIn
<1>9. ASSUME NEW w \in Watcher,
             \/ Open(w) \/ Subscribe(w) \/ ReadBack(w) \/ Skip(w) \/ Stop(w) \/ Close(w)
             \/ Reconnect(w)
      PROVE  CallOK' /\ CursorsIn'
  BY <1>0, <1>8, <1>9 DEF Open, Subscribe, ReadBack, Skip, Stop, Close, Reconnect
<1>10. CASE UNCHANGED vars
  BY <1>8, <1>10 DEF vars
<1>11. CASE Broker
  BY <1>8, <1>11 DEF Broker, Publish, Deliver, ProcessAck, DropConnection, LoseSession
<1> QED
  BY <1>1, <1>2, <1>3, <1>4, <1>5, <1>6, <1>7, <1>9, <1>10, <1>11 DEF Next, Watch, Consume

(* All parts hold at the start.                                            *)
LEMMA InitTyped == Init => Typed
<1> SUFFICES ASSUME Init PROVE Typed
  OBVIOUS
<1>1. BrokerOK /\ StoreOK
  BY EmptySeq DEF Init, BrokerOK, StoreOK
<1>2. StepOK
  BY EmptySeq DEF Init, StepOK, States
<1>3. HandOK
  BY DEF Init, HandOK
<1>4. CallOK
  BY EmptySeq, MaxAssumption DEF Init, CallOK
<1>5. CountersOK
  BY DEF Init, CountersOK
<1>6. CursorsIn
  BY EmptySeq DEF Init, CursorsIn
<1> QED
  BY <1>1, <1>2, <1>3, <1>4, <1>5, <1>6 DEF Typed

(* So they hold throughout.                                                *)
LEMMA TypedAlways == Spec => []Typed
<1>1. Typed /\ [Next]_vars => Typed'
  BY BrokerTypes, StoreTypes, StepTypes, HandTypes, CallTypes, CounterTypes DEF Typed
<1> QED
  BY <1>1, InitTyped, PTL DEF Spec

(* The types of the broker, the store and the calls, and what each step of *)
(* a drain has in hand: drain.py and watch.py.                             *)
THEOREM DrainTypeCorrect == Spec => []TypeOK
<1>1. Typed => TypeOK
  BY DEF Typed, BrokerOK, StoreOK, StepOK, HandOK, CallOK, CountersOK, TypeOK
<1> QED
  BY <1>1, TypedAlways, PTL

(* The cursor a caller holds never moves backwards, whatever is redelivered*)
(* and whoever else stores events: drain.py 160-164.                       *)
THEOREM CursorsAdvance == Spec => CursorNeverRewinds
<1>1. ASSUME Typed, [Next]_vars, NEW w \in Watcher
      PROVE  since[w] <= since'[w]
  <2>0. since[w] \in Nat /\ cursor[w] \in Nat /\ since \in [Watcher -> Nat]
    BY <1>1 DEF Typed, CallOK
  <2>1. ASSUME NEW v \in Watcher, Return(v)
        PROVE  since[w] <= since'[w]
    <3>1. CASE v = w
      BY <1>1, <2>0, <2>1, <3>1 DEF Return, Typed, CursorsIn
    <3>2. CASE v # w
      BY <2>0, <2>1, <3>2 DEF Return
    <3> QED
      BY <3>1, <3>2
  <2>2. CASE UNCHANGED since
    BY <2>0, <2>2
  <2>3. ASSUME NEW v \in Watcher, Watch(v), ~Return(v)
        PROVE  UNCHANGED since
    BY <2>3 DEF callerVars, Watch, Consume, ReplayHistory, Open, Subscribe, Take, Persist,
                PersistRaises, ReadBack, Skip, Ack, Stop, Close, Fail, Reconnect
  <2>4. CASE Broker
    BY <2>2, <2>4 DEF callerVars, Broker, Publish, Deliver, ProcessAck, DropConnection,
                      LoseSession
  <2> QED
    BY <1>1, <2>1, <2>2, <2>3, <2>4 DEF Next, vars
<1>2. Typed /\ [Next]_vars => [\A w \in Watcher : since[w] <= since'[w]]_vars
  BY <1>1
<1> QED
  BY <1>2, TypedAlways, PTL DEF Spec, CursorNeverRewinds

-----------------------------------------------------------------------------
(* What is known of messages on their way while the session is kept.       *)

(* Identifiers grow along the queue, and none is from the future.          *)
MidsGrow ==
    /\ \A i \in 1..Len(queue) : queue[i].mid <= lastMid
    /\ \A i, j \in 1..Len(queue) : i < j => queue[i].mid < queue[j].mid
    /\ \A m \in acks : m <= lastMid
    /\ \A m \in sent : m <= lastMid

(* A message is the queued one with its identifier, if that still is there,*)
(* and its event has been accepted.                                        *)
KnownBy(m, last, q, heard) ==
    /\ m.mid <= last
    /\ \A i \in 1..Len(q) : q[i].mid = m.mid => q[i] = m
    /\ m.body # Malformed => m.body \in RangeOf(heard)

Known(m) == KnownBy(m, lastMid, queue, accepted)

Holding == {"skip", "persist", "read back", "ack"}

AllKnown ==
    /\ \A i \in 1..Len(queue) : Known(queue[i])
    /\ \A w \in Watcher : \A k \in 1..Len(inbox[w]) : Known(inbox[w][k])
    /\ \A w \in Watcher : pc[w] \in Holding => Known(hand[w])

(* What is read back or acknowledged has been stored.                      *)
HandStored ==
    \A w \in Watcher : pc[w] \in {"read back", "ack"} => Stored(hand[w].body)

(* A PUBACK on its way is for a message nobody needs any more.             *)
AcksTrue ==
    \A i \in 1..Len(queue) :
        queue[i].mid \in acks => queue[i].body = Malformed \/ Stored(queue[i].body)

Safe == MidsGrow /\ AllKnown /\ HandStored /\ AcksTrue /\ NothingLost


(* A publish that the session queues, and a PUBACK that takes the i-th     *)
(* message off the queue.                                                  *)
Enqueue(b) ==
    /\ queue' = Append(queue, [mid |-> lastMid + 1, body |-> b])
    /\ lastMid' = lastMid + 1
    /\ accepted' = IF b = Malformed \/ b \in RangeOf(accepted)
                   THEN accepted ELSE Append(accepted, b)
    /\ UNCHANGED <<conn, sent, acks, history, pc, inbox, hand>>

Dequeue(i) ==
    /\ queue[i].mid \in acks
    /\ queue' = Without(queue, i)
    /\ acks' \subseteq acks
    /\ UNCHANGED <<lastMid, accepted, conn, sent, history, pc, inbox, hand>>

(* There is no other way to change the queue, if sessions are not lost.    *)
LEMMA QueueCases ==
    ASSUME MaxLosses = 0, Typed, [Next]_vars
    PROVE  \/ UNCHANGED <<queue, lastMid, accepted>>
           \/ \E b \in Body : Enqueue(b)
           \/ \E i \in 1..Len(queue) : Dequeue(i)
<1> USE DEF brokerVars, drainVars
<1>1. ~LoseSession
  BY DEF LoseSession, Typed, CountersOK
<1>2. ASSUME NEW b \in Body, Publish(b)
      PROVE  Enqueue(b) \/ UNCHANGED <<queue, lastMid, accepted>>
  BY <1>2 DEF Publish, Enqueue
<1>3. CASE ProcessAck
  <2>1. CASE UNCHANGED queue
    BY <1>3, <2>1 DEF ProcessAck
  <2>2. CASE ~UNCHANGED queue
    BY <1>3, <2>2 DEF ProcessAck, Dequeue, Without
  <2> QED
    BY <2>1, <2>2
<1>4. CASE Deliver \/ DropConnection
  BY <1>4 DEF Deliver, DropConnection
<1>5. ASSUME NEW w \in Watcher, Watch(w)
      PROVE  UNCHANGED <<queue, lastMid, accepted>>
  BY <1>5 DEF Watch, Consume, ReplayHistory, Open, Subscribe, Take, Persist, PersistRaises,
              ReadBack, Skip, Ack, Stop, Close, Return, Fail, Reconnect, Bind, SendAck
<1>6. CASE UNCHANGED vars
  BY <1>6 DEF vars
<1> QED
  BY <1>1, <1>2, <1>3, <1>4, <1>5, <1>6 DEF Next, Broker

(* What the queue holds after a publish.                                   *)
LEMMA Enqueued ==
    ASSUME Typed, NEW b \in Body, Enqueue(b)
    PROVE  /\ Len(queue) \in Nat /\ lastMid \in Nat /\ Len(queue') = Len(queue) + 1
           /\ queue'[Len(queue) + 1].mid = lastMid + 1 /\ queue'[Len(queue) + 1].body = b
           /\ \A i \in 1..Len(queue) : queue'[i] = queue[i]
<1>1. queue \in Seq(Message) /\ lastMid \in Nat
  BY DEF Typed, BrokerOK
<1> DEFINE new == [mid |-> lastMid + 1, body |-> b]
<1>2. new \in Message /\ new.mid = lastMid + 1 /\ new.body = b
  BY <1>1 DEF Message
<1>3. queue' = Append(queue, new)
  BY DEF Enqueue
<1> HIDE DEF new
<1> QED
  BY <1>1, <1>2, <1>3, Appended

(* After a PUBACK.                                                         *)
LEMMA Dequeued ==
    ASSUME Typed, NEW i \in 1..Len(queue), Dequeue(i)
    PROVE  /\ Len(queue) \in Nat /\ Len(queue') = Len(queue) - 1
           /\ \A k \in 1..Len(queue') : queue'[k] = IF k < i THEN queue[k] ELSE queue[k + 1]
<1>1. queue \in Seq(Message)
  BY DEF Typed, BrokerOK
<1>2. queue' = Without(queue, i)
  BY DEF Dequeue
<1> QED
  BY <1>1, <1>2, Removed, LenProperties

(* Every message queued is an older one or the newest of all.              *)
LEMMA QueueFrom ==
    ASSUME MaxLosses = 0, Typed, [Next]_vars
    PROVE  /\ lastMid \in Nat /\ lastMid' \in Nat /\ lastMid <= lastMid'
           /\ \A i \in 1..Len(queue') :
                  \/ \E j \in 1..Len(queue) : queue'[i] = queue[j]
                  \/ queue'[i].mid = lastMid + 1 /\ lastMid' = lastMid + 1
<1>1. CASE UNCHANGED <<queue, lastMid, accepted>>
  BY <1>1 DEF Typed, BrokerOK
<1>2. ASSUME NEW b \in Body, Enqueue(b)
      PROVE  /\ lastMid \in Nat /\ lastMid' = lastMid + 1
             /\ \A i \in 1..Len(queue') :
                  \/ \E j \in 1..Len(queue) : queue'[i] = queue[j]
                  \/ queue'[i].mid = lastMid + 1
  <2>1. /\ Len(queue) \in Nat /\ lastMid \in Nat /\ Len(queue') = Len(queue) + 1
        /\ queue'[Len(queue) + 1].mid = lastMid + 1
        /\ \A i \in 1..Len(queue) : queue'[i] = queue[i]
    BY <1>2, Enqueued
  <2>2. \A i \in 1..Len(queue') : i \in 1..Len(queue) \/ i = Len(queue) + 1
    BY <2>1
  <2> QED
    BY <1>2, <2>1, <2>2 DEF Enqueue
<1>3. ASSUME NEW i \in 1..Len(queue), Dequeue(i)
      PROVE  /\ lastMid \in Nat /\ lastMid' = lastMid
             /\ \A k \in 1..Len(queue') : \E j \in 1..Len(queue) : queue'[k] = queue[j]
  <2>1. /\ Len(queue) \in Nat /\ Len(queue') = Len(queue) - 1
        /\ \A k \in 1..Len(queue') : queue'[k] = IF k < i THEN queue[k] ELSE queue[k + 1]
    BY <1>3, Dequeued
  <2>2. \A k \in 1..Len(queue') : k \in 1..Len(queue) /\ k + 1 \in 1..Len(queue)
    BY <2>1
  <2>3. \A k \in 1..Len(queue') : \E j \in 1..Len(queue) : queue'[k] = queue[j]
    BY <2>1, <2>2
  <2> QED
    BY <1>3, <2>3 DEF Dequeue, Typed, BrokerOK
<1> QED
  BY <1>1, <1>2, <1>3, QueueCases

(* What is accepted stays so.                                              *)
LEMMA AcceptedGrows ==
    ASSUME MaxLosses = 0, Typed, [Next]_vars
    PROVE  \/ accepted' = accepted
           \/ \E b \in Event : b \notin RangeOf(accepted) /\ accepted' = Append(accepted, b)
                               /\ Enqueue(b)
<1>1. ASSUME NEW b \in Body, Enqueue(b), accepted' # accepted
      PROVE  b \in Event /\ b \notin RangeOf(accepted) /\ accepted' = Append(accepted, b)
  BY <1>1 DEF Enqueue, Body
<1> QED
  BY <1>1, QueueCases DEF Dequeue

(* Whatever drains hold comes from the queue.                              *)
LEMMA InboxFrom ==
    ASSUME Typed, [Next]_vars, NEW w \in Watcher, NEW k \in 1..Len(inbox'[w])
    PROVE  \/ \E j \in 1..Len(inbox[w]) : inbox'[w][k] = inbox[w][j]
           \/ \E i \in 1..Len(queue) : inbox'[w][k] = queue[i]
<1> USE DEF drainVars
<1>0. /\ inbox \in [Watcher -> Seq(Message)] /\ queue \in Seq(Message)
      /\ conn \in Watcher \cup {Nobody}
  BY DEF Typed, StepOK, BrokerOK
<1>1. CASE inbox'[w] = inbox[w]
  BY <1>1
<1>2. CASE inbox'[w] = <<>>
  BY <1>2, EmptySeq
<1>3. CASE Deliver
  <2>1. PICK i \in 1..Len(queue) :
           inbox' = IF pc[conn] = "close" THEN inbox
                    ELSE [inbox EXCEPT ![conn] = Append(@, queue[i])]
    BY <1>3 DEF Deliver
  <2>2. CASE pc[conn] # "close" /\ w = conn
    <3>1. inbox[w] \in Seq(Message) /\ queue[i] \in Message
      BY <1>0
    <3>2. inbox'[w] = Append(inbox[w], queue[i])
      BY <1>0, <2>1, <2>2
    <3>3. /\ Len(inbox'[w]) = Len(inbox[w]) + 1 /\ Len(inbox[w]) \in Nat
          /\ inbox'[w][Len(inbox[w]) + 1] = queue[i]
          /\ \A j \in 1..Len(inbox[w]) : inbox'[w][j] = inbox[w][j]
      BY <3>1, <3>2, Appended
    <3>4. k \in 1..Len(inbox[w]) \/ k = Len(inbox[w]) + 1
      BY <3>3
    <3> QED
      BY <3>3, <3>4
  <2>3. CASE ~(pc[conn] # "close" /\ w = conn)
    BY <1>0, <1>1, <2>1, <2>3
  <2> QED
    BY <2>2, <2>3
<1>4. ASSUME NEW v \in Watcher, Take(v), v = w
      PROVE  \E j \in 1..Len(inbox[w]) : inbox'[w][k] = inbox[w][j]
  <2>1. inbox[w] \in Seq(Message) /\ inbox[w] # <<>> /\ inbox'[w] = Tail(inbox[w])
    BY <1>0, <1>4 DEF Take
  <2>2. /\ Len(inbox'[w]) = Len(inbox[w]) - 1 /\ Len(inbox[w]) \in Nat
        /\ inbox'[w][k] = inbox[w][k + 1]
    BY <2>1, HeadTail
  <2>3. k + 1 \in 1..Len(inbox[w])
    BY <2>2
  <2> QED
    BY <2>2, <2>3
<1>5. ASSUME NEW v \in Watcher, Watch(v), ~(Take(v) /\ v = w)
      PROVE  inbox'[w] = inbox[w] \/ inbox'[w] = <<>>
  BY <1>0, <1>5
     DEF Watch, Consume, ReplayHistory, Open, Subscribe, Take, Persist, PersistRaises,
         ReadBack, Skip, Ack, Stop, Close, Return, Fail, Reconnect
<1>6. CASE UNCHANGED vars
  BY <1>1, <1>6 DEF vars
<1>7. CASE Broker
  BY <1>1, <1>3, <1>7 DEF Broker, Publish, ProcessAck, DropConnection, LoseSession
<1> QED
  BY <1>1, <1>2, <1>4, <1>5, <1>6, <1>7 DEF Next

(* What is on hand was, or was the first message waiting.                  *)
LEMMA HandFrom ==
    ASSUME Typed, [Next]_vars, NEW w \in Watcher, pc'[w] \in Holding
    PROVE  \/ pc[w] \in Holding /\ hand'[w] = hand[w]
           \/ /\ Take(w) /\ hand'[w] = inbox[w][1] /\ 1 \in 1..Len(inbox[w])
<1> USE DEF drainVars, Goto, Holding
<1>0. /\ pc \in [Watcher -> States] /\ inbox \in [Watcher -> Seq(Message)]
      /\ hand \in [Watcher -> Message \cup {NoMessage}]
  BY DEF Typed, StepOK
<1>1. CASE pc'[w] = pc[w] /\ hand'[w] = hand[w]
  BY <1>1
<1>2. ASSUME Take(w)
      PROVE  hand'[w] = inbox[w][1] /\ 1 \in 1..Len(inbox[w])
  <2>1. inbox[w] \in Seq(Message) /\ inbox[w] # <<>> /\ hand'[w] = Head(inbox[w])
    BY <1>0, <1>2 DEF Take
  <2>2. Head(inbox[w]) = inbox[w][1]
    BY <2>1, HeadTail
  <2>3. 1 \in 1..Len(inbox[w])
    BY <2>1, First
  <2>4. hand'[w] = inbox[w][1]
    BY <2>1, <2>2
  <2> QED
    BY <2>3, <2>4
<1>3. ASSUME NEW v \in Watcher, Watch(v), v # w
      PROVE  pc'[w] = pc[w] /\ hand'[w] = hand[w]
  BY <1>0, <1>3
     DEF Watch, Consume, ReplayHistory, Open, Subscribe, Take, Persist, PersistRaises,
         ReadBack, Skip, Ack, Stop, Close, Return, Fail, Reconnect
<1>4. ASSUME Watch(w), ~Take(w)
      PROVE  pc[w] \in Holding /\ hand'[w] = hand[w]
  BY <1>0, <1>4
     DEF Watch, Consume, ReplayHistory, Open, Subscribe, Persist, PersistRaises,
         ReadBack, Skip, Ack, Stop, Close, Return, Fail, Reconnect
<1>5. CASE UNCHANGED vars
  BY <1>1, <1>5 DEF vars
<1>6. CASE Broker
  BY <1>1, <1>6 DEF Broker, Publish, Deliver, ProcessAck, DropConnection, LoseSession
<1> QED
  BY <1>1, <1>2, <1>3, <1>4, <1>5, <1>6 DEF Next

(* A PUBACK that sets out is for the message on hand.                      *)
LEMMA AcksFrom ==
    ASSUME MaxLosses = 0, Typed, [Next]_vars, NEW m \in acks'
    PROVE  m \in acks \/ \E w \in Watcher : /\ Skip(w) \/ Ack(w)
                                            /\ m = hand[w].mid
<1> USE DEF Disconnected, brokerVars
<1>1. ASSUME NEW w \in Watcher, Skip(w) \/ Ack(w)
      PROVE  m \in acks \/ m = hand[w].mid
  BY <1>1 DEF Skip, Ack, SendAck
<1>2. ASSUME NEW w \in Watcher, Watch(w), ~(Skip(w) \/ Ack(w))
      PROVE  m \in acks
  BY <1>2 DEF Watch, Consume, ReplayHistory, Open, Subscribe, Take, Persist, PersistRaises,
              ReadBack, Stop, Close, Return, Fail, Reconnect, Bind
<1>3. CASE UNCHANGED vars
  BY <1>3 DEF vars
<1>4. CASE Broker
  BY <1>4 DEF Broker, Publish, Deliver, ProcessAck, DropConnection, LoseSession
<1> QED
  BY <1>1, <1>2, <1>3, <1>4 DEF Next

(* What is sent is in the queue.                                           *)
LEMMA SentFrom ==
    ASSUME Typed, [Next]_vars, NEW m \in sent'
    PROVE  m \in sent \/ \E i \in 1..Len(queue) : m = queue[i].mid
<1> USE DEF Disconnected, brokerVars
<1>1. CASE Deliver
  BY <1>1 DEF Deliver
<1>2. ASSUME NEW w \in Watcher, Watch(w)
      PROVE  m \in sent
  BY <1>2 DEF Watch, Consume, ReplayHistory, Open, Subscribe, Take, Persist, PersistRaises,
              ReadBack, Skip, Ack, Stop, Close, Return, Fail, Reconnect, Bind, SendAck
<1>3. CASE UNCHANGED vars
  BY <1>3 DEF vars
<1>4. CASE Broker
  BY <1>1, <1>4 DEF Broker, Publish, ProcessAck, DropConnection, LoseSession
<1> QED
  BY <1>1, <1>2, <1>3, <1>4 DEF Next

-----------------------------------------------------------------------------
(* Identifiers go on growing.                                              *)
LEMMA MidsStep ==
    ASSUME MaxLosses = 0, Typed, MidsGrow, AllKnown, [Next]_vars
    PROVE  MidsGrow'
<1>0. /\ lastMid \in Nat /\ lastMid' \in Nat /\ lastMid <= lastMid' /\ Len(queue) \in Nat
      /\ \A i \in 1..Len(queue) : queue[i].mid \in Nat
      /\ sent \subseteq Nat /\ acks \subseteq Nat
  <2>1. queue \in Seq(Message) /\ sent \subseteq Nat /\ acks \subseteq Nat
    BY DEF Typed, BrokerOK
  <2>2. \A i \in 1..Len(queue) : queue[i] \in Message
    BY <2>1
  <2>3. \A m \in Message : m.mid \in Nat
    BY DEF Message
  <2> QED
    BY <2>1, <2>2, <2>3, QueueFrom, LenProperties
<1>1. ASSUME NEW i \in 1..Len(queue')
      PROVE  queue'[i].mid <= lastMid'
  <2>1. \/ \E j \in 1..Len(queue) : queue'[i] = queue[j]
        \/ queue'[i].mid = lastMid + 1 /\ lastMid' = lastMid + 1
    BY <1>1, QueueFrom
  <2>2. \A j \in 1..Len(queue) : queue[j].mid <= lastMid
    BY DEF MidsGrow
  <2> QED
    BY <1>0, <2>1, <2>2
<1>2. ASSUME NEW i \in 1..Len(queue'), NEW j \in 1..Len(queue'), i < j
      PROVE  queue'[i].mid < queue'[j].mid
  <2>0. /\ \A k, l \in 1..Len(queue) : k < l => queue[k].mid < queue[l].mid
        /\ \A k \in 1..Len(queue) : queue[k].mid <= lastMid
    BY DEF MidsGrow
  <2>1. CASE UNCHANGED queue
    BY <1>2, <2>0, <2>1
  <2>2. ASSUME NEW b \in Body, Enqueue(b)
        PROVE  queue'[i].mid < queue'[j].mid
    <3>1. /\ Len(queue') = Len(queue) + 1
          /\ queue'[Len(queue) + 1].mid = lastMid + 1
          /\ \A k \in 1..Len(queue) : queue'[k] = queue[k]
      BY <2>2, Enqueued
    <3>2. i \in 1..(Len(queue) + 1) /\ j \in 1..(Len(queue) + 1)
      BY <1>2, <3>1
    <3>3. i \in 1..Len(queue) /\ (j \in 1..Len(queue) \/ j = Len(queue) + 1)
      BY <1>0, <1>2, <3>2, Within
    <3>4. CASE j \in 1..Len(queue)
      BY <1>2, <2>0, <3>1, <3>3, <3>4
    <3>5. CASE j = Len(queue) + 1
      <4>1. queue'[i].mid \in Nat /\ queue'[i].mid <= lastMid
        BY <1>0, <2>0, <3>1, <3>3
      <4>2. queue'[j].mid = lastMid + 1
        BY <3>1, <3>5
      <4> QED
        BY <1>0, <4>1, <4>2
    <3> QED
      BY <3>3, <3>4, <3>5
  <2>3. ASSUME NEW r \in 1..Len(queue), Dequeue(r)
        PROVE  queue'[i].mid < queue'[j].mid
    <3>1. /\ Len(queue') = Len(queue) - 1
          /\ \A k \in 1..Len(queue') : queue'[k] = IF k < r THEN queue[k] ELSE queue[k + 1]
      BY <2>3, Dequeued
    <3> DEFINE p == IF i < r THEN i ELSE i + 1
               q == IF j < r THEN j ELSE j + 1
    <3>2. p \in 1..Len(queue) /\ q \in 1..Len(queue) /\ p < q
      BY <1>0, <1>2, <3>1
    <3>3. queue'[i] = queue[p] /\ queue'[j] = queue[q]
      BY <1>2, <3>1
    <3> HIDE DEF p, q
    <3> QED
      BY <2>0, <3>2, <3>3
  <2> QED
    BY <2>1, <2>2, <2>3, QueueCases
<1>3. ASSUME NEW m \in acks'
      PROVE  m <= lastMid'
  <2>1. ASSUME NEW w \in Watcher, Skip(w) \/ Ack(w), m = hand[w].mid
        PROVE  m <= lastMid
    <3>1. pc[w] \in Holding
      BY <2>1 DEF Skip, Ack, Holding
    <3> QED
      BY <2>1, <3>1 DEF AllKnown, Known, KnownBy
  <2>2. m \in acks => m <= lastMid
    BY DEF MidsGrow
  <2>3. m \in Nat
    BY <1>3, BrokerTypes DEF Typed, BrokerOK
  <2> QED
    BY <1>0, <1>3, <2>1, <2>2, <2>3, AcksFrom
<1>4. ASSUME NEW m \in sent'
      PROVE  m <= lastMid'
  <2>1. \A i \in 1..Len(queue) : queue[i].mid <= lastMid
    BY DEF MidsGrow
  <2>2. m \in sent => m \in Nat /\ m <= lastMid
    BY <1>0 DEF MidsGrow
  <2> QED
    BY <1>0, <1>4, <2>1, <2>2, SentFrom
<1> QED
  BY <1>1, <1>2, <1>3, <1>4 DEF MidsGrow

(* A message that is known stays known: identifiers are not used again.    *)
LEMMA KnownStays ==
    ASSUME MaxLosses = 0, Typed, [Next]_vars, NEW m, m.mid \in Nat, Known(m)
    PROVE  KnownBy(m, lastMid', queue', accepted')
<1>1. /\ lastMid \in Nat /\ lastMid' \in Nat /\ lastMid <= lastMid'
      /\ \A i \in 1..Len(queue') :
             \/ \E j \in 1..Len(queue) : queue'[i] = queue[j]
             \/ queue'[i].mid = lastMid + 1 /\ lastMid' = lastMid + 1
  BY QueueFrom
<1>2. m.mid <= lastMid
  BY DEF Known, KnownBy
<1>3. m.mid <= lastMid'
  BY <1>1, <1>2
<1>4. ASSUME NEW i \in 1..Len(queue'), queue'[i].mid = m.mid
      PROVE  queue'[i] = m
  <2>1. queue'[i].mid # lastMid + 1
    BY <1>1, <1>2, <1>4
  <2>2. PICK j \in 1..Len(queue) : queue'[i] = queue[j]
    BY <1>1, <2>1
  <2> QED
    BY <1>4, <2>2 DEF Known, KnownBy
<1>5. m.body # Malformed => m.body \in RangeOf(accepted')
  <2>1. accepted \in Seq(Event)
    BY DEF Typed, StoreOK
  <2>2. ASSUME NEW b \in Event, accepted' = Append(accepted, b)
        PROVE  RangeOf(accepted) \subseteq RangeOf(accepted')
    <3>1. /\ Len(accepted') = Len(accepted) + 1 /\ Len(accepted) \in Nat
          /\ \A k \in 1..Len(accepted) : accepted'[k] = accepted[k]
      BY <2>1, <2>2, Appended
    <3>2. 1..Len(accepted) \subseteq 1..Len(accepted')
      BY <3>1
    <3> QED
      BY <3>1, <3>2 DEF RangeOf
  <2>3. RangeOf(accepted) \subseteq RangeOf(accepted')
    BY <2>2, AcceptedGrows
  <2> QED
    BY <2>3 DEF Known, KnownBy
<1> QED
  BY <1>3, <1>4, <1>5 DEF KnownBy

(* So everything on its way is known.                                      *)
LEMMA KnownStep ==
    ASSUME MaxLosses = 0, Typed, MidsGrow, AllKnown, [Next]_vars
    PROVE  AllKnown'
<1>0. /\ \A i \in 1..Len(queue) : queue[i].mid \in Nat
      /\ \A w \in Watcher : \A k \in 1..Len(inbox[w]) : inbox[w][k].mid \in Nat
      /\ \A w \in Watcher : pc[w] \in Holding => hand[w].mid \in Nat
  <2>1. queue \in Seq(Message) /\ inbox \in [Watcher -> Seq(Message)]
    BY DEF Typed, BrokerOK, StepOK
  <2>2. /\ \A i \in 1..Len(queue) : queue[i] \in Message
        /\ \A w \in Watcher : \A k \in 1..Len(inbox[w]) : inbox[w][k] \in Message
    BY <2>1
  <2>3. \A m \in Message : m.mid \in Nat
    BY DEF Message
  <2>4. \A w \in Watcher : pc[w] \in Holding => hand[w].mid \in Nat
    BY OnHand DEF Holding, Typed
  <2> QED
    BY <2>2, <2>3, <2>4
<1>1. ASSUME NEW m, m.mid \in Nat, Known(m)
      PROVE  KnownBy(m, lastMid', queue', accepted')
  BY <1>1, KnownStays
<1>2. ASSUME NEW w \in Watcher, NEW k \in 1..Len(inbox'[w])
      PROVE  KnownBy(inbox'[w][k], lastMid', queue', accepted')
  <2>1. \/ \E j \in 1..Len(inbox[w]) : inbox'[w][k] = inbox[w][j]
        \/ \E i \in 1..Len(queue) : inbox'[w][k] = queue[i]
    BY <1>2, InboxFrom
  <2>2. inbox'[w][k].mid \in Nat /\ Known(inbox'[w][k])
    BY <1>0, <2>1 DEF AllKnown
  <2> QED
    BY <1>1, <2>2
<1>3. ASSUME NEW w \in Watcher, pc'[w] \in Holding
      PROVE  KnownBy(hand'[w], lastMid', queue', accepted')
  <2>1. \/ pc[w] \in Holding /\ hand'[w] = hand[w]
        \/ hand'[w] = inbox[w][1] /\ 1 \in 1..Len(inbox[w])
    BY <1>3, HandFrom
  <2>2. hand'[w].mid \in Nat /\ Known(hand'[w])
    BY <1>0, <2>1 DEF AllKnown
  <2> QED
    BY <1>1, <2>2
<1>4. ASSUME NEW i \in 1..Len(queue')
      PROVE  KnownBy(queue'[i], lastMid', queue', accepted')
  <2>1. CASE \E j \in 1..Len(queue) : queue'[i] = queue[j]
    BY <1>0, <1>1, <2>1 DEF AllKnown
  <2>2. CASE UNCHANGED queue
    BY <1>4, <2>1, <2>2
  <2>3. ASSUME NEW r \in 1..Len(queue), Dequeue(r)
        PROVE  \E j \in 1..Len(queue) : queue'[i] = queue[j]
    <3>1. /\ Len(queue) \in Nat /\ Len(queue') = Len(queue) - 1
          /\ queue'[i] = IF i < r THEN queue[i] ELSE queue[i + 1]
      BY <1>4, <2>3, Dequeued
    <3>2. i \in 1..Len(queue) /\ i + 1 \in 1..Len(queue)
      BY <1>4, <3>1
    <3> QED
      BY <3>1, <3>2
  <2>4. ASSUME NEW b \in Body, Enqueue(b)
        PROVE  \/ \E j \in 1..Len(queue) : queue'[i] = queue[j]
               \/ KnownBy(queue'[i], lastMid', queue', accepted')
    <3>1. /\ Len(queue') = Len(queue) + 1 /\ Len(queue) \in Nat /\ lastMid \in Nat
          /\ queue'[Len(queue) + 1].mid = lastMid + 1 /\ queue'[Len(queue) + 1].body = b
          /\ \A k \in 1..Len(queue) : queue'[k] = queue[k]
      BY <2>4, Enqueued
    <3>2. CASE i \in 1..Len(queue)
      BY <3>1, <3>2
    <3>3. CASE i = Len(queue) + 1
      <4>1. lastMid' = lastMid + 1 /\ queue'[i].mid <= lastMid'
        BY <2>4, <3>1, <3>3 DEF Enqueue
      <4>2. ASSUME NEW j \in 1..Len(queue'), queue'[j].mid = queue'[i].mid
            PROVE  queue'[j] = queue'[i]
        <5>1. j \in 1..Len(queue) => queue'[j].mid < lastMid + 1
          <6>1. j \in 1..Len(queue) => queue[j].mid <= lastMid /\ queue[j].mid \in Nat
            BY <1>0 DEF MidsGrow
          <6> QED
            BY <3>1, <6>1
        <5>2. j \notin 1..Len(queue)
          BY <1>0, <3>1, <3>3, <4>2, <5>1
        <5>3. j = i
          BY <3>1, <3>3, <4>2, <5>2
        <5> QED
          BY <5>3
      <4>3. b # Malformed => b \in RangeOf(accepted')
        <5>1. ASSUME b # Malformed, b \notin RangeOf(accepted)
              PROVE  b \in RangeOf(accepted')
          <6>1. accepted \in Seq(Event) /\ b \in Event
            BY <5>1 DEF Typed, StoreOK, Body
          <6>2. accepted' = Append(accepted, b)
            BY <2>4, <5>1 DEF Enqueue
          <6>3. Len(accepted') = Len(accepted) + 1 /\ Len(accepted) \in Nat
                /\ accepted'[Len(accepted) + 1] = b
            BY <6>1, <6>2, Appended
          <6>4. Len(accepted) + 1 \in 1..Len(accepted')
            BY <6>3
          <6> QED
            BY <6>3, <6>4 DEF RangeOf
        <5>2. b # Malformed /\ b \in RangeOf(accepted) => accepted' = accepted
          BY <2>4 DEF Enqueue
        <5> QED
          BY <5>1, <5>2
      <4> QED
        BY <3>1, <3>3, <4>1, <4>2, <4>3 DEF KnownBy
    <3> QED
      BY <1>4, <3>1, <3>2, <3>3
  <2> QED
    BY <2>1, <2>2, <2>3, <2>4, QueueCases
<1> QED
  BY <1>2, <1>3, <1>4 DEF AllKnown, Known

(* What is stored stays so, and what is persisted is stored.               *)
LEMMA StoredStays ==
    ASSUME Typed, [Next]_vars, NEW e, Stored(e)
    PROVE  Stored(e)'
<1>1. PICK s \in 1..Len(history) : history[s] = e
  BY DEF Stored
<1>2. s \in 1..Len(history') /\ history'[s] = history[s]
  BY <1>1, StoreTypes DEF Typed
<1> QED
  BY <1>1, <1>2 DEF Stored

(* A persist leaves its event in the store.                                *)
LEMMA PersistStores ==
    ASSUME Typed, [Next]_vars, NEW w \in Watcher, Persist(w)
    PROVE  Stored(hand[w].body)' /\ hand'[w] = hand[w]
<1>0. hand'[w] = hand[w]
  BY DEF Persist
<1>1. CASE Stored(hand[w].body)
  <2>1. \E s \in 1..Len(history') : history'[s] = hand[w].body
    BY <1>1 DEF Stored, Persist
  <2> QED
    BY <1>0, <2>1 DEF Stored
<1>2. CASE ~Stored(hand[w].body)
  <2>0. history' = Append(history, hand[w].body)
    BY <1>2 DEF Persist
  <2>1. history \in Seq(Event) /\ hand[w].body \in Event
    <3>1. pc[w] = "persist"
      BY DEF Persist
    <3> QED
      BY <3>1, OnHand DEF Typed, StoreOK
  <2>2. /\ Len(history') = Len(history) + 1 /\ Len(history) \in Nat
        /\ history'[Len(history) + 1] = hand[w].body
    BY <2>0, <2>1, Appended
  <2>3. Len(history) + 1 \in 1..Len(history')
    BY <2>2
  <2>4. \E s \in 1..Len(history') : history'[s] = hand[w].body
    BY <2>2, <2>3
  <2> QED
    BY <1>0, <2>4 DEF Stored
<1> QED
  BY <1>0, <1>1, <1>2

(* Nothing is read back or acknowledged before that.                       *)
LEMMA HandStoredStep ==
    ASSUME Typed, HandStored, [Next]_vars
    PROVE  HandStored'
<1> SUFFICES ASSUME NEW w \in Watcher, pc'[w] \in {"read back", "ack"}
             PROVE  \E s \in 1..Len(history') : history'[s] = hand'[w].body
  BY DEF HandStored, Stored
<1> USE DEF drainVars, Goto
<1>0. pc \in [Watcher -> States]
  BY DEF Typed, StepOK
<1>1. CASE Persist(w)
  BY <1>1, PersistStores DEF Stored
<1>2. CASE pc[w] \in {"read back", "ack"} /\ hand'[w] = hand[w]
  <2>1. Stored(hand[w].body)
    BY <1>2 DEF HandStored
  <2>2. \A e : Stored(e) => \E s \in 1..Len(history') : history'[s] = e
    BY StoredStays DEF Stored
  <2> QED
    BY <1>2, <2>1, <2>2
<1>3. ASSUME NEW v \in Watcher, Watch(v), v # w
      PROVE  pc'[w] = pc[w]
  BY <1>0, <1>3
     DEF Watch, Consume, ReplayHistory, Open, Subscribe, Take, Persist, PersistRaises,
         ReadBack, Skip, Ack, Stop, Close, Return, Fail, Reconnect
<1>4. ASSUME Watch(w), ~Persist(w)
      PROVE  pc[w] \in {"read back", "ack"} /\ ~Take(w)
  BY <1>0, <1>4
     DEF Watch, Consume, ReplayHistory, Open, Subscribe, Take, PersistRaises,
         ReadBack, Skip, Ack, Stop, Close, Return, Fail, Reconnect
<1>5. CASE UNCHANGED vars
  BY <1>2, <1>5 DEF vars
<1>6. CASE Broker
  BY <1>2, <1>6 DEF Broker, Publish, Deliver, ProcessAck, DropConnection, LoseSession
<1>7. ASSUME pc[w] \in {"read back", "ack"}
      PROVE  hand'[w] = hand[w]
  <2>1. pc'[w] \in Holding /\ ~Take(w)
    BY <1>7 DEF Holding, Take
  <2> QED
    BY <2>1, HandFrom
<1> QED
  BY <1>1, <1>2, <1>3, <1>4, <1>5, <1>6, <1>7 DEF Next

(* So PUBACKs stay true, whatever was delivered twice.                     *)
LEMMA AcksStep ==
    ASSUME MaxLosses = 0, Typed, MidsGrow, AllKnown, HandStored, AcksTrue, [Next]_vars
    PROVE  AcksTrue'
<1> SUFFICES ASSUME NEW i \in 1..Len(queue'), queue'[i].mid \in acks', queue'[i].body # Malformed
             PROVE  \E s \in 1..Len(history') : history'[s] = queue'[i].body
  BY DEF AcksTrue, Stored
<1>0. \A e : Stored(e) => \E s \in 1..Len(history') : history'[s] = e
  BY StoredStays DEF Stored
<1>1. ASSUME NEW j \in 1..Len(queue), queue'[i] = queue[j]
      PROVE  Stored(queue[j].body)
  <2>1. CASE queue[j].mid \in acks
    BY <1>1, <2>1 DEF AcksTrue
  <2>2. ASSUME NEW w \in Watcher, Skip(w) \/ Ack(w), queue[j].mid = hand[w].mid
        PROVE  Stored(queue[j].body)
    <3>1. pc[w] \in Holding /\ (pc[w] = "skip" \/ pc[w] = "ack")
      BY <2>2 DEF Skip, Ack, Holding
    <3>2. queue[j] = hand[w]
      BY <2>2, <3>1 DEF AllKnown, Known, KnownBy
    <3>3. pc[w] # "skip"
      BY <1>1, <3>2 DEF Typed, HandOK
    <3> QED
      BY <3>1, <3>2, <3>3 DEF HandStored
  <2> QED
    BY <1>1, <2>1, <2>2, AcksFrom
<1>2. ASSUME queue'[i].mid = lastMid + 1
      PROVE  FALSE
  <2>0. lastMid \in Nat
    BY DEF Typed, BrokerOK
  <2>1. \A m \in acks : m <= lastMid
    BY DEF MidsGrow
  <2>2. ASSUME NEW w \in Watcher, Skip(w) \/ Ack(w)
        PROVE  hand[w].mid <= lastMid
    <3>1. pc[w] \in Holding
      BY <2>2 DEF Skip, Ack, Holding
    <3> QED
      BY <3>1 DEF AllKnown, Known, KnownBy
  <2>3. queue'[i].mid <= lastMid
    BY <2>1, <2>2, AcksFrom
  <2> QED
    BY <1>2, <2>0, <2>3
<1> QED
  BY <1>0, <1>1, <1>2, QueueFrom

(* An accepted event is stored, or it is still queued.                     *)
LEMMA NothingLostStep ==
    ASSUME MaxLosses = 0, Typed, AcksTrue, NothingLost, [Next]_vars
    PROVE  NothingLost'
<1> SUFFICES ASSUME NEW e \in RangeOf(accepted')
             PROVE  \/ \E s \in 1..Len(history') : history'[s] = e
                    \/ \E i \in 1..Len(queue') : queue'[i].body = e
  BY DEF NothingLost, Stored, Queued
<1>0. \A d : Stored(d) => \E s \in 1..Len(history') : history'[s] = d
  BY StoredStays DEF Stored
<1>1. ASSUME NEW b \in Body, Enqueue(b)
      PROVE  e \in RangeOf(accepted) \/ \E i \in 1..Len(queue') : queue'[i].body = e
  <2>1. CASE accepted' = accepted
    BY <2>1
  <2>2. CASE b \in Event /\ accepted' = Append(accepted, b)
    <3>1. accepted \in Seq(Event)
      BY DEF Typed, StoreOK
    <3>2. /\ Len(accepted') = Len(accepted) + 1 /\ Len(accepted) \in Nat
          /\ accepted'[Len(accepted) + 1] = b
          /\ \A k \in 1..Len(accepted) : accepted'[k] = accepted[k]
      BY <2>2, <3>1, Appended
    <3>3. PICK k \in 1..Len(accepted') : accepted'[k] = e
      BY DEF RangeOf
    <3>4. k \in 1..Len(accepted) \/ k = Len(accepted) + 1
      BY <3>2, <3>3
    <3>5. e \in RangeOf(accepted) \/ e = b
      BY <3>2, <3>3, <3>4 DEF RangeOf
    <3>6. /\ Len(queue') = Len(queue) + 1 /\ Len(queue) \in Nat
          /\ queue'[Len(queue) + 1].body = b
      BY <1>1, Enqueued
    <3>7. Len(queue) + 1 \in 1..Len(queue')
      BY <3>6
    <3> QED
      BY <3>5, <3>6, <3>7
  <2> QED
    BY <1>1, <2>1, <2>2 DEF Enqueue, Body
<1>2. ASSUME NEW b \in Body, Enqueue(b), NEW i \in 1..Len(queue)
      PROVE  i \in 1..Len(queue') /\ queue'[i] = queue[i]
  <2>1. /\ Len(queue') = Len(queue) + 1 /\ Len(queue) \in Nat
        /\ queue'[i] = queue[i]
    BY <1>2, Enqueued
  <2> QED
    BY <2>1
<1>3. ASSUME NEW r \in 1..Len(queue), Dequeue(r), NEW i \in 1..Len(queue), i # r
      PROVE  \E k \in 1..Len(queue') : queue'[k] = queue[i]
  <2>1. /\ Len(queue) \in Nat /\ Len(queue') = Len(queue) - 1
        /\ \A k \in 1..Len(queue') : queue'[k] = IF k < r THEN queue[k] ELSE queue[k + 1]
    BY <1>3, Dequeued
  <2>2. CASE i < r
    <3>1. i \in 1..Len(queue')
      BY <2>1, <2>2
    <3> QED
      BY <2>1, <2>2, <3>1
  <2>3. CASE ~(i < r)
    <3>1. i - 1 \in 1..Len(queue') /\ ~(i - 1 < r) /\ (i - 1) + 1 = i
      BY <1>3, <2>1, <2>3
    <3> QED
      BY <2>1, <3>1
  <2> QED
    BY <2>2, <2>3
<1>4. ASSUME NEW r \in 1..Len(queue), Dequeue(r)
      PROVE  queue[r].body = Malformed \/ Stored(queue[r].body)
  BY <1>4 DEF Dequeue, AcksTrue
<1>5. CASE e \in RangeOf(accepted) /\ ~Stored(e)
  <2>1. PICK i \in 1..Len(queue) : queue[i].body = e
    BY <1>5 DEF NothingLost, Queued
  <2>2. CASE UNCHANGED queue
    BY <2>1, <2>2
  <2>3. ASSUME NEW b \in Body, Enqueue(b)
        PROVE  \E k \in 1..Len(queue') : queue'[k].body = e
    BY <1>2, <2>1, <2>3
  <2>4. e # Malformed
    <3>1. accepted \in Seq(Event)
      BY DEF Typed, StoreOK
    <3>2. RangeOf(accepted) \subseteq Event
      BY <3>1 DEF RangeOf
    <3> QED
      BY <1>5, <3>2, MalformedAssumption
  <2>5. ASSUME NEW r \in 1..Len(queue), Dequeue(r)
        PROVE  \E k \in 1..Len(queue') : queue'[k].body = e
    <3>1. i # r
      BY <1>4, <1>5, <2>1, <2>4, <2>5
    <3> QED
      BY <1>3, <2>1, <2>5, <3>1
  <2> QED
    BY <2>2, <2>3, <2>5, QueueCases
<1>6. CASE e \in RangeOf(accepted) /\ Stored(e)
  BY <1>0, <1>6
<1>7. CASE e \notin RangeOf(accepted)
  BY <1>1, <1>7, QueueCases DEF Dequeue
<1> QED
  BY <1>5, <1>6, <1>7

(* Together they are inductive while no session is lost.                   *)
LEMMA SafeAlways ==
    ASSUME MaxLosses = 0
    PROVE  Spec => [](Typed /\ Safe)
<1>1. Init => Typed /\ Safe
  <2> SUFFICES ASSUME Init PROVE Safe
    BY InitTyped
  <2>1. queue = <<>> /\ acks = {} /\ sent = {} /\ accepted = <<>>
        /\ inbox = [w \in Watcher |-> <<>>] /\ pc = [w \in Watcher |-> "idle"]
    BY DEF Init
  <2>2. Len(queue) = 0 /\ Len(accepted) = 0 /\ \A w \in Watcher : Len(inbox[w]) = 0
    BY <2>1, EmptySeq
  <2>3. MidsGrow /\ AcksTrue
    BY <2>1, <2>2 DEF MidsGrow, AcksTrue
  <2>4. AllKnown /\ HandStored
    BY <2>1, <2>2 DEF AllKnown, HandStored, Holding
  <2>5. NothingLost
    BY <2>2 DEF NothingLost, RangeOf
  <2> QED
    BY <2>3, <2>4, <2>5 DEF Safe
<1>2. Typed /\ Safe /\ [Next]_vars => Safe'
  BY MidsStep, KnownStep, HandStoredStep, AcksStep, NothingLostStep DEF Safe
<1> QED
  BY <1>1, <1>2, TypedAlways, PTL DEF Spec

(* While the broker keeps the session, an event it has queued is in the    *)
(* store or still queued, whoever takes the session over, fails or loses   *)
(* its connection, and whichever PUBACKs arrive: drain.py 34-37.           *)
THEOREM DrainsLoseNothing ==
    ASSUME MaxLosses = 0
    PROVE  Spec => []NothingLost
BY SafeAlways, PTL DEF Safe
(* d was accepted before e and is not stored.                              *)
MissingFrom(d, e, stored, heard) ==
    /\ \A s \in 1..Len(stored) : stored[s] # d
    /\ \E a, b \in 1..Len(heard) : a < b /\ heard[a] = d /\ heard[b] = e

Missing(d, e) == MissingFrom(d, e, history, accepted)

InHand(w, d) == pc[w] = "persist" /\ hand[w].body = d

Distinct ==
    \A a, b \in 1..Len(accepted) : accepted[a] = accepted[b] => a = b

(* What is missing stands in front: in the queue,                          *)
QueueInOrder ==
    \A i \in 1..Len(queue) : \A d \in Event :
        Missing(d, queue[i].body) => \E j \in 1..(i - 1) : queue[j].body = d

(* in what a drain holds,                                                  *)
InboxInOrder ==
    \A w \in Watcher : \A k \in 1..Len(inbox[w]) : \A d \in Event :
        Missing(d, inbox[w][k].body) =>
            InHand(w, d) \/ \E j \in 1..(k - 1) : inbox[w][j].body = d

(* and nothing is in front of the message being stored.                    *)
HandInOrder ==
    \A w \in Watcher : \A d \in Event :
        pc[w] = "persist" => ~Missing(d, hand[w].body)

(* What has been sent on a connection and is not stored, its drain holds.  *)
Holds(w, d) == InHand(w, d) \/ \E k \in 1..Len(inbox[w]) : inbox[w][k].body = d

SentIsHeld ==
    \A i \in 1..Len(queue) :
        (conn # Nobody /\ pc[conn] # "close" /\ queue[i].mid \in sent) =>
            \/ queue[i].body = Malformed \/ Stored(queue[i].body)
            \/ Holds(conn, queue[i].body)

Ordered ==
    /\ Distinct /\ StoredInOrder
    /\ QueueInOrder /\ InboxInOrder /\ HandInOrder /\ SentIsHeld

-----------------------------------------------------------------------------
(* What a publish adds is accepted once.                                   *)
LEMMA Accepts ==
    ASSUME MaxLosses = 0, Typed, [Next]_vars
    PROVE  /\ Len(accepted) \in Nat
           /\ \/ accepted' = accepted
              \/ /\ Len(accepted') = Len(accepted) + 1
                 /\ accepted'[Len(accepted) + 1] \notin RangeOf(accepted)
                 /\ \A k \in 1..Len(accepted) : accepted'[k] = accepted[k]
<1>1. accepted \in Seq(Event) /\ Len(accepted) \in Nat
  BY LenProperties DEF Typed, StoreOK
<1>2. ASSUME NEW b \in Event, accepted' = Append(accepted, b)
      PROVE  /\ Len(accepted') = Len(accepted) + 1 /\ accepted'[Len(accepted) + 1] = b
             /\ \A k \in 1..Len(accepted) : accepted'[k] = accepted[k]
  BY <1>1, <1>2, Appended
<1> QED
  BY <1>1, <1>2, AcceptedGrows

(* Accepted events stay distinct.                                          *)
LEMMA DistinctStep ==
    ASSUME MaxLosses = 0, Typed, Distinct, [Next]_vars
    PROVE  Distinct'
<1> SUFFICES ASSUME NEW a \in 1..Len(accepted'), NEW b \in 1..Len(accepted'),
                    accepted'[a] = accepted'[b]
             PROVE  a = b
  BY DEF Distinct
<1>1. CASE accepted' = accepted
  BY <1>1 DEF Distinct
<1>2. CASE /\ Len(accepted') = Len(accepted) + 1
           /\ accepted'[Len(accepted) + 1] \notin RangeOf(accepted)
           /\ \A k \in 1..Len(accepted) : accepted'[k] = accepted[k]
  <2>0. /\ a \in 1..Len(accepted) \/ a = Len(accepted) + 1
        /\ b \in 1..Len(accepted) \/ b = Len(accepted) + 1
    BY <1>2, Accepts
  <2>1. \A k \in 1..Len(accepted) : accepted'[k] \in RangeOf(accepted)
    BY <1>2 DEF RangeOf
  <2> QED
    BY <1>2, <2>0, <2>1 DEF Distinct
<1> QED
  BY <1>1, <1>2, Accepts

(* No step makes more events missing before one that has been accepted.    *)
LEMMA MissingBefore ==
    ASSUME MaxLosses = 0, Typed, [Next]_vars, NEW d, NEW e \in RangeOf(accepted),
           MissingFrom(d, e, history', accepted')
    PROVE  Missing(d, e) /\ ~Stored(d)
<1>0. ASSUME Stored(d)
      PROVE  \E s \in 1..Len(history') : history'[s] = d
  BY <1>0, StoredStays DEF Stored
<1>1. ~Stored(d)
  BY <1>0 DEF MissingFrom
<1>2. PICK a \in 1..Len(accepted'), b \in 1..Len(accepted') :
          a < b /\ accepted'[a] = d /\ accepted'[b] = e
  BY DEF MissingFrom
<1>3. CASE accepted' = accepted
  BY <1>1, <1>2, <1>3 DEF Missing, MissingFrom, Stored
<1>4. CASE /\ Len(accepted') = Len(accepted) + 1
           /\ accepted'[Len(accepted) + 1] \notin RangeOf(accepted)
           /\ \A k \in 1..Len(accepted) : accepted'[k] = accepted[k]
  <2>0. b # Len(accepted) + 1
    BY <1>2, <1>4
  <2>1. a \in 1..Len(accepted) /\ b \in 1..Len(accepted)
    BY <1>2, <1>4, <2>0, Accepts
  <2>2. accepted[a] = d /\ accepted[b] = e
    BY <1>2, <1>4, <2>1
  <2> QED
    BY <1>1, <1>2, <2>1, <2>2 DEF Missing, MissingFrom, Stored
<1> QED
  BY <1>1, <1>3, <1>4, Accepts

(* A body that is known has been accepted, or is not an event.             *)
LEMMA Before ==
    ASSUME MaxLosses = 0, Typed, [Next]_vars, NEW m, Known(m), NEW d,
           MissingFrom(d, m.body, history', accepted'), m.body # Malformed
    PROVE  Missing(d, m.body) /\ ~Stored(d)
<1>1. m.body \in RangeOf(accepted)
  BY DEF Known, KnownBy
<1> QED
  BY <1>1, MissingBefore

(* What is missing after a step was accepted before it, or is the newest.  *)
LEMMA MissingHeard ==
    ASSUME MaxLosses = 0, Typed, [Next]_vars, NEW d, NEW e,
           MissingFrom(d, e, history', accepted')
    PROVE  d \in RangeOf(accepted) /\ ~Stored(d)
<1>0. ASSUME Stored(d)
      PROVE  \E s \in 1..Len(history') : history'[s] = d
  BY <1>0, StoredStays DEF Stored
<1>1. ~Stored(d)
  BY <1>0 DEF MissingFrom
<1>2. PICK a \in 1..Len(accepted'), b \in 1..Len(accepted') :
          a < b /\ accepted'[a] = d /\ accepted'[b] = e
  BY DEF MissingFrom
<1>3. CASE accepted' = accepted
  BY <1>1, <1>2, <1>3 DEF RangeOf
<1>4. CASE /\ Len(accepted') = Len(accepted) + 1
           /\ \A k \in 1..Len(accepted) : accepted'[k] = accepted[k]
  <2>1. a \in 1..Len(accepted)
    BY <1>2, <1>4, Accepts
  <2> QED
    BY <1>1, <1>2, <1>4, <2>1 DEF RangeOf
<1> QED
  BY <1>3, <1>4, Accepts

(* Only events are missing, and only before events.                        *)
LEMMA MissingEvents ==
    ASSUME NEW stored, NEW heard \in Seq(Event), NEW d, NEW e,
           MissingFrom(d, e, stored, heard)
    PROVE  d # Malformed /\ e # Malformed
<1>1. PICK a \in 1..Len(heard), b \in 1..Len(heard) : heard[a] = d /\ heard[b] = e
  BY DEF MissingFrom
<1>2. d \in Event /\ e \in Event
  BY <1>1
<1> QED
  BY <1>2, MalformedAssumption

(* The queue keeps its order.                                              *)
LEMMA QueueOrderStep ==
    ASSUME MaxLosses = 0, Typed, Typed', Safe, QueueInOrder, [Next]_vars
    PROVE  QueueInOrder'
<1> SUFFICES ASSUME NEW i \in 1..Len(queue'), NEW d \in Event,
                    MissingFrom(d, queue'[i].body, history', accepted')
             PROVE  \E j \in 1..(i - 1) : queue'[j].body = d
  BY DEF QueueInOrder, Missing
<1>0. Len(queue) \in Nat
  <2>1. queue \in Seq(Message)
    BY DEF Typed, BrokerOK
  <2> QED
    BY <2>1, LenProperties
<1>1. queue'[i].body # Malformed /\ d # Malformed
  <2>1. accepted' \in Seq(Event)
    BY DEF Typed, StoreOK
  <2> QED
    BY <2>1, MissingEvents
<1>2. ASSUME NEW j \in 1..Len(queue), queue'[i] = queue[j]
      PROVE  ~Stored(d) /\ \E k \in 1..(j - 1) : queue[k].body = d
  <2>1. Known(queue[j])
    BY DEF Safe, AllKnown
  <2>2. Missing(d, queue[j].body) /\ ~Stored(d)
    BY <1>1, <1>2, <2>1, Before
  <2> QED
    BY <2>2 DEF QueueInOrder
<1>3. CASE UNCHANGED queue
  BY <1>2, <1>3
<1>4. ASSUME NEW b \in Body, Enqueue(b)
      PROVE  \E j \in 1..(i - 1) : queue'[j].body = d
  <2>1. /\ Len(queue') = Len(queue) + 1
        /\ \A k \in 1..Len(queue) : queue'[k] = queue[k]
    BY <1>4, Enqueued
  <2>2. CASE i \in 1..Len(queue)
    <3>1. PICK k \in 1..(i - 1) : queue[k].body = d
      BY <1>2, <2>1, <2>2
    <3>2. k \in 1..Len(queue)
      BY <1>0, <2>2, <3>1
    <3> QED
      BY <2>1, <3>1, <3>2
  <2>3. CASE i = Len(queue) + 1
    <3>1. PICK k \in 1..Len(queue) : queue[k].body = d
      BY MissingHeard DEF Safe, NothingLost, Queued
    <3>2. k \in 1..(i - 1)
      BY <1>0, <2>3, <3>1
    <3> QED
      BY <2>1, <3>1, <3>2
  <2> QED
    BY <1>0, <2>1, <2>2, <2>3
<1>5. ASSUME NEW r \in 1..Len(queue), Dequeue(r)
      PROVE  \E j \in 1..(i - 1) : queue'[j].body = d
  <2>1. /\ Len(queue') = Len(queue) - 1
        /\ \A k \in 1..Len(queue') : queue'[k] = IF k < r THEN queue[k] ELSE queue[k + 1]
    BY <1>5, Dequeued
  <2>2. queue[r].body = Malformed \/ Stored(queue[r].body)
    BY <1>5 DEF Dequeue, Safe, AcksTrue
  <2> DEFINE p == IF i < r THEN i ELSE i + 1
  <2>3. p \in 1..Len(queue) /\ queue'[i] = queue[p] /\ p # r
    BY <1>0, <2>1
  <2>4. PICK k \in 1..(p - 1) : queue[k].body = d /\ ~Stored(d)
    BY <1>2, <2>3
  <2>5. k # r
    BY <1>1, <2>2, <2>4
  <2>6. CASE k < r
    <3>1. k \in 1..(i - 1) /\ k \in 1..Len(queue')
      BY <1>0, <2>1, <2>3, <2>4, <2>6
    <3> QED
      BY <2>1, <2>4, <2>6, <3>1
  <2>7. CASE ~(k < r)
    <3>1. /\ k - 1 \in 1..(i - 1) /\ k - 1 \in 1..Len(queue')
          /\ ~(k - 1 < r) /\ (k - 1) + 1 = k
      BY <1>0, <2>1, <2>3, <2>4, <2>5, <2>7
    <3> QED
      BY <2>1, <2>4, <3>1
  <2> QED
    BY <2>6, <2>7
<1> QED
  BY <1>3, <1>4, <1>5, QueueCases

(* What may happen to the messages a drain holds: nothing, unless the one  *)
(* on hand gets stored; one more; the next one goes on hand; all are       *)
(* dropped, and the connection with them.                                  *)
Stays(w) ==
    /\ inbox'[w] = inbox[w]
    /\ pc'[w] = "persist" => pc[w] = "persist" /\ hand'[w] = hand[w]
    /\ pc[w] = "persist" => \/ pc'[w] = "persist" /\ hand'[w] = hand[w]
                            \/ \E s \in 1..Len(history') : history'[s] = hand[w].body

Receives(w, i) ==
    /\ conn = w /\ pc[w] # "close" /\ pc' = pc /\ hand' = hand
    /\ \A j \in 1..(i - 1) : queue[j].mid \in sent
    /\ inbox'[w] = Append(inbox[w], queue[i])

Takes(w) ==
    /\ pc[w] = "consume" /\ inbox[w] # <<>>
    /\ hand'[w] = Head(inbox[w]) /\ inbox'[w] = Tail(inbox[w])
    /\ pc'[w] = IF Head(inbox[w]).body = Malformed THEN "skip" ELSE "persist"

Drops(w) ==
    /\ inbox'[w] = <<>> /\ pc'[w] # "persist"
    /\ conn = w => sent' = {}

(* Every step does one of these to a drain.                                *)
LEMMA DrainCases ==
    ASSUME Typed, [Next]_vars, NEW w \in Watcher
    PROVE  Stays(w) \/ (\E i \in 1..Len(queue) : Receives(w, i)) \/ Takes(w) \/ Drops(w)
<1> USE DEF drainVars, Goto
<1>0. /\ pc \in [Watcher -> States] /\ inbox \in [Watcher -> Seq(Message)]
      /\ hand \in [Watcher -> Message \cup {NoMessage}] /\ conn \in Watcher \cup {Nobody}
  BY DEF Typed, StepOK, BrokerOK
<1>1. CASE inbox'[w] = inbox[w] /\ pc'[w] = pc[w] /\ hand'[w] = hand[w]
  BY <1>1 DEF Stays
<1>2. CASE Deliver
  <2>1. PICK i \in 1..Len(queue) :
           /\ \A j \in 1..(i - 1) : queue[j].mid \in sent
           /\ inbox' = IF pc[conn] = "close" THEN inbox
                       ELSE [inbox EXCEPT ![conn] = Append(@, queue[i])]
    BY <1>2 DEF Deliver
  <2>2. pc' = pc /\ hand' = hand
    BY <1>2 DEF Deliver
  <2>3. CASE conn = w /\ pc[w] # "close"
    <3>1. inbox'[w] = Append(inbox[w], queue[i])
      BY <1>0, <2>1, <2>3
    <3> QED
      BY <2>1, <2>2, <2>3, <3>1 DEF Receives
  <2>4. CASE ~(conn = w /\ pc[w] # "close")
    <3>1. inbox'[w] = inbox[w]
      BY <1>0, <2>1, <2>4
    <3> QED
      BY <1>1, <2>2, <3>1
  <2> QED
    BY <2>3, <2>4
<1>3. ASSUME Take(w)
      PROVE  Takes(w)
  BY <1>0, <1>3 DEF Take, Takes
<1>4. ASSUME Persist(w)
      PROVE  Stays(w)
  <2>1. inbox'[w] = inbox[w] /\ pc'[w] # "persist"
    BY <1>0, <1>4 DEF Persist
  <2>2. \E s \in 1..Len(history') : history'[s] = hand[w].body
    <3>1. Stored(hand[w].body)' /\ hand'[w] = hand[w]
      BY <1>4, PersistStores
    <3> QED
      BY <3>1 DEF Stored
  <2> QED
    BY <2>1, <2>2 DEF Stays
<1>5. ASSUME PersistRaises(w) \/ Close(w) \/ Fail(w)
      PROVE  Drops(w)
  BY <1>0, <1>5 DEF PersistRaises, Close, Fail, Drops, Disconnected
<1>6. ASSUME \/ ReplayHistory(w) \/ Open(w) \/ Subscribe(w) \/ ReadBack(w) \/ Skip(w) \/ Ack(w)
             \/ Stop(w) \/ Return(w) \/ Reconnect(w)
      PROVE  Stays(w)
  <2>1. CASE Reconnect(w)
    BY <2>1 DEF Reconnect, Stays
  <2>2. CASE \/ ReplayHistory(w) \/ Open(w) \/ Subscribe(w) \/ ReadBack(w) \/ Skip(w)
             \/ Ack(w) \/ Stop(w) \/ Return(w)
    <3>1. inbox'[w] = inbox[w] /\ pc[w] # "persist" /\ pc'[w] # "persist"
      BY <1>0, <2>2 DEF ReplayHistory, Open, Subscribe, ReadBack, Skip, Ack, Stop, Return
    <3> QED
      BY <3>1 DEF Stays
  <2> QED
    BY <1>6, <2>1, <2>2
<1>7. ASSUME NEW v \in Watcher, Watch(v), v # w
      PROVE  inbox'[w] = inbox[w] /\ pc'[w] = pc[w] /\ hand'[w] = hand[w]
  BY <1>0, <1>7
     DEF Watch, Consume, ReplayHistory, Open, Subscribe, Take, Persist, PersistRaises,
         ReadBack, Skip, Ack, Stop, Close, Return, Fail, Reconnect
<1>8. CASE UNCHANGED vars
  BY <1>1, <1>8 DEF vars
<1>9. CASE Broker
  BY <1>1, <1>2, <1>9 DEF Broker, Publish, ProcessAck, DropConnection, LoseSession
<1> QED
  BY <1>1, <1>3, <1>4, <1>5, <1>6, <1>7, <1>8, <1>9 DEF Next, Watch, Consume

(* The inbox after a message has come.                                     *)
LEMMA Received ==
    ASSUME Typed, NEW w \in Watcher, NEW i \in 1..Len(queue), Receives(w, i)
    PROVE  /\ Len(inbox[w]) \in Nat /\ Len(inbox'[w]) = Len(inbox[w]) + 1
           /\ inbox'[w][Len(inbox[w]) + 1] = queue[i]
           /\ \A k \in 1..Len(inbox[w]) : inbox'[w][k] = inbox[w][k]
<1>1. inbox \in [Watcher -> Seq(Message)] /\ queue \in Seq(Message)
  BY DEF Typed, StepOK, BrokerOK
<1>2. inbox[w] \in Seq(Message) /\ queue[i] \in Message
  BY <1>1
<1>3. inbox'[w] = Append(inbox[w], queue[i])
  BY DEF Receives
<1> QED
  BY <1>2, <1>3, Appended

(* The inbox after the drain has taken one.                                *)
LEMMA Taken ==
    ASSUME Typed, NEW w \in Watcher, Takes(w)
    PROVE  /\ Len(inbox[w]) \in Nat /\ Len(inbox'[w]) = Len(inbox[w]) - 1
           /\ 1 \in 1..Len(inbox[w]) /\ hand'[w] = inbox[w][1]
           /\ \A k \in 1..Len(inbox'[w]) : inbox'[w][k] = inbox[w][k + 1]
<1>1. inbox[w] \in Seq(Message) /\ inbox[w] # <<>>
  BY DEF Typed, StepOK, Takes
<1>2. inbox'[w] = Tail(inbox[w]) /\ hand'[w] = Head(inbox[w])
  BY DEF Takes
<1>3. 1 \in 1..Len(inbox[w])
  BY <1>1, First
<1>4. /\ Len(Tail(inbox[w])) = Len(inbox[w]) - 1 /\ Head(inbox[w]) = inbox[w][1]
      /\ \A k \in 1..Len(Tail(inbox[w])) : Tail(inbox[w])[k] = inbox[w][k + 1]
  BY <1>1, HeadTail
<1>5. Len(inbox[w]) \in Nat
  BY <1>1, LenProperties
<1> QED
  BY <1>2, <1>3, <1>4, <1>5

(* A body a drain holds, it goes on holding until it is stored or dropped. *)
LEMMA HoldsOn ==
    ASSUME Typed, [Next]_vars, NEW w \in Watcher, NEW d, d # Malformed, Holds(w, d), ~Drops(w)
    PROVE  \/ \E s \in 1..Len(history') : history'[s] = d
           \/ pc'[w] = "persist" /\ hand'[w].body = d
           \/ \E k \in 1..Len(inbox'[w]) : inbox'[w][k].body = d
<1>1. CASE Stays(w)
  BY <1>1 DEF Stays, Holds, InHand
<1>2. ASSUME NEW i \in 1..Len(queue), Receives(w, i)
      PROVE  \/ pc'[w] = "persist" /\ hand'[w].body = d
             \/ \E k \in 1..Len(inbox'[w]) : inbox'[w][k].body = d
  <2>1. CASE InHand(w, d)
    BY <1>2, <2>1 DEF InHand, Receives
  <2>2. ASSUME NEW k \in 1..Len(inbox[w]), inbox[w][k].body = d
        PROVE  k \in 1..Len(inbox'[w]) /\ inbox'[w][k].body = d
    <3>1. /\ Len(inbox[w]) \in Nat /\ Len(inbox'[w]) = Len(inbox[w]) + 1
          /\ inbox'[w][k] = inbox[w][k]
      BY <1>2, <2>2, Received
    <3> QED
      BY <2>2, <3>1
  <2> QED
    BY <2>1, <2>2 DEF Holds
<1>3. CASE Takes(w)
  <2>0. ~InHand(w, d)
    BY <1>3 DEF InHand, Takes
  <2>1. /\ Len(inbox[w]) \in Nat /\ Len(inbox'[w]) = Len(inbox[w]) - 1
        /\ hand'[w] = inbox[w][1]
        /\ \A k \in 1..Len(inbox'[w]) : inbox'[w][k] = inbox[w][k + 1]
    BY <1>3, Taken
  <2>2. PICK k \in 1..Len(inbox[w]) : inbox[w][k].body = d
    BY <2>0 DEF Holds
  <2>3. CASE k = 1
    <3>1. hand'[w].body = d /\ hand'[w] = Head(inbox[w])
      BY <1>3, <2>1, <2>2, <2>3 DEF Takes
    <3> QED
      BY <1>3, <3>1 DEF Takes
  <2>4. CASE k # 1
    <3>1. k - 1 \in 1..Len(inbox'[w]) /\ (k - 1) + 1 = k
      BY <2>1, <2>4
    <3> QED
      BY <2>1, <2>2, <3>1
  <2> QED
    BY <2>3, <2>4
<1> QED
  BY <1>1, <1>2, <1>3, DrainCases

(* What a drain holds keeps its order.                                     *)
LEMMA InboxOrderStep ==
    ASSUME MaxLosses = 0, Typed, Typed', Safe, Ordered, [Next]_vars
    PROVE  InboxInOrder'
<1> SUFFICES ASSUME NEW w \in Watcher, NEW k \in 1..Len(inbox'[w]), NEW d \in Event,
                    MissingFrom(d, inbox'[w][k].body, history', accepted')
             PROVE  \/ pc'[w] = "persist" /\ hand'[w].body = d
                    \/ \E j \in 1..(k - 1) : inbox'[w][j].body = d
  BY DEF InboxInOrder, InHand, Missing
<1>0. inbox'[w][k].body # Malformed /\ d # Malformed
  <2>1. accepted' \in Seq(Event)
    BY DEF Typed, StoreOK
  <2> QED
    BY <2>1, MissingEvents
<1>1. ~\E s \in 1..Len(history') : history'[s] = d
  BY DEF MissingFrom
<1>2. ASSUME NEW l \in 1..Len(inbox[w]), inbox'[w][k] = inbox[w][l]
      PROVE  InHand(w, d) \/ \E j \in 1..(l - 1) : inbox[w][j].body = d
  <2>1. Known(inbox[w][l])
    BY DEF Safe, AllKnown
  <2>2. Missing(d, inbox[w][l].body)
    BY <1>0, <1>2, <2>1, Before
  <2> QED
    BY <2>2 DEF Ordered, InboxInOrder
<1>3. CASE Stays(w)
  <2>1. k \in 1..Len(inbox[w]) /\ inbox'[w] = inbox[w]
    BY <1>3 DEF Stays
  <2>2. InHand(w, d) => pc'[w] = "persist" /\ hand'[w].body = d
    BY <1>1, <1>3 DEF InHand, Stays
  <2> QED
    BY <1>2, <2>1, <2>2
<1>4. ASSUME NEW i \in 1..Len(queue), Receives(w, i)
      PROVE  \/ pc'[w] = "persist" /\ hand'[w].body = d
             \/ \E j \in 1..(k - 1) : inbox'[w][j].body = d
  <2>1. /\ Len(inbox[w]) \in Nat /\ Len(inbox'[w]) = Len(inbox[w]) + 1
        /\ inbox'[w][Len(inbox[w]) + 1] = queue[i]
        /\ \A l \in 1..Len(inbox[w]) : inbox'[w][l] = inbox[w][l]
    BY <1>4, Received
  <2>2. InHand(w, d) => pc'[w] = "persist" /\ hand'[w].body = d
    BY <1>4 DEF Receives, InHand
  <2>3. CASE k \in 1..Len(inbox[w])
    <3>1. InHand(w, d) \/ \E j \in 1..(k - 1) : inbox[w][j].body = d
      BY <1>2, <2>1, <2>3
    <3>2. \A j \in 1..(k - 1) : j \in 1..Len(inbox[w])
      BY <2>1, <2>3
    <3> QED
      BY <2>1, <2>2, <3>1, <3>2
  <2>4. CASE k = Len(inbox[w]) + 1
    <3>1. Known(queue[i]) /\ inbox'[w][k] = queue[i]
      BY <2>1, <2>4 DEF Safe, AllKnown
    <3>2. Missing(d, queue[i].body) /\ ~Stored(d)
      BY <1>0, <3>1, Before
    <3>3. PICK j \in 1..(i - 1) : queue[j].body = d
      BY <3>2 DEF Ordered, QueueInOrder
    <3>4. j \in 1..Len(queue)
      <4>1. Len(queue) \in Nat
        <5>1. queue \in Seq(Message)
          BY DEF Typed, BrokerOK
        <5> QED
          BY <5>1, LenProperties
      <4> QED
        BY <4>1, <3>3
    <3>5. queue[j].mid \in sent /\ conn = w /\ conn # Nobody /\ pc[conn] # "close"
      BY <1>4, <3>3, NobodyAssumption DEF Receives
    <3>6. Holds(w, d)
      BY <1>0, <3>2, <3>3, <3>4, <3>5 DEF Ordered, SentIsHeld
    <3>7. \A l \in 1..Len(inbox[w]) : l \in 1..(k - 1)
      BY <2>1, <2>4
    <3> QED
      BY <2>1, <2>2, <3>6, <3>7 DEF Holds
  <2> QED
    BY <2>1, <2>3, <2>4
<1>5. CASE Takes(w)
  <2>1. /\ Len(inbox[w]) \in Nat /\ Len(inbox'[w]) = Len(inbox[w]) - 1
        /\ hand'[w] = inbox[w][1]
        /\ \A l \in 1..Len(inbox'[w]) : inbox'[w][l] = inbox[w][l + 1]
    BY <1>5, Taken
  <2>2. k + 1 \in 1..Len(inbox[w]) /\ (k + 1) - 1 = k
    BY <2>1
  <2>3. ~InHand(w, d)
    BY <1>5 DEF Takes, InHand
  <2>4. PICK j \in 1..k : inbox[w][j].body = d
    BY <1>2, <2>1, <2>2, <2>3
  <2>5. CASE j = 1
    <3>1. hand'[w].body = d /\ hand'[w] = Head(inbox[w])
      BY <1>5, <2>1, <2>4, <2>5 DEF Takes
    <3> QED
      BY <1>0, <1>5, <3>1 DEF Takes
  <2>6. CASE j # 1
    <3>1. j - 1 \in 1..(k - 1) /\ j - 1 \in 1..Len(inbox'[w]) /\ (j - 1) + 1 = j
      BY <2>1, <2>4, <2>6
    <3> QED
      BY <2>1, <2>4, <3>1
  <2> QED
    BY <2>5, <2>6
<1>6. ~Drops(w)
  <2>1. Len(inbox'[w]) # 0
    OBVIOUS
  <2> QED
    BY <2>1, EmptySeq DEF Drops
<1> QED
  BY <1>3, <1>4, <1>5, <1>6, DrainCases

(* And nothing that is missing stands before what is being stored.         *)
LEMMA HandOrderStep ==
    ASSUME MaxLosses = 0, Typed, Typed', Safe, Ordered, [Next]_vars
    PROVE  HandInOrder'
<1> SUFFICES ASSUME NEW w \in Watcher, NEW d \in Event, pc'[w] = "persist",
                    MissingFrom(d, hand'[w].body, history', accepted')
             PROVE  FALSE
  BY DEF HandInOrder, Missing
<1>0. hand'[w].body # Malformed
  <2>1. accepted' \in Seq(Event)
    BY DEF Typed, StoreOK
  <2> QED
    BY <2>1, MissingEvents
<1>1. CASE pc[w] = "persist" /\ hand'[w] = hand[w]
  <2>1. Known(hand[w])
    BY <1>1 DEF Safe, AllKnown, Holding
  <2>2. Missing(d, hand[w].body)
    BY <1>0, <1>1, <2>1, Before
  <2> QED
    BY <1>1, <2>2 DEF Ordered, HandInOrder
<1>2. CASE Takes(w)
  <2>1. 1 \in 1..Len(inbox[w]) /\ hand'[w] = inbox[w][1]
    BY <1>2, Taken
  <2>2. Known(inbox[w][1])
    BY <2>1 DEF Safe, AllKnown
  <2>3. Missing(d, inbox[w][1].body)
    BY <1>0, <2>1, <2>2, Before
  <2>4. InHand(w, d) \/ \E j \in 1..(1 - 1) : inbox[w][j].body = d
    BY <2>1, <2>3 DEF Ordered, InboxInOrder
  <2>5. ~InHand(w, d)
    BY <1>2 DEF Takes, InHand
  <2> QED
    BY <2>4, <2>5
<1> QED
  BY <1>1, <1>2, DrainCases DEF Stays, Receives, Drops

(* What is sent has been, on this connection, or is delivered by this step;*)
(* and a drain that closes takes its connection with it.                   *)
LEMMA SentCases ==
    ASSUME Typed, [Next]_vars, NEW m \in sent'
    PROVE  /\ conn' = conn
           /\ pc'[conn] # "close" /\ conn # Nobody => pc[conn] # "close"
           /\ \/ m \in sent
              \/ \E i \in 1..Len(queue) :
                     m = queue[i].mid /\ (pc[conn] = "close" \/ Receives(conn, i))
<1> USE DEF brokerVars, drainVars, Disconnected, Goto
<1>0. pc \in [Watcher -> States] /\ conn \in Watcher \cup {Nobody}
      /\ inbox \in [Watcher -> Seq(Message)]
  BY DEF Typed, StepOK, BrokerOK
<1>1. CASE Deliver
  <2>1. PICK i \in 1..Len(queue) :
           /\ \A j \in 1..(i - 1) : queue[j].mid \in sent
           /\ sent' = sent \cup {queue[i].mid}
           /\ inbox' = IF pc[conn] = "close" THEN inbox
                       ELSE [inbox EXCEPT ![conn] = Append(@, queue[i])]
    BY <1>1 DEF Deliver
  <2>2. conn # Nobody /\ conn' = conn /\ pc' = pc /\ hand' = hand
    BY <1>1 DEF Deliver
  <2>3. pc[conn] = "close" \/ Receives(conn, i)
    <3>1. pc[conn] # "close" => inbox'[conn] = Append(inbox[conn], queue[i])
      BY <1>0, <2>1, <2>2
    <3> QED
      BY <2>1, <2>2, <3>1 DEF Receives
  <2> QED
    BY <2>1, <2>2, <2>3
<1>2. ASSUME NEW w \in Watcher, Watch(w)
      PROVE  conn' = conn /\ m \in sent
  BY <1>2 DEF Watch, Consume, ReplayHistory, Open, Subscribe, Take, Persist, PersistRaises,
              ReadBack, Skip, Ack, Stop, Close, Return, Fail, Reconnect, Bind, SendAck
<1>3. ASSUME NEW w \in Watcher, Watch(w), conn # Nobody, pc'[conn] # "close"
      PROVE  pc[conn] # "close"
  <2>1. CASE w = conn
    <3>1. CASE PersistRaises(w) \/ Close(w) \/ Fail(w)
      <4>1. sent' = {}
        BY <2>1, <3>1 DEF PersistRaises, Close, Fail
      <4> QED
        BY <4>1
    <3>2. CASE Reconnect(w)
      BY <2>1, <3>2 DEF Reconnect
    <3>3. CASE ~(PersistRaises(w) \/ Close(w) \/ Fail(w) \/ Reconnect(w))
      BY <1>3, <2>1, <3>3
         DEF Watch, Consume, ReplayHistory, Open, Subscribe, Take, Persist,
             ReadBack, Skip, Ack, Stop, Return
    <3> QED
      BY <3>1, <3>2, <3>3
  <2>2. CASE w # conn
    <3>1. pc'[conn] = pc[conn]
      BY <1>0, <1>3, <2>2
         DEF Watch, Consume, ReplayHistory, Open, Subscribe, Take, Persist, PersistRaises,
             ReadBack, Skip, Ack, Stop, Close, Return, Fail, Reconnect
    <3> QED
      BY <1>3, <3>1
  <2> QED
    BY <2>1, <2>2
<1>4. CASE UNCHANGED vars
  BY <1>4 DEF vars
<1>5. CASE Broker
  BY <1>1, <1>5 DEF Broker, Publish, ProcessAck, DropConnection, LoseSession
<1> QED
  BY <1>2, <1>3, <1>4, <1>5 DEF Next

(* What has been sent and is not stored, the drain goes on holding.        *)
LEMMA SentHeldStep ==
    ASSUME MaxLosses = 0, Typed, Safe, Ordered, [Next]_vars
    PROVE  SentIsHeld'
<1> SUFFICES ASSUME NEW i \in 1..Len(queue'), conn' # Nobody, pc'[conn'] # "close",
                    queue'[i].mid \in sent', queue'[i].body # Malformed,
                    ~\E s \in 1..Len(history') : history'[s] = queue'[i].body
             PROVE  \/ pc'[conn'] = "persist" /\ hand'[conn'].body = queue'[i].body
                    \/ \E k \in 1..Len(inbox'[conn']) : inbox'[conn'][k].body = queue'[i].body
  BY DEF SentIsHeld, Holds, InHand, Stored
<1>1. /\ conn' = conn /\ pc[conn] # "close" /\ conn \in Watcher
      /\ \/ queue'[i].mid \in sent
         \/ \E j \in 1..Len(queue) : queue'[i].mid = queue[j].mid /\ Receives(conn, j)
  BY SentCases DEF Typed, BrokerOK
<1>2. PICK j \in 1..Len(queue) : queue'[i] = queue[j]
  <2>1. lastMid \in Nat
    BY DEF Typed, BrokerOK
  <2>2. queue'[i].mid # lastMid + 1
    <3>1. \A m \in sent : m <= lastMid
      BY DEF Safe, MidsGrow
    <3>2. \A k \in 1..Len(queue) : queue[k].mid <= lastMid
      BY DEF Safe, MidsGrow
    <3>3. queue'[i].mid <= lastMid
      BY <1>1, <3>1, <3>2
    <3> QED
      BY <2>1, <3>3
  <2> QED
    BY <2>2, QueueFrom
<1>3. ~Stored(queue[j].body)
  BY <1>2, StoredStays DEF Stored
<1>4. CASE queue'[i].mid \in sent
  <2>1. Holds(conn, queue[j].body)
    BY <1>1, <1>2, <1>3, <1>4 DEF Ordered, SentIsHeld
  <2>2. ~Drops(conn)
    BY DEF Drops
  <2> QED
    BY <1>1, <1>2, <2>1, <2>2, HoldsOn
<1>5. ASSUME NEW k \in 1..Len(queue), queue'[i].mid = queue[k].mid, Receives(conn, k)
      PROVE  \E l \in 1..Len(inbox'[conn]) : inbox'[conn][l].body = queue'[i].body
  <2>1. queue[j] = queue[k]
    BY <1>2, <1>5 DEF Safe, AllKnown, Known, KnownBy
  <2>2. /\ Len(inbox[conn]) \in Nat /\ Len(inbox'[conn]) = Len(inbox[conn]) + 1
        /\ inbox'[conn][Len(inbox[conn]) + 1] = queue[k]
    BY <1>1, <1>5, Received
  <2>3. Len(inbox[conn]) + 1 \in 1..Len(inbox'[conn])
    BY <2>2
  <2> QED
    BY <1>2, <2>1, <2>2, <2>3
<1> QED
  BY <1>1, <1>4, <1>5

(* What is stored next is the next that was accepted.                      *)
LEMMA NextStored ==
    ASSUME Typed, Safe, Ordered, NEW w \in Watcher, Persist(w), ~Stored(hand[w].body)
    PROVE  /\ Len(history) + 1 \in 1..Len(accepted)
           /\ accepted[Len(history) + 1] = hand[w].body
<1>0. /\ Len(history) \in Nat /\ Len(accepted) \in Nat /\ accepted \in Seq(Event)
      /\ pc[w] = "persist"
  BY LenProperties DEF Typed, StoreOK, Persist
<1>1. hand[w].body \in Event /\ hand[w].body # Malformed
  BY <1>0, MalformedAssumption DEF Typed, HandOK
<1>2. PICK b \in 1..Len(accepted) : accepted[b] = hand[w].body
  <2>1. Known(hand[w])
    BY <1>0 DEF Safe, AllKnown, Holding
  <2> QED
    BY <1>1, <2>1 DEF Known, KnownBy, RangeOf
<1>3. \A s \in 1..Len(history) : history[s] = accepted[s]
  BY DEF Ordered, StoredInOrder
<1>4. b > Len(history)
  <2>1. b \notin 1..Len(history)
    BY <1>2, <1>3 DEF Stored
  <2> QED
    BY <1>0, <2>1
<1>5. ASSUME b > Len(history) + 1
      PROVE  FALSE
  <2> DEFINE a == Len(history) + 1
  <2>1. a \in 1..Len(accepted) /\ a < b
    BY <1>0, <1>5
  <2>2. accepted[a] \in Event
    BY <1>0, <2>1
  <2>3. ASSUME NEW s \in 1..Len(history), history[s] = accepted[a]
        PROVE  FALSE
    <3>1. s \in 1..Len(accepted) /\ accepted[s] = accepted[a]
      BY <1>0, <1>3, <2>1, <2>3
    <3>2. s = a
      BY <2>1, <3>1 DEF Ordered, Distinct
    <3> QED
      BY <1>0, <3>2
  <2> HIDE DEF a
  <2>4. Missing(accepted[a], hand[w].body)
    BY <1>2, <2>1, <2>3 DEF Missing, MissingFrom
  <2> QED
    BY <1>0, <2>2, <2>4 DEF Ordered, HandInOrder
<1>6. b = Len(history) + 1
  BY <1>0, <1>4, <1>5
<1> QED
  BY <1>2, <1>6

(* So the store keeps the order.                                           *)
LEMMA StoredOrderStep ==
    ASSUME MaxLosses = 0, Typed, Safe, Ordered, [Next]_vars
    PROVE  StoredInOrder'
<1>0. /\ Len(history) <= Len(accepted) /\ Len(history) \in Nat /\ Len(accepted) \in Nat
      /\ \A s \in 1..Len(history) : history[s] = accepted[s]
  BY Accepts, StoreTypes DEF Ordered, StoredInOrder, Typed
<1>1. Len(accepted) <= Len(accepted') /\ \A k \in 1..Len(accepted) : accepted'[k] = accepted[k]
  BY <1>0, Accepts
<1>2. CASE UNCHANGED history
  <2>1. Len(accepted') \in Nat
    BY StoreTypes, LenProperties DEF StoreOK, Typed
  <2>2. Len(history') <= Len(accepted')
    BY <1>0, <1>1, <1>2, <2>1
  <2>3. \A s \in 1..Len(history') : history'[s] = accepted'[s]
    <3>1. \A s \in 1..Len(history) : s \in 1..Len(accepted)
      BY <1>0
    <3> QED
      BY <1>0, <1>1, <1>2, <3>1
  <2> QED
    BY <2>2, <2>3 DEF StoredInOrder
<1>3. ASSUME NEW w \in Watcher, Persist(w), ~Stored(hand[w].body)
      PROVE  StoredInOrder'
  <2>1. /\ Len(history) + 1 \in 1..Len(accepted)
        /\ accepted[Len(history) + 1] = hand[w].body
    BY <1>3, NextStored
  <2>2. accepted' = accepted /\ history' = Append(history, hand[w].body)
    BY <1>3 DEF Persist
  <2>3. history \in Seq(Event) /\ hand[w].body \in Event
    BY <1>3, OnHand DEF Typed, StoreOK, Persist
  <2>4. /\ Len(history') = Len(history) + 1 /\ history'[Len(history) + 1] = hand[w].body
        /\ \A k \in 1..Len(history) : history'[k] = history[k]
    BY <2>2, <2>3, Appended
  <2>5. \A s \in 1..Len(history') : s \in 1..Len(history) \/ s = Len(history) + 1
    BY <1>0, <2>4
  <2>6. \A s \in 1..Len(history') : history'[s] = accepted[s]
    BY <1>0, <2>1, <2>4, <2>5
  <2>7. Len(history') <= Len(accepted)
    BY <1>0, <2>1, <2>4
  <2> QED
    BY <2>2, <2>6, <2>7 DEF StoredInOrder
<1>4. ASSUME NEW w \in Watcher, Watch(w), ~(Persist(w) /\ ~Stored(hand[w].body))
      PROVE  UNCHANGED history
  BY <1>4 DEF Watch, Consume, ReplayHistory, Open, Subscribe, Take, Persist, PersistRaises,
              ReadBack, Skip, Ack, Stop, Close, Return, Fail, Reconnect
<1>5. CASE UNCHANGED vars
  BY <1>2, <1>5 DEF vars
<1>6. CASE Broker
  BY <1>2, <1>6 DEF Broker, Publish, Deliver, ProcessAck, DropConnection, LoseSession
<1> QED
  BY <1>2, <1>3, <1>4, <1>5, <1>6 DEF Next

(* While the broker keeps the session, what is stored is, in order and once*)
(* each, the first events it has queued, whoever takes the session over    *)
(* and whatever is delivered again: drain.py 34-37 and 160-164.            *)
THEOREM DrainsKeepOrder ==
    ASSUME MaxLosses = 0
    PROVE  Spec => []StoredInOrder
<1>1. Init => Ordered
  <2> SUFFICES ASSUME Init PROVE Ordered
    OBVIOUS
  <2>1. /\ queue = <<>> /\ accepted = <<>> /\ history = <<>> /\ conn = Nobody
        /\ inbox = [w \in Watcher |-> <<>>] /\ pc = [w \in Watcher |-> "idle"]
    BY DEF Init
  <2>2. /\ Len(queue) = 0 /\ Len(accepted) = 0 /\ Len(history) = 0
        /\ \A w \in Watcher : Len(inbox[w]) = 0
    BY <2>1, EmptySeq
  <2>3. Distinct /\ StoredInOrder
    BY <2>2 DEF Distinct, StoredInOrder
  <2>4. QueueInOrder /\ InboxInOrder
    BY <2>2 DEF QueueInOrder, InboxInOrder
  <2>5. HandInOrder /\ SentIsHeld
    BY <2>1 DEF HandInOrder, SentIsHeld
  <2> QED
    BY <2>3, <2>4, <2>5 DEF Ordered
<1>2. Typed /\ Typed' /\ Safe /\ Ordered /\ [Next]_vars => Ordered'
  <2> SUFFICES ASSUME Typed, Typed', Safe, Ordered, [Next]_vars
               PROVE  Ordered'
    OBVIOUS
  <2>1. Distinct'
    BY DistinctStep DEF Ordered
  <2>2. QueueInOrder'
    BY QueueOrderStep DEF Ordered
  <2> QED
    BY <2>1, <2>2, StoredOrderStep, InboxOrderStep, HandOrderStep, SentHeldStep DEF Ordered
<1>3. Ordered => StoredInOrder
  BY DEF Ordered
<1> QED
  BY <1>1, <1>2, <1>3, SafeAlways, PTL DEF Spec
-----------------------------------------------------------------------------
(* The cursor, while drains do not overlap.                                *)

(* "A named subscription is drained by one process at a time"              *)
(* (docs/contract.md 311-312): the calls of any number of watchers, one    *)
(* after the other.                                                        *)
OneAtATime ==
    \A v, w \in Watcher : pc[v] # "idle" /\ pc[w] # "idle" => v = w

(* A call that drains has replayed the history to its end: its cursor is   *)
(* the end of the history, or the event on hand is the newest of all.      *)
CaughtUp ==
    \A w \in Watcher :
        /\ pc[w] # "idle" => 1..cursor[w] \subseteq seen[w] \cup RangeOf(batch[w])
        /\ pc[w] \in {"open", "subscribe", "consume", "skip", "persist"} =>
               Len(history) = cursor[w]
        /\ pc[w] \in {"read back", "ack"} =>
               \/ Len(history) = cursor[w]
               \/ Len(history) = cursor[w] + 1 /\ found[w] = Len(history)

(* The page replayed from a cursor, and where it ends.                     *)
PageEnd(from, length) == Smaller(from + Max, length)
PageOf(from, upto) == [i \in 1..(upto - from) |-> from + i]

(* What it holds.                                                          *)
LEMMA PageCovers ==
    ASSUME NEW from \in Nat, NEW length \in Nat, from <= length
    PROVE  /\ \A s \in 1..PageEnd(from, length) :
                  s \in 1..from \/ s \in RangeOf(PageOf(from, PageEnd(from, length)))
           /\ Len(PageOf(from, PageEnd(from, length))) < Max => PageEnd(from, length) = length
<1> DEFINE upto == PageEnd(from, length)
           page == PageOf(from, upto)
           n == upto - from
<1>1. n \in Nat /\ upto \in Nat /\ (n < Max => upto = length) /\ upto = from + n
  BY MaxAssumption DEF Smaller, PageEnd
<1> HIDE DEF n, upto
<1>2. page = [i \in 1..n |-> from + i]
  BY DEF n, PageOf
<1> HIDE DEF page
<1>3. Len(page) = n
  <2>1. \A i \in 1..n : from + i \in Nat
    BY <1>1
  <2>2. page \in [1..n -> Nat]
    BY <1>2, <2>1
  <2>3. page \in Seq(Nat)
    BY <1>1, <2>2, SeqDef
  <2>4. DOMAIN page = 1..n /\ DOMAIN page = 1..Len(page) /\ Len(page) \in Nat
    BY <1>2, <2>3, LenProperties
  <2> QED
    BY <1>1, <2>4, SameEnd
<1>4. ASSUME NEW s \in 1..upto, s \notin 1..from
      PROVE  s \in RangeOf(page)
  <2>1. s - from \in 1..n /\ from + (s - from) = s
    BY <1>1, <1>4
  <2>2. page[s - from] = s
    BY <1>2, <2>1
  <2> QED
    BY <1>3, <2>1, <2>2 DEF RangeOf
<1> QED
  BY <1>1, <1>3, <1>4 DEF upto, page

(* A cursor that moves on by one event covers it.                          *)
LEMMA CoversNext ==
    ASSUME NEW c \in Nat, NEW f \in Nat, NEW n \in Nat, f <= n,
           n = c \/ (n = c + 1 /\ f = n)
    PROVE  Larger(c, f) = n /\ \A s \in 1..n : s \in 1..c \/ s = f
<1>1. CASE n = c
  BY <1>1 DEF Larger
<1>2. CASE n = c + 1 /\ f = n
  BY <1>2 DEF Larger
<1> QED
  BY <1>1, <1>2

(* While drains take turns, no step leaves the cursor behind or ahead.     *)
LEMMA CaughtUpStep ==
    ASSUME Typed, CaughtUp, CursorCovers, OneAtATime, OneAtATime', [Next]_vars
    PROVE  CaughtUp' /\ CursorCovers'
<1> USE DEF Goto, drainVars, callerVars
<1>0. /\ pc \in [Watcher -> States] /\ Len(history) \in Nat
      /\ \A w \in Watcher : /\ found[w] \in Nat /\ cursor[w] \in Nat /\ since[w] \in Nat
                            /\ found[w] <= Len(history) /\ since[w] <= Len(history)
                            /\ batch[w] \in Seq(Nat)
  BY LenProperties DEF Typed, StepOK, StoreOK, CallOK, CursorsIn
<1>1. CASE UNCHANGED <<pc, history, cursor, found, batch, since, seen>>
  <2>1. CursorCovers'
    BY <1>1 DEF CursorCovers
  <2>2. CaughtUp'
    BY <1>1, Zenon DEF CaughtUp
  <2> QED
    BY <2>1, <2>2
<1>2. ASSUME NEW w \in Watcher, \A v \in Watcher : v # w => pc'[v] = "idle",
             UNCHANGED <<since, seen>>,
             /\ pc'[w] # "idle" => 1..cursor'[w] \subseteq seen[w] \cup RangeOf(batch'[w])
             /\ pc'[w] \in {"open", "subscribe", "consume", "skip", "persist"} =>
                    Len(history') = cursor'[w]
             /\ pc'[w] \in {"read back", "ack"} =>
                    \/ Len(history') = cursor'[w]
                    \/ Len(history') = cursor'[w] + 1 /\ found'[w] = Len(history')
      PROVE  CaughtUp' /\ CursorCovers'
  <2>1. ASSUME NEW v \in Watcher, v # w
        PROVE  pc'[v] = "idle"
    BY <1>2, <2>1
  <2>2. CursorCovers'
    BY <1>2 DEF CursorCovers
  <2>3. ASSUME NEW v \in Watcher
        PROVE  /\ pc'[v] # "idle" => 1..cursor'[v] \subseteq seen'[v] \cup RangeOf(batch'[v])
               /\ pc'[v] \in {"open", "subscribe", "consume", "skip", "persist"} =>
                      Len(history') = cursor'[v]
               /\ pc'[v] \in {"read back", "ack"} =>
                      \/ Len(history') = cursor'[v]
                      \/ Len(history') = cursor'[v] + 1 /\ found'[v] = Len(history')
    <3>1. CASE v = w
      BY <1>2, <3>1
    <3>2. CASE v # w
      BY <2>1, <3>2
    <3> QED
      BY <3>1, <3>2
  <2> QED
    BY <2>2, <2>3 DEF CaughtUp
<1>3. ASSUME NEW w \in Watcher, Watch(w)
      PROVE  \A v \in Watcher : v # w => pc'[v] = pc[v]
  BY <1>0, <1>3 DEF Watch, Consume, ReplayHistory, Open, Subscribe, Take, Persist, PersistRaises,
              ReadBack, Skip, Ack, Stop, Close, Return, Fail, Reconnect
<1>4. ASSUME NEW w \in Watcher, Watch(w), pc[w] # "idle" \/ pc'[w] # "idle"
      PROVE  \A v \in Watcher : v # w => pc'[v] = "idle" /\ pc[v] = "idle"
  BY <1>3, <1>4 DEF OneAtATime
<1>5. ASSUME NEW w \in Watcher, ReplayHistory(w)
      PROVE  CaughtUp' /\ CursorCovers'
  <2> DEFINE upto == PageEnd(since[w], Len(history))
             page == PageOf(since[w], upto)
  <2>0. since[w] \in Nat /\ Len(history) \in Nat /\ since[w] <= Len(history)
    BY <1>0
  <2>1. /\ \A s \in 1..upto : s \in 1..since[w] \/ s \in RangeOf(page)
        /\ Len(page) < Max => upto = Len(history)
    BY <2>0, PageCovers
  <2>2. /\ batch' = [batch EXCEPT ![w] = page] /\ cursor' = [cursor EXCEPT ![w] = upto]
        /\ pc' = [pc EXCEPT ![w] = IF Len(page) < Max THEN "open" ELSE "return"]
        /\ UNCHANGED <<since, seen, history>>
    BY <1>5 DEF ReplayHistory, PageEnd, PageOf
  <2> HIDE DEF upto, page
  <2>3. /\ batch'[w] = page /\ cursor'[w] = upto
        /\ pc'[w] = IF Len(page) < Max THEN "open" ELSE "return"
    BY <1>0, <2>2 DEF Typed, CallOK
  <2>4. \A v \in Watcher : v # w => pc'[v] = "idle"
    BY <1>4, <1>5, <2>3 DEF Watch
  <2>5. 1..upto \subseteq seen[w] \cup RangeOf(batch'[w])
    BY <2>1, <2>3 DEF CursorCovers
  <2>6. UNCHANGED <<since, seen>> /\ Len(history') = Len(history)
    BY <2>2
  <2>7. pc'[w] = "open" => Len(history') = cursor'[w]
    BY <2>1, <2>3, <2>6
  <2>8. pc'[w] \in {"open", "return"} /\ 1..cursor'[w] \subseteq seen[w] \cup RangeOf(batch'[w])
    BY <2>3, <2>5
  <2> QED
    BY <1>2, <2>4, <2>6, <2>7, <2>8
<1>6. ASSUME NEW w \in Watcher, Persist(w)
      PROVE  CaughtUp' /\ CursorCovers'
  <2>1. /\ pc[w] = "persist" /\ pc'[w] = "read back"
        /\ UNCHANGED <<batch, cursor, since, seen>>
    BY <1>0, <1>6 DEF Persist
  <2>2. Len(history) = cursor[w] /\ 1..cursor[w] \subseteq seen[w] \cup RangeOf(batch[w])
    BY <2>1 DEF CaughtUp
  <2>3. \A v \in Watcher : v # w => pc'[v] = "idle"
    BY <1>4, <1>6, <2>1 DEF Watch, Consume
  <2>4. \/ Len(history') = Len(history)
        \/ Len(history') = Len(history) + 1 /\ found'[w] = Len(history) + 1
    <3>1. CASE Stored(hand[w].body)
      BY <1>6, <3>1 DEF Persist
    <3>2. CASE ~Stored(hand[w].body)
      <4>1. history' = Append(history, hand[w].body) /\ found'[w] = Len(history) + 1
        BY <1>6, <3>2 DEF Persist, Typed, CallOK
      <4>2. history \in Seq(Event) /\ hand[w].body \in Event
        BY <2>1, OnHand DEF Typed, StoreOK
      <4> QED
        BY <4>1, <4>2, Appended
    <3> QED
      BY <3>1, <3>2
  <2>5. 1..cursor'[w] \subseteq seen[w] \cup RangeOf(batch'[w])
    BY <2>1, <2>2
  <2>6. \/ Len(history') = cursor'[w]
        \/ Len(history') = cursor'[w] + 1 /\ found'[w] = Len(history')
    BY <2>1, <2>2, <2>4
  <2> QED
    BY <1>2, <2>1, <2>3, <2>5, <2>6
<1>7. ASSUME NEW w \in Watcher, Ack(w)
      PROVE  CaughtUp' /\ CursorCovers'
  <2>1. /\ pc[w] = "ack" /\ pc'[w] = "consume"
        /\ batch'[w] = Append(batch[w], found[w])
        /\ cursor'[w] = Larger(cursor[w], found[w])
        /\ UNCHANGED <<since, seen, history>>
    BY <1>0, <1>7 DEF Ack, Typed, CallOK
  <2>2. \A v \in Watcher : v # w => pc'[v] = "idle"
    BY <1>4, <1>7, <2>1 DEF Watch, Consume
  <2>3. /\ 1..cursor[w] \subseteq seen[w] \cup RangeOf(batch[w])
        /\ \/ Len(history) = cursor[w]
           \/ Len(history) = cursor[w] + 1 /\ found[w] = Len(history)
    BY <2>1 DEF CaughtUp
  <2>4. RangeOf(batch[w]) \subseteq RangeOf(batch'[w]) /\ found[w] \in RangeOf(batch'[w])
    <3>1. batch[w] \in Seq(Nat) /\ found[w] \in Nat /\ Len(batch[w]) \in Nat
      BY <1>0, LenProperties
    <3>2. /\ Len(batch'[w]) = Len(batch[w]) + 1
          /\ \A i \in 1..Len(batch[w]) : batch'[w][i] = batch[w][i]
          /\ batch'[w][Len(batch[w]) + 1] = found[w]
      BY <2>1, <3>1, Appended
    <3>3. /\ \A i \in 1..Len(batch[w]) : i \in 1..Len(batch'[w])
          /\ Len(batch[w]) + 1 \in 1..Len(batch'[w])
      BY <3>1, <3>2
    <3> QED
      BY <3>2, <3>3 DEF RangeOf
  <2>5. /\ Larger(cursor[w], found[w]) = Len(history)
        /\ 1..Len(history) \subseteq seen[w] \cup RangeOf(batch'[w])
    <3>1. /\ cursor[w] \in Nat /\ found[w] \in Nat /\ Len(history) \in Nat
          /\ found[w] <= Len(history)
      BY <1>0
    <3>2. /\ Larger(cursor[w], found[w]) = Len(history)
          /\ \A s \in 1..Len(history) : s \in 1..cursor[w] \/ s = found[w]
      BY <2>3, <3>1, CoversNext
    <3> QED
      BY <2>3, <2>4, <3>2
  <2> QED
    BY <1>2, <2>1, <2>2, <2>5
<1>8. ASSUME NEW w \in Watcher, Return(w)
      PROVE  CaughtUp' /\ CursorCovers'
  <2>1. /\ pc[w] = "return" /\ pc'[w] = "idle"
        /\ since'[w] = cursor[w] /\ seen'[w] = seen[w] \cup RangeOf(batch[w])
        /\ \A v \in Watcher : v # w => since'[v] = since[v] /\ seen'[v] = seen[v]
    BY <1>0, <1>8 DEF Return, Typed, CallOK
  <2>2. \A v \in Watcher : pc'[v] = "idle"
    BY <1>4, <1>8, <2>1 DEF Watch
  <2>3. 1..cursor[w] \subseteq seen[w] \cup RangeOf(batch[w])
    BY <2>1 DEF CaughtUp
  <2>4. CursorCovers'
    BY <2>1, <2>3 DEF CursorCovers
  <2> QED
    BY <2>2, <2>4 DEF CaughtUp
<1>9. ASSUME NEW w \in Watcher, Fail(w) \/ PersistRaises(w)
      PROVE  CaughtUp' /\ CursorCovers'
  <2>1. pc[w] # "idle" /\ pc'[w] = "idle" /\ UNCHANGED <<since, seen>>
    BY <1>0, <1>9 DEF Fail, PersistRaises
  <2>2. \A v \in Watcher : pc'[v] = "idle"
    BY <1>4, <1>9, <2>1 DEF Watch, Consume
  <2> QED
    BY <2>1, <2>2 DEF CaughtUp, CursorCovers
<1>10. ASSUME NEW w \in Watcher,
              \/ Open(w) \/ Subscribe(w) \/ Take(w) \/ ReadBack(w) \/ Skip(w)
              \/ Stop(w) \/ Close(w)
       PROVE  CaughtUp' /\ CursorCovers'
  <2>1. UNCHANGED <<history, cursor, found, batch, since, seen>>
    BY <1>10 DEF Open, Subscribe, Take, ReadBack, Skip, Stop, Close
  <2>2. /\ pc[w] # "idle" /\ pc'[w] # "idle"
        /\ pc'[w] \in {"open", "subscribe", "consume", "skip", "persist"} =>
               pc[w] \in {"open", "subscribe", "consume", "skip", "persist"}
        /\ pc'[w] \in {"read back", "ack"} => pc[w] \in {"read back", "ack"}
    BY <1>0, <1>10 DEF Open, Subscribe, Take, ReadBack, Skip, Stop, Close
  <2>3. \A v \in Watcher : v # w => pc'[v] = "idle"
    BY <1>4, <1>10, <2>2 DEF Watch, Consume
  <2> QED
    BY <1>2, <2>1, <2>2, <2>3 DEF CaughtUp
<1>11. ASSUME NEW w \in Watcher, Reconnect(w)
       PROVE  CaughtUp' /\ CursorCovers'
  BY <1>1, <1>11 DEF Reconnect
<1>12. CASE UNCHANGED vars
  BY <1>1, <1>12 DEF vars
<1>13. CASE Broker
  BY <1>1, <1>13 DEF Broker, Publish, Deliver, ProcessAck, DropConnection, LoseSession
<1> QED
  BY <1>5, <1>6, <1>7, <1>8, <1>9, <1>10, <1>11, <1>12, <1>13 DEF Next, Watch, Consume

(* "Cursor resume is exact" (history/__init__.py 33-34): as long as no two *)
(* drains overlap, every caller has been given each event at or below the  *)
(* cursor it holds, though sessions are lost, connections break, and calls *)
(* fail between the store and the caller.                                  *)
THEOREM CursorIsExact == Spec /\ []OneAtATime => []CursorCovers
<1>1. Init => CaughtUp /\ CursorCovers
  BY DEF Init, CaughtUp, CursorCovers
<1>2. Typed /\ OneAtATime /\ OneAtATime' /\ CaughtUp /\ CursorCovers /\ [Next]_vars
          => (CaughtUp /\ CursorCovers)'
  BY CaughtUpStep
<1> QED
  BY <1>1, <1>2, TypedAlways, PTL DEF Spec

(* One caller cannot overlap with itself.                                  *)
THEOREM OneCallerIsExact ==
    ASSUME \A v, w \in Watcher : v = w
    PROVE  Spec => []CursorCovers
<1>1. OneAtATime
  BY DEF OneAtATime
<1> QED
  BY <1>1, CursorIsExact, PTL
=============================================================================
