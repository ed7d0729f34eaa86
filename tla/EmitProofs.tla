------------------------------ MODULE EmitProofs ------------------------------
(***************************************************************************)
(* For any messages and bounds, in a program that uses an EventClient and  *)
(* in runs of `events emit`: the types, that what a publish was answered   *)
(* and an exit code says is true, and that a closed client stays closed.   *)
(***************************************************************************)
EXTENDS Emit, FiniteSetTheorems, SequenceTheorems, TLAPS

USE NoPacketAssumption, HotAssumption

Packet == Message \cup {"online", "offline", "bye"}

(* paho and the broker have never had the message.                         *)
Untouched(m) == m \notin Elements(out) \cup Elements(unacked) \cup taken

(* A message nobody has published, or that was dropped, is nowhere; one    *)
(* that is waited for is kept until it is taken; a publish that waits has  *)
(* the caller's thread.                                                    *)
Delivery ==
    /\ \A m \in Message : result[m] = "none" /\ m \notin waiting => Untouched(m)
    /\ \A m \in hot : result[m] = "no_conn" => Untouched(m)
    /\ \A m \in waiting : m \notin hot => m \in Elements(unacked) \cup taken
    /\ \A m \in Message : result[m] = "confirmed" /\ m \notin hot => m \in taken
    /\ \A m, n \in waiting : m = n
    /\ waiting # {} => caller = "confirm"
    /\ caller = "started" => loopStarted

Core == TypeOK /\ Delivery

-----------------------------------------------------------------------------
(* The elements of the sequences the packets wait in.                      *)

LEMMA ElementsOf ==
    ASSUME NEW S, NEW s \in Seq(S), NEW x
    PROVE  x \in Elements(s) <=> \E i \in 1..Len(s) : x = s[i]
  BY DEF Elements

LEMMA ElementsEmpty == Elements(<<>>) = {}
  BY DEF Elements

LEMMA ElementsAppend ==
    ASSUME NEW S, NEW s \in Seq(S), NEW x \in S
    PROVE  Elements(Append(s, x)) = Elements(s) \cup {x}
  <1>1. /\ Len(Append(s, x)) = Len(s) + 1
        /\ \A i \in 1..Len(s) : Append(s, x)[i] = s[i]
        /\ Append(s, x)[Len(s) + 1] = x
    OBVIOUS
  <1>2. 1..(Len(s) + 1) = (1..Len(s)) \cup {Len(s) + 1}
    BY LenProperties
  <1> QED BY <1>1, <1>2 DEF Elements

LEMMA ElementsTail ==
    ASSUME NEW S, NEW s \in Seq(S), s # <<>>
    PROVE  /\ Tail(s) \in Seq(S) /\ Head(s) \in Elements(s)
           /\ Elements(Tail(s)) \subseteq Elements(s)
  BY DEF Elements

LEMMA ElementsConcat ==
    ASSUME NEW S, NEW s \in Seq(S), NEW t \in Seq(S)
    PROVE  Elements(s \o t) = Elements(s) \cup Elements(t)
  <1>1. /\ s \o t \in Seq(S)
        /\ Len(s \o t) = Len(s) + Len(t)
        /\ \A i \in 1..(Len(s) + Len(t)) :
               (s \o t)[i] = IF i <= Len(s) THEN s[i] ELSE t[i - Len(s)]
    BY ConcatProperties
  <1>2. ASSUME NEW x \in Elements(s \o t) PROVE x \in Elements(s) \cup Elements(t)
    <2>1. PICK i \in 1..Len(s \o t) : x = (s \o t)[i]
      BY <1>2 DEF Elements
    <2>2. CASE i <= Len(s)
      <3>1. i \in 1..Len(s) /\ x = s[i]
        BY <1>1, <2>1, <2>2, LenProperties
      <3> QED BY <3>1 DEF Elements
    <2>3. CASE i > Len(s)
      <3>1. i - Len(s) \in 1..Len(t) /\ x = t[i - Len(s)]
        BY <1>1, <2>1, <2>3, LenProperties
      <3> QED BY <3>1 DEF Elements
    <2> QED BY <2>1, <2>2, <2>3, LenProperties
  <1>3. ASSUME NEW x \in Elements(s) PROVE x \in Elements(s \o t)
    <2>1. PICK i \in 1..Len(s) : x = s[i]
      BY <1>3 DEF Elements
    <2>2. i \in 1..Len(s \o t) /\ (s \o t)[i] = x
      BY <1>1, <2>1, LenProperties
    <2> QED BY <2>2 DEF Elements
  <1>4. ASSUME NEW x \in Elements(t) PROVE x \in Elements(s \o t)
    <2>1. PICK i \in 1..Len(t) : x = t[i]
      BY <1>4 DEF Elements
    <2>2. i + Len(s) \in 1..Len(s \o t) /\ (s \o t)[i + Len(s)] = x
      BY <1>1, <2>1, LenProperties
    <2> QED BY <2>2 DEF Elements
  <1> QED BY <1>2, <1>3, <1>4

LEMMA ElementsSubSeq ==
    ASSUME NEW S, NEW s \in Seq(S), NEW n \in 0..Len(s)
    PROVE  /\ SubSeq(s, 1, n) \in Seq(S)
           /\ Elements(SubSeq(s, 1, n)) \subseteq Elements(s)
  BY DEF Elements

Without(s, i) == SubSeq(s, 1, i - 1) \o SubSeq(s, i + 1, Len(s))

(* Without its i-th element a sequence has all its others.                 *)
LEMMA ElementsWithout ==
    ASSUME NEW S, NEW s \in Seq(S), NEW i \in 1..Len(s)
    PROVE  /\ Without(s, i) \in Seq(S)
           /\ Elements(Without(s, i)) \subseteq Elements(s)
           /\ Elements(s) \subseteq Elements(Without(s, i)) \cup {s[i]}
  <1> DEFINE before == SubSeq(s, 1, i - 1)
             after  == SubSeq(s, i + 1, Len(s))
  <1>1. /\ before \in Seq(S) /\ Len(before) = i - 1
        /\ \A j \in 1..(i - 1) : before[j] = s[j]
    BY LenProperties
  <1>2. /\ after \in Seq(S) /\ Len(after) = Len(s) - i
        /\ \A j \in 1..(Len(s) - i) : after[j] = s[j + i]
    BY LenProperties
  <1>3. Elements(before \o after) = Elements(before) \cup Elements(after)
    <2>1. before \in Seq(S) /\ after \in Seq(S)
      BY <1>1, <1>2
    <2> HIDE DEF before, after
    <2> QED
      BY <2>1, ElementsConcat
  <1>4. Elements(before) \subseteq Elements(s) /\ Elements(after) \subseteq Elements(s)
    BY <1>1, <1>2, LenProperties DEF Elements
  <1>5. ASSUME NEW j \in 1..Len(s), j # i
        PROVE  s[j] \in Elements(before) \cup Elements(after)
    <2>1. CASE j < i
      BY <1>1, <2>1, LenProperties DEF Elements
    <2>2. CASE j > i
      <3>1. j - i \in 1..(Len(s) - i) /\ after[j - i] = s[j]
        BY <1>2, <2>2, LenProperties
      <3> QED BY <1>2, <3>1 DEF Elements
    <2> QED BY <1>5, <2>1, <2>2, LenProperties
  <1>6. Elements(s) \subseteq Elements(before \o after) \cup {s[i]}
    BY <1>3, <1>5 DEF Elements
  <1>7. before \o after \in Seq(S)
    BY <1>1, <1>2, ConcatProperties
  <1>8. Without(s, i) = before \o after
    BY DEF Without
  <1> HIDE DEF before, after
  <1> QED BY <1>3, <1>4, <1>6, <1>7, <1>8

(* What is sent again is some of what has no PUBACK.                       *)
LEMMA UnsentIsUnacked ==
    ASSUME unacked \in Seq(Message)
    PROVE  Unsent \in Seq(Message) /\ Elements(Unsent) \subseteq Elements(unacked)
  <1> DEFINE again == {i \in 1..Len(unacked) : unacked[i] \notin Elements(out)}
  <1>1. IsFiniteSet(1..Len(unacked)) /\ Cardinality(1..Len(unacked)) = Len(unacked)
    <2>1. Len(unacked) \in Nat
      BY LenProperties
    <2> QED BY <2>1, FS_Interval
  <1>2. Cardinality(again) \in Nat /\ Cardinality(again) <= Len(unacked)
    BY <1>1, FS_Subset, FS_CardinalityType
  <1>3. Cardinality(again) \in 0..Len(unacked)
    BY <1>2, LenProperties
  <1>4. Unsent = SubSeq(unacked, 1, Cardinality(again))
    BY DEF Unsent
  <1> HIDE DEF again
  <1> QED BY <1>3, <1>4, ElementsSubSeq

-----------------------------------------------------------------------------
(* The types.                                                              *)

LEMMA SendType ==
    ASSUME TypeOK, NEW p \in Packet, Send(p)
    PROVE  /\ out' \in Seq(Packet) /\ (out' # <<>> => Socket)
           /\ Elements(out') \subseteq Elements(out) \cup {p}
  <1>1. CASE Socket
    <2>1. out' = Append(out, p)
      BY <1>1, Zenon DEF Send
    <2> QED BY <1>1, <2>1, ElementsAppend DEF TypeOK, Packet
  <1>2. CASE ~Socket
    BY <1>2, Zenon DEF Send, TypeOK, Packet
  <1> QED BY <1>1, <1>2

LEMMA KeepType ==
    ASSUME TypeOK, NEW m \in Message, Keep(m)
    PROVE  /\ unacked' \in Seq(Message)
           /\ Elements(unacked') = Elements(unacked) \cup ({m} \ hot)
  <1>1. CASE m \in hot
    <2>1. unacked' = unacked
      BY <1>1, Zenon DEF Keep
    <2> QED BY <1>1, <2>1 DEF TypeOK
  <1>2. CASE m \notin hot
    <2>1. unacked' = Append(unacked, m)
      BY <1>2, Zenon DEF Keep
    <2> QED BY <1>2, <2>1, ElementsAppend DEF TypeOK
  <1> QED BY <1>1, <1>2

LEMMA CallerTypes ==
    ASSUME TypeOK,
           \/ Connect \/ ConnectAgain \/ ConnectFails \/ ConnectReturns
           \/ Close \/ CloseDisconnects \/ CloseReturns \/ CloseAnnounces
    PROVE  TypeOK'
  <1>1. CASE Connect \/ ConnectAgain \/ ConnectFails \/ ConnectReturns
    <2>1. CASE Connect
      BY <2>1 DEF Connect, TypeOK, Socket, config, netVars, brokerVars
    <2>2. CASE ConnectAgain
      BY <2>2 DEF ConnectAgain, TypeOK, Socket, config, netVars, brokerVars
    <2>3. CASE ConnectFails
      BY <2>3 DEF ConnectFails, TypeOK, Socket, config, netVars, brokerVars
    <2>4. CASE ConnectReturns
      BY <2>4 DEF ConnectReturns, TypeOK, Socket, config, netVars, brokerVars
    <2> QED BY <1>1, <2>1, <2>2, <2>3, <2>4
  <1>2. CASE Close \/ CloseReturns
    <2>1. CASE Close
      BY <2>1 DEF Close, TypeOK, Socket, config, netVars, brokerVars
    <2>2. CASE CloseReturns
      BY <2>2 DEF CloseReturns, TypeOK, Socket, config, netVars, brokerVars
    <2> QED BY <1>2, <2>1, <2>2
  <1>3. CASE CloseAnnounces
    <2>1. out' \in Seq(Packet) /\ (out' # <<>> => Socket)
      BY <1>3, SendType DEF CloseAnnounces, Packet
    <2> QED BY <1>3, <2>1 DEF CloseAnnounces, TypeOK, Socket, Packet, config, brokerVars
  <1>4. CASE CloseDisconnects
    <2>1. out' \in Seq(Packet) /\ (out' # <<>> => Socket)
      BY <1>4, SendType DEF CloseDisconnects, Packet
    <2> QED BY <1>4, <2>1 DEF CloseDisconnects, TypeOK, Socket, Packet, config, brokerVars
  <1> QED BY <1>1, <1>2, <1>3, <1>4

LEMMA PublishTypes ==
    ASSUME TypeOK, NEW m \in Message,
           Publish(m) \/ PublishAndWait(m) \/ PublishRefused(m)
    PROVE  TypeOK'
  <1>1. CASE PublishRefused(m)
    BY <1>1 DEF PublishRefused, TypeOK, Socket, config, netVars, brokerVars
  <1>2. CASE Publish(m) \/ PublishAndWait(m)
    <2>1. out' \in Seq(Packet) /\ (out' # <<>> => Socket)
      BY <1>2, SendType DEF Publish, PublishAndWait, Packet
    <2>2. unacked' \in Seq(Message)
      BY <1>2, KeepType DEF Publish, PublishAndWait
    <2>3. CASE Publish(m)
      BY <2>1, <2>2, <2>3 DEF Publish, TypeOK, Socket, Packet, config, brokerVars
    <2>4. CASE PublishAndWait(m)
      BY <2>1, <2>2, <2>4 DEF PublishAndWait, TypeOK, Socket, Packet, config, brokerVars
    <2> QED BY <1>2, <2>3, <2>4
  <1> QED BY <1>1, <1>2

LEMMA ConfirmTypes ==
    ASSUME TypeOK, Confirm
    PROVE  TypeOK'
  BY DEF Confirm, Published, TypeOK, Socket, config, netVars, brokerVars

LEMMA NetTypes ==
    ASSUME TypeOK, NetMoves \/ Refused \/ Drop \/ WillFires
    PROVE  TypeOK'
  <1>1. CASE Dial \/ Refused \/ Connack \/ OnConnect
    BY <1>1 DEF Dial, Refused, Connack, OnConnect, TypeOK, Socket, config,
                callVars, netVars, brokerVars
  <1>2. CASE Announce
    <2>1. Unsent \in Seq(Message)
      BY UnsentIsUnacked DEF TypeOK
    <2>2. out' \in Seq(Packet)
      BY <1>2, <2>1 DEF Announce, TypeOK, Packet
    <2> QED BY <1>2, <2>2 DEF Announce, TypeOK, Socket, Packet, callVars, brokerVars
  <1>3. CASE Arrives
    <2>1. Tail(out) \in Seq(Packet) /\ (out' # <<>> => Socket)
      BY <1>3 DEF Arrives, Writing, Socket, TypeOK, Packet
    <2> QED BY <1>3, <2>1 DEF Arrives, TypeOK, Socket, Packet, callVars
  <1>4. CASE Puback
    <2>1. PICK i \in 1..Len(unacked) : unacked' = Without(unacked, i)
      BY <1>4 DEF Puback, Without
    <2>2. unacked' \in Seq(Message)
      BY <2>1, ElementsWithout DEF TypeOK
    <2> QED BY <1>4, <2>2 DEF Puback, TypeOK, Socket, callVars, brokerVars
  <1>5. CASE SaysBye \/ Drop \/ OnDisconnect \/ LoopEnds \/ WillFires
    <2>1. CASE SaysBye
      BY <2>1 DEF SaysBye, TypeOK, Socket,
               Writing, config, callVars, netVars, brokerVars
    <2>2. CASE Drop
      BY <2>2 DEF Drop, TypeOK, Socket,
               Writing, config, callVars, netVars, brokerVars
    <2>3. CASE OnDisconnect
      BY <2>3 DEF OnDisconnect, TypeOK, Socket,
               Writing, config, callVars, netVars, brokerVars
    <2>4. CASE LoopEnds
      BY <2>4 DEF LoopEnds, TypeOK, Socket,
               Writing, config, callVars, netVars, brokerVars
    <2>5. CASE WillFires
      BY <2>5 DEF WillFires, TypeOK, Socket,
               Writing, config, callVars, netVars, brokerVars
    <2> QED BY <1>5, <2>1, <2>2, <2>3, <2>4, <2>5
  <1> QED BY <1>1, <1>2, <1>3, <1>4, <1>5 DEF NetMoves

-----------------------------------------------------------------------------
(* What was answered is true.                                              *)

(* A step that answers no publish and takes none up keeps Delivery if no   *)
(* message appears from nowhere and none that is waited for is lost.       *)
LEMMA DeliveryStep ==
    ASSUME Core, UNCHANGED <<hot, result, waiting>>,
           waiting # {} => caller' = caller,
           caller' = "started" => loopStarted',
           Elements(out') \cap Message \subseteq Elements(out) \cup Elements(unacked),
           Elements(unacked') \subseteq Elements(unacked),
           \A m \in waiting \cap Elements(unacked) : m \in Elements(unacked') \cup taken',
           taken \subseteq taken',
           taken' \subseteq taken \cup Elements(out)
    PROVE  Delivery'
  <1>1. \A m \in Message : Untouched(m) => Untouched(m)'
    BY DEF Untouched
  <1>2. hot \subseteq Message /\ waiting \subseteq Message
    BY DEF Core, TypeOK
  <1> QED BY <1>1, <1>2 DEF Core, Delivery

LEMMA CallerDelivers ==
    ASSUME Core,
           \/ Connect \/ ConnectAgain \/ ConnectFails \/ ConnectReturns
           \/ Close \/ CloseDisconnects \/ CloseReturns \/ CloseAnnounces
    PROVE  Delivery'
  <1>1. waiting = {}
    BY DEF Core, Delivery, Connect, ConnectAgain, ConnectFails, ConnectReturns,
           Close, CloseDisconnects, CloseReturns, CloseAnnounces
  <1>2. UNCHANGED <<hot, result, waiting, unacked, taken>>
    BY DEF Connect, ConnectAgain, ConnectFails, ConnectReturns, Close,
           CloseDisconnects, CloseReturns, CloseAnnounces, config, netVars, brokerVars
  <1>3. caller' = "started" => loopStarted'
    <2>1. CASE Connect \/ ConnectAgain
      BY <2>1 DEF Connect, ConnectAgain
    <2>2. CASE ConnectFails
      BY <2>2 DEF ConnectFails
    <2>3. CASE ConnectReturns \/ Close \/ CloseDisconnects \/ CloseReturns \/ CloseAnnounces
      BY <2>3 DEF ConnectReturns, Close, CloseDisconnects, CloseReturns, CloseAnnounces
    <2> QED BY <2>1, <2>2, <2>3
  <1>4. Elements(out') \cap Message \subseteq Elements(out)
    <2>1. CASE CloseAnnounces
      BY <2>1, SendType DEF CloseAnnounces, Core, Packet
    <2>2. CASE CloseDisconnects
      BY <2>2, SendType DEF CloseDisconnects, Core, Packet
    <2>3. CASE Connect \/ ConnectAgain \/ ConnectFails \/ ConnectReturns \/ Close
                   \/ CloseReturns
      <3>1. out' = out
        BY <2>3 DEF Connect, ConnectAgain, ConnectFails, ConnectReturns, Close,
                    CloseReturns, netVars
      <3> QED BY <3>1
    <2> QED BY <2>1, <2>2, <2>3
  <1> QED BY <1>1, <1>2, <1>3, <1>4, DeliveryStep

(* A message is given to paho by its own publish only.                     *)
LEMMA PublishDelivers ==
    ASSUME Core, NEW m \in Message,
           Publish(m) \/ PublishAndWait(m) \/ PublishRefused(m)
    PROVE  Delivery'
  <1>1. /\ caller = "ready" /\ waiting = {} /\ result[m] = "none" /\ Untouched(m)
        /\ UNCHANGED <<hot, taken, loopStarted>>
    BY DEF Publish, PublishAndWait, PublishRefused, Core, Delivery, config, brokerVars
  <1>2. hot \subseteq Message /\ result \in [Message -> {"none", "ok", "no_conn",
            "refused", "confirmed", "unconfirmed", "killed"}]
    BY DEF Core, TypeOK
  <1>3. CASE PublishRefused(m)
    <2>1. UNCHANGED <<out, unacked, waiting, caller>>
      BY <1>3 DEF PublishRefused, netVars
    <2>2. result' = [result EXCEPT ![m] = "refused"]
      BY <1>3 DEF PublishRefused
    <2>3. \A n \in Message : Untouched(n)' <=> Untouched(n)
      BY <1>1, <2>1 DEF Untouched
    <2> QED BY <1>1, <1>2, <2>1, <2>2, <2>3 DEF Core, Delivery
  <1>4. ASSUME Send(m), Keep(m), NEW n \in Message, n # m, Untouched(n)
        PROVE  Untouched(n)'
    <2>1. Elements(out') \subseteq Elements(out) \cup {m}
      BY <1>4, SendType DEF Core, Packet
    <2>2. Elements(unacked') \subseteq Elements(unacked) \cup {m}
      BY <1>4, KeepType DEF Core
    <2> QED BY <1>1, <1>4, <2>1, <2>2 DEF Untouched
  <1>5. ASSUME Send(m), Keep(m), m \in hot, ~Socket
        PROVE  Untouched(m)'
    <2>1. out' = out /\ unacked' = unacked
      BY <1>5, Zenon DEF Send, Keep
    <2> QED BY <1>1, <2>1 DEF Untouched
  <1>6. CASE Publish(m)
    <2>1. result' = [result EXCEPT ![m] = IF Socket THEN "ok" ELSE "no_conn"]
      BY <1>6 DEF Publish
    <2>2. Send(m) /\ Keep(m) /\ UNCHANGED <<waiting, caller>>
      BY <1>6 DEF Publish
    <2>3. \A n \in Message : n # m => result'[n] = result[n]
      BY <1>2, <2>1
    <2>4. result'[m] = IF Socket THEN "ok" ELSE "no_conn"
      BY <1>2, <2>1
    <2>5. \A n \in Message : result'[n] = "none" => Untouched(n)'
      BY <1>1, <1>4, <2>2, <2>3, <2>4 DEF Core, Delivery
    <2>6. \A n \in hot : result'[n] = "no_conn" => Untouched(n)'
      BY <1>1, <1>2, <1>4, <1>5, <2>2, <2>3, <2>4 DEF Core, Delivery
    <2>7. \A n \in Message : result'[n] = "confirmed" /\ n \notin hot => n \in taken
      BY <2>3, <2>4 DEF Core, Delivery
    <2> QED BY <1>1, <2>2, <2>5, <2>6, <2>7 DEF Delivery
  <1>7. CASE PublishAndWait(m) /\ Socket
    <2>1. waiting' = {m} /\ caller' = "confirm" /\ result' = result
      BY <1>7 DEF PublishAndWait
    <2>2. Send(m) /\ Keep(m)
      BY <1>7 DEF PublishAndWait
    <2>3. m \notin hot => m \in Elements(unacked')
      BY <2>2, KeepType DEF Core
    <2>4. \A n \in Message : result[n] = "none" /\ n # m => Untouched(n)'
      BY <1>1, <1>4, <2>2 DEF Core, Delivery
    <2>5. \A n \in hot : result[n] = "no_conn" => Untouched(n)'
      BY <1>1, <1>2, <1>4, <2>2 DEF Core, Delivery
    <2> QED BY <1>1, <2>1, <2>3, <2>4, <2>5 DEF Core, Delivery
  <1>8. CASE PublishAndWait(m) /\ ~Socket
    <2>1. result' = [result EXCEPT ![m] = "no_conn"] /\ UNCHANGED <<waiting, caller>>
      BY <1>8 DEF PublishAndWait
    <2>2. Send(m) /\ Keep(m)
      BY <1>8 DEF PublishAndWait
    <2>3. \A n \in Message : n # m => result'[n] = result[n]
      BY <1>2, <2>1
    <2>4. result'[m] = "no_conn"
      BY <1>2, <2>1
    <2>5. \A n \in Message : result'[n] = "none" => Untouched(n)'
      BY <1>1, <1>4, <2>2, <2>3, <2>4 DEF Core, Delivery
    <2>6. \A n \in hot : result'[n] = "no_conn" => Untouched(n)'
      BY <1>1, <1>2, <1>4, <1>5, <1>8, <2>2, <2>3, <2>4 DEF Core, Delivery
    <2>7. \A n \in Message : result'[n] = "confirmed" /\ n \notin hot => n \in taken
      BY <2>3, <2>4 DEF Core, Delivery
    <2> QED BY <1>1, <2>1, <2>5, <2>6, <2>7 DEF Delivery
  <1> QED BY <1>3, <1>6, <1>7, <1>8

(* A QoS 1 message that is waited for and has its PUBACK has been taken.   *)
LEMMA ConfirmDelivers ==
    ASSUME Core, Confirm
    PROVE  Delivery'
  <1>1. /\ waiting' = {} /\ caller' = "ready"
        /\ UNCHANGED <<hot, out, unacked, taken>>
    BY DEF Confirm, config, netVars, brokerVars
  <1>m. PICK m \in waiting :
            \E p \in Published(m) :
                result' = [result EXCEPT ![m] = IF p THEN "confirmed" ELSE "unconfirmed"]
    BY DEF Confirm
  <1>2. PICK published \in Published(m) :
            result' = [result EXCEPT ![m] = IF published THEN "confirmed" ELSE "unconfirmed"]
    BY <1>m
  <1>3. m \in Message /\ hot \subseteq Message
        /\ result \in [Message -> {"none", "ok", "no_conn", "refused", "confirmed",
                                  "unconfirmed", "killed"}]
    BY DEF Core, TypeOK
  <1>4. \A n \in Message : n # m => result'[n] = result[n]
    BY <1>2, <1>3
  <1>5. result'[m] \in {"confirmed", "unconfirmed"}
    BY <1>2, <1>3
  <1>6. result'[m] = "confirmed" /\ m \notin hot => m \in taken
    <2>1. SUFFICES ASSUME m \notin hot, result'[m] = "confirmed" PROVE m \in taken
      OBVIOUS
    <2>2. published
      BY <1>2, <1>3, <2>1
    <2>3. published = (m \notin Elements(unacked))
      BY <1>2, <2>1 DEF Published
    <2> QED BY <2>1, <2>2, <2>3 DEF Core, Delivery
  <1>7. \A n \in Message : Untouched(n)' <=> Untouched(n)
    BY <1>1 DEF Untouched
  <1>8. waiting = {m} /\ m \in waiting
    BY DEF Core, Delivery
  <1> QED BY <1>1, <1>3, <1>4, <1>5, <1>6, <1>7, <1>8 DEF Core, Delivery

(* The network sends what paho keeps, and drops only what has been taken.  *)
LEMMA NetDelivers ==
    ASSUME Core, NetMoves \/ Refused \/ Drop \/ WillFires
    PROVE  Delivery'
  <1>1. UNCHANGED <<hot, result, waiting, caller, loopStarted>>
    BY DEF NetMoves, Dial, Connack, OnConnect, Announce, Arrives, Puback, SaysBye,
           OnDisconnect, LoopEnds, Refused, Drop, WillFires, config, callVars
  <1>2. caller' = "started" => loopStarted'
    BY <1>1 DEF Core, Delivery
  <1>3. CASE Dial \/ Refused \/ Connack \/ OnConnect \/ SaysBye \/ Drop \/ OnDisconnect
                 \/ LoopEnds \/ WillFires
    <2>1. UNCHANGED <<unacked, taken>> /\ (out' = out \/ out' = <<>>)
      BY <1>3 DEF Dial, Connack, OnConnect, SaysBye, OnDisconnect, LoopEnds, Refused,
                  Drop, WillFires, netVars, brokerVars
    <2>2. Elements(out') \subseteq Elements(out)
      BY <2>1, ElementsEmpty
    <2> QED BY <1>1, <1>2, <2>1, <2>2, DeliveryStep
  <1>4. CASE Announce
    <2>1. Unsent \in Seq(Message) /\ Elements(Unsent) \subseteq Elements(unacked)
      BY UnsentIsUnacked DEF Core, TypeOK
    <2>2. out \in Seq(Packet)
      BY DEF Core, TypeOK, Packet
    <2>3. UNCHANGED <<unacked, taken>>
      BY <1>4 DEF Announce, brokerVars
    <2>4. PICK before \in {out, Append(out, "online")} : out' = before \o Unsent
      BY <1>4 DEF Announce
    <2>5. before \in Seq(Packet) /\ Elements(before) \subseteq Elements(out) \cup {"online"}
      <3>1. "online" \in Packet
        BY DEF Packet
      <3>2. CASE before = out
        BY <2>2, <3>2
      <3>3. CASE before = Append(out, "online")
        BY <2>2, <3>1, <3>3, ElementsAppend
      <3> QED BY <3>2, <3>3
    <2>6. Unsent \in Seq(Packet)
      BY <2>1 DEF Packet
    <2>7. Elements(out') = Elements(before) \cup Elements(Unsent)
      BY <2>4, <2>5, <2>6, ElementsConcat
    <2>8. "online" \notin Message
      OBVIOUS
    <2> QED BY <1>1, <1>2, <2>1, <2>3, <2>5, <2>7, <2>8, DeliveryStep
  <1>5. CASE Arrives
    <2>1. Elements(Tail(out)) \subseteq Elements(out) /\ Head(out) \in Elements(out)
      BY <1>5, ElementsTail DEF Arrives, Core, TypeOK
    <2>2. out' = Tail(out) /\ unacked' = unacked
      BY <1>5 DEF Arrives
    <2>3. taken \subseteq taken' /\ taken' \subseteq taken \cup {Head(out)}
      BY <1>5 DEF Arrives
    <2> QED BY <1>1, <1>2, <2>1, <2>2, <2>3, DeliveryStep
  <1>6. CASE Puback
    <2>1. PICK i \in 1..Len(unacked) :
              unacked[i] \in taken /\ unacked' = Without(unacked, i)
      BY <1>6 DEF Puback, Without
    <2>2. /\ Elements(unacked') \subseteq Elements(unacked)
          /\ Elements(unacked) \subseteq Elements(unacked') \cup {unacked[i]}
      BY <2>1, ElementsWithout DEF Core, TypeOK
    <2>3. UNCHANGED <<out, taken>>
      BY <1>6 DEF Puback, brokerVars
    <2> QED BY <1>1, <1>2, <2>1, <2>2, <2>3, DeliveryStep
  <1> QED BY <1>3, <1>4, <1>5, <1>6 DEF NetMoves

LEMMA CoreStutters == Core /\ UNCHANGED vars => Core'
  BY DEF Core, TypeOK, Delivery, Untouched, Socket, vars

LEMMA CoreNext ==
    ASSUME Core, [Next]_vars
    PROVE  Core'
  <1>1. ASSUME NEW m \in Message, Publish(m) \/ PublishAndWait(m) \/ PublishRefused(m)
        PROVE  Core'
    BY <1>1, PublishTypes, PublishDelivers DEF Core
  <1>2. CASE Connect \/ ConnectAgain \/ ConnectFails \/ Close \/ CallerMoves
    BY <1>2, CallerTypes, CallerDelivers, ConfirmTypes, ConfirmDelivers
       DEF CallerMoves, Core
  <1>3. CASE NetMoves \/ Refused \/ Drop \/ WillFires
    BY <1>3, NetTypes, NetDelivers DEF Core
  <1> QED BY <1>1, <1>2, <1>3, CoreStutters DEF Next

-----------------------------------------------------------------------------
(* `events emit`.                                                          *)

Told == {"not run", "0", "1", "2", "killed"}

(* A run has one event, which no run has been told of before, and only its *)
(* event is published; an exit code 1 leaves its event unpublished.        *)
EmitInv ==
    /\ program \in {"library", "emit"} /\ event \subseteq Message
    /\ told \in [Message -> Told]
    /\ program = "emit" => /\ hot = {} /\ waiting \subseteq event
                           /\ state = "closed" => net = "none"
    /\ program = "library" => step = "idle" /\ \A m \in Message : told[m] = "not run"
    /\ step = "idle" => event = {}
    /\ \A m \in event : told[m] = "not run"
    /\ \A m \in Message :
           /\ told[m] = "0" => result[m] = "confirmed"
           /\ told[m] = "1" => result[m] = "none"
           /\ program = "emit" /\ told[m] = "not run" /\ m \notin event
                  => result[m] = "none"

AllInv == Core /\ EmitInv

LEMMA AllInit == EmitInit => AllInv
  <1> SUFFICES ASSUME EmitInit PROVE AllInv
    OBVIOUS
  <1>1. TypeOK
    <2>1. announces \in BOOLEAN /\ loopStarted \in BOOLEAN /\ hot \subseteq Message
      BY DEF EmitInit, Init
    <2>2. result \in [Message -> {"none", "ok", "no_conn", "refused", "confirmed",
                                 "unconfirmed", "killed"}]
      BY DEF EmitInit, Init
    <2>3. /\ out \in Seq(Message \cup {"online", "offline", "bye"}) /\ out = <<>>
          /\ unacked \in Seq(Message)
      <3>1. out = <<>> /\ unacked = <<>>
        BY DEF EmitInit, Init
      <3> QED BY <3>1
    <2> QED BY <2>1, <2>2, <2>3 DEF EmitInit, Init, TypeOK
  <1>2. Delivery
    BY ElementsEmpty DEF EmitInit, Init, Delivery, Untouched
  <1>3. EmitInv
    BY DEF EmitInit, Init, EmitInv, Told
  <1> QED BY <1>1, <1>2, <1>3 DEF AllInv, Core

(* Steps of the client in a run: no message but the run's is answered.     *)
LEMMA ClientSteps ==
    ASSUME AllInv, program = "emit", UNCHANGED emitVars,
           CallerMoves \/ NetMoves \/ Refused \/ Drop \/ WillFires
    PROVE  AllInv'
  <1>1. Core'
    BY CoreNext DEF AllInv, Next
  <1>2. CASE Confirm
    <2>1. \A m \in Message \ waiting : result'[m] = result[m]
      BY <1>2 DEF Confirm, AllInv, Core, TypeOK
    <2>2. \A m \in waiting : told[m] = "not run" /\ m \in event
      BY DEF AllInv, EmitInv
    <2>3. waiting' = {} /\ UNCHANGED <<hot, state, net>>
      BY <1>2 DEF Confirm, config, netVars
    <2> QED BY <1>1, <2>1, <2>2, <2>3 DEF AllInv, EmitInv, emitVars
  <1>3. CASE ~Confirm
    <2>1. UNCHANGED <<result, waiting, hot>>
      BY <1>3 DEF CallerMoves, NetMoves, Dial, Connack, OnConnect, Announce, Arrives,
             Puback, SaysBye, OnDisconnect, LoopEnds, Refused, Drop, WillFires,
             ConnectReturns, CloseAnnounces, CloseDisconnects, CloseReturns,
             config, callVars
    <2>2. (state = "closed" => net = "none") => (state' = "closed" => net' = "none")
      <3>1. CASE CallerMoves
        BY <1>3, <3>1 DEF CallerMoves, ConnectReturns, CloseAnnounces,
                          CloseDisconnects, CloseReturns, netVars
      <3>2. CASE NetMoves \/ Refused \/ Drop
        <4>1. net # "none"
          BY <3>2 DEF NetMoves, Dial, Connack, OnConnect, Announce, Arrives, Puback,
                 SaysBye, OnDisconnect, LoopEnds, Refused, Drop, Writing
        <4>2. state' = state \/ state' \in {"connected", "disconnected"}
          BY <3>2 DEF NetMoves, Dial, Connack, OnConnect, Announce, Arrives, Puback,
                 SaysBye, OnDisconnect, LoopEnds, Refused, Drop, callVars
        <4> QED BY <4>1, <4>2
      <3>3. CASE WillFires
        BY <3>3 DEF WillFires, callVars, netVars
      <3> QED BY <3>1, <3>2, <3>3
    <2> QED BY <1>1, <2>1, <2>2 DEF AllInv, EmitInv, emitVars
  <1> QED BY <1>2, <1>3

LEMMA RunSteps ==
    ASSUME AllInv, EmitMoves \/ \E m \in Message : Refuse(m)
    PROVE  AllInv'
  <1>1. CASE Await
    BY <1>1, CoreStutters DEF Await, AllInv, EmitInv, vars, config
  <1>2. CASE EmitPublishes
    <2>1. PICK m \in event : PublishAndWait(m) \/ PublishRefused(m)
      BY <1>2 DEF EmitPublishes
    <2>2. m \in Message /\ program = "emit" /\ step # "idle"
      BY <1>2 DEF EmitPublishes, AllInv, EmitInv
    <2>3. Core'
      BY <2>1, <2>2, CoreNext DEF AllInv, Next
    <2>4. \A n \in Message : n # m => result'[n] = result[n]
      BY <2>1, <2>2 DEF PublishAndWait, PublishRefused, AllInv, Core, TypeOK
    <2>5. waiting' \subseteq {m} \cup waiting
      BY <2>1 DEF PublishAndWait, PublishRefused
    <2>6. UNCHANGED <<program, event, told, hot, state, net>> /\ step' = "close"
      BY <1>2, <2>1 DEF EmitPublishes, PublishAndWait, PublishRefused, config, netVars
    <2>7. told[m] = "not run"
      BY DEF AllInv, EmitInv
    <2> QED BY <2>1, <2>2, <2>3, <2>4, <2>5, <2>6, <2>7 DEF AllInv, EmitInv
  <1>3. CASE EmitCloses
    <2>1. Core'
      BY <1>3, CoreNext DEF EmitCloses, AllInv, Next
    <2> QED BY <1>3, <2>1 DEF EmitCloses, Close, AllInv, EmitInv, config, netVars
  <1>4. CASE EmitExits
    <2>1. Core' /\ UNCHANGED <<program, result, hot, waiting, state, net>>
      BY <1>4, CoreStutters DEF EmitExits, AllInv, vars
    <2>2. waiting = {}
      BY <1>4 DEF EmitExits, AllInv, Core, Delivery
    <2>3. \A m \in Message : told'[m] = IF m \in event THEN ExitCode(m) ELSE told[m]
      BY <1>4 DEF EmitExits
    <2>4. told' \in [Message -> Told]
      BY <1>4 DEF EmitExits, ExitCode, AllInv, EmitInv, Told
    <2>5. step' = "idle" /\ event' = {} /\ program = "emit"
      BY <1>4 DEF EmitExits, AllInv, EmitInv
    <2>6. \A m \in event : /\ told'[m] \in {"0", "2"}
                           /\ told'[m] = "0" => result[m] = "confirmed"
      BY <2>3 DEF ExitCode, AllInv, EmitInv
    <2> QED BY <2>1, <2>2, <2>3, <2>4, <2>5, <2>6 DEF AllInv, EmitInv
  <1>5. ASSUME NEW m \in Message, Refuse(m) PROVE AllInv'
    <2>1. Core' /\ UNCHANGED <<program, step, event, result, hot, waiting, state, net>>
      BY <1>5, CoreStutters DEF Refuse, AllInv, vars
    <2>2. told' = [told EXCEPT ![m] = "1"] /\ program = "emit" /\ event = {}
      BY <1>5 DEF Refuse, NextTry, AllInv, EmitInv
    <2>3. told[m] = "not run" /\ result[m] = "none"
      BY <1>5, <2>2 DEF Refuse, NextTry, AllInv, EmitInv
    <2> QED BY <2>1, <2>2, <2>3 DEF AllInv, EmitInv, Told
  <1> QED BY <1>1, <1>2, <1>3, <1>4, <1>5 DEF EmitMoves

(* A new run has a new client; the old one's keeps no message of its own.  *)
LEMMA ConstructStep ==
    ASSUME AllInv, NEW m \in Message, Construct(m)
    PROVE  AllInv'
  <1>1. /\ waiting = {} /\ event = {} /\ program = "emit"
        /\ told[m] = "not run" /\ result[m] = "none"
    BY DEF Construct, NextTry, AllInv, EmitInv
  <1>2. /\ waiting' = {} /\ out' = <<>> /\ unacked' = <<>> /\ event' = {m}
        /\ step' = "await" /\ paho' = "connecting" /\ link' = "down"
        /\ UNCHANGED <<program, told, announces, hot, result, retained, taken,
                       drops, lives>>
    BY DEF Construct, config
  <1>3. \/ loopStarted' = TRUE /\ net' = "dial" /\ caller' = "started" /\ state' = "idle"
        \/ loopStarted' = FALSE /\ net' = "none" /\ caller' = "ready"
               /\ state' = "disconnected"
    BY DEF Construct
  <1>4. TypeOK'
    <2>1. announces' \in BOOLEAN /\ loopStarted' \in BOOLEAN
      BY <1>2, <1>3 DEF AllInv, Core, TypeOK
    <2>2. /\ out' \in Seq(Message \cup {"online", "offline", "bye"})
          /\ unacked' \in Seq(Message)
      BY <1>2
    <2>3. net' # "none" => loopStarted'
      BY <1>3
    <2> QED BY <1>2, <1>3, <2>1, <2>2, <2>3 DEF AllInv, Core, TypeOK
  <1>5. caller' = "started" => loopStarted'
    BY <1>3
  <1>6. Delivery'
    BY <1>1, <1>2, <1>5, ElementsEmpty, DeliveryStep DEF AllInv
  <1>7. EmitInv'
    BY <1>1, <1>2, <1>3 DEF AllInv, EmitInv
  <1> QED BY <1>4, <1>6, <1>7 DEF AllInv, Core

(* A run that is killed has written only what its client had.              *)
LEMMA KilledStep ==
    ASSUME AllInv, Killed
    PROVE  AllInv'
  <1>1. /\ program = "emit" /\ hot = {} /\ waiting \subseteq event
        /\ event \subseteq Message
    BY DEF Killed, AllInv, EmitInv
  <1>2. /\ waiting' = {} /\ out' = <<>> /\ caller' = "ready" /\ net' = "none"
        /\ event' = {} /\ step' = "idle" /\ state' = "idle" /\ link' = "down"
        /\ loopStarted' = FALSE
        /\ UNCHANGED <<program, announces, hot, paho, unacked, retained, drops, lives>>
    BY DEF Killed, config
  <1>3. \A m \in Message :
            /\ result'[m] = IF m \in event THEN "killed" ELSE result[m]
            /\ told'[m] = IF m \in event THEN "killed" ELSE told[m]
    BY DEF Killed
  <1>4. /\ result' \in [Message -> {"none", "ok", "no_conn", "refused", "confirmed",
                                   "unconfirmed", "killed"}]
        /\ told' \in [Message -> Told]
    BY DEF Killed, AllInv, Core, TypeOK, EmitInv, Told
  <1>5. taken \subseteq taken' /\ taken' \subseteq Message
        /\ taken' \subseteq taken \cup Elements(out)
    <2>1. PICK n \in 0..Len(out) :
              taken' = taken \cup (Message \cap Elements(SubSeq(out, 1, n)))
      BY DEF Killed
    <2>2. out \in Seq(Packet) /\ taken \subseteq Message
      BY DEF AllInv, Core, TypeOK, Packet
    <2>3. Elements(SubSeq(out, 1, n)) \subseteq Elements(out)
      BY <2>2, ElementsSubSeq
    <2> QED BY <2>1, <2>2, <2>3
  <1>6. TypeOK'
    <2>1. announces' \in BOOLEAN /\ loopStarted' \in BOOLEAN
      BY <1>2 DEF AllInv, Core, TypeOK
    <2>2. out' \in Seq(Message \cup {"online", "offline", "bye"})
      BY <1>2
    <2> QED BY <1>2, <1>4, <1>5, <2>1, <2>2 DEF AllInv, Core, TypeOK
  <1>7. \A m \in Message : Untouched(m) => Untouched(m)'
    BY <1>2, <1>5, ElementsEmpty DEF Untouched
  <1>8. Delivery'
    BY <1>1, <1>2, <1>3, <1>5, <1>7 DEF AllInv, Core, Delivery
  <1>9. EmitInv'
    BY <1>1, <1>2, <1>3, <1>4 DEF AllInv, EmitInv
  <1> QED BY <1>6, <1>8, <1>9 DEF AllInv, Core

LEMMA AllNext ==
    ASSUME AllInv, [EmitNext]_allVars
    PROVE  AllInv'
  <1>1. CASE program = "library" /\ Next /\ UNCHANGED emitVars
    <2>1. Core'
      BY <1>1, CoreNext DEF AllInv
    <2> QED BY <1>1, <2>1 DEF AllInv, EmitInv, emitVars
  <1>2. CASE UNCHANGED allVars
    <2>1. Core'
      BY <1>2, CoreStutters DEF AllInv, allVars
    <2> QED BY <1>2, <2>1 DEF AllInv, EmitInv, allVars, emitVars, vars
  <1> QED
    BY <1>1, <1>2, ClientSteps, RunSteps, ConstructStep, KilledStep
    DEF EmitNext, Rests

THEOREM AllInvariant == EmitSpec => []AllInv
  BY AllInit, AllNext, PTL DEF EmitSpec

(* The client's variables keep their types, a network thread runs only     *)
(* while _loop_started says so and packets wait only for an open socket    *)
(* (client.py 307-346), for any messages and bounds, in any program.       *)
THEOREM ClientTypeCorrect == EmitSpec => []TypeOK
  <1>1. AllInv => TypeOK
    BY DEF AllInv, Core
  <1> QED BY AllInvariant, <1>1, PTL

(* A QoS 1 publish confirmed within its wait has been taken by the broker, *)
(* and a QoS 0 one answered with no_conn never will be, however many       *)
(* connections break and processes die (client.py 380-428).                *)
THEOREM AnswersAreTrue == EmitSpec => []ConfirmedMeansTaken
  <1>1. AllInv => ConfirmedMeansTaken
    BY DEF AllInv, Core, Delivery, Untouched, ConfirmedMeansTaken
  <1> QED BY AllInvariant, <1>1, PTL

(* Exit code 0 only for an event the broker has taken, 1 only for one that *)
(* was never published (emit.py 184-290), over any number of runs.         *)
THEOREM ExitCodesAreTrue == EmitSpec => []ExitsAreTrue
  <1>1. AllInv => ExitsAreTrue
    BY DEF AllInv, Core, Delivery, EmitInv, Untouched, ExitsAreTrue
  <1> QED BY AllInvariant, <1>1, PTL

(* After close() no callback changes the state and no thread is left       *)
(* (client.py 325-346, 516-525), until connect() is called.                *)
THEOREM ClosedStaysClosed == EmitSpec => ClosedIsFinal
  <1> DEFINE Final == state = "closed" /\ state' # "closed" => loopStarted' \/ net = "none"
  <1>1. ASSUME AllInv, [EmitNext]_allVars PROVE [Final]_vars
    <2> SUFFICES ASSUME state = "closed", state' # "closed"
                 PROVE  loopStarted' \/ net = "none"
      BY DEF Final
    <2>1. net # "none" => loopStarted
      BY <1>1 DEF AllInv, Core, TypeOK
    <2>2. CASE loopStarted' = loopStarted
      BY <2>1, <2>2
    <2>3. CASE program = "emit"
      BY <1>1, <2>3 DEF AllInv, EmitInv
    <2>4. CASE program # "emit" /\ loopStarted' # loopStarted
      <3>1. Next
        BY <1>1, <2>4 DEF EmitNext, Refuse, Construct, NextTry, EmitMoves, Await,
               EmitPublishes, EmitCloses, EmitExits, Killed, Rests, AllInv, EmitInv,
               allVars, vars
      <3>2. Connect \/ CloseReturns
        BY <2>4, <3>1 DEF Next, CallerMoves, NetMoves, ConnectAgain, ConnectFails,
               ConnectReturns, Close, CloseAnnounces, CloseDisconnects, Confirm,
               Publish, PublishAndWait, PublishRefused, Dial, Connack, OnConnect,
               Announce, Arrives, Puback, SaysBye, OnDisconnect, LoopEnds, Refused,
               Drop, WillFires, callVars
      <3> QED BY <3>2 DEF Connect, CloseReturns
    <2> QED BY <2>2, <2>3, <2>4
  <1> QED BY AllInvariant, <1>1, PTL DEF EmitSpec, ClosedIsFinal
=============================================================================
