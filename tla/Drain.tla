-------------------------------- MODULE Drain --------------------------------
(***************************************************************************)
(* `events watch`: cli/_commands/watch.py over subs/drain.py, the broker's *)
(* persistent session and the history store, for one subscription.         *)
(*                                                                         *)
(* Each watcher is a process run again and again by one caller, who passes *)
(* the cursor of one call to the next.  All of them connect with the same  *)
(* client id, so each connection takes the session over from the one       *)
(* before.  The broker is external: it is modelled by what drain.py,       *)
(* session.py and stack/templates/mosquitto.conf rely on.  The store is    *)
(* the history of HistoryStore, which JsonlBackend implements.             *)
(***************************************************************************)
EXTENDS Naturals, Sequences, FiniteSets

CONSTANTS
    Event,          \* the events (envelope ids) producers may publish
    Malformed,      \* a payload that Envelope.from_json rejects
    Unstorable,     \* events that it accepts and append() cannot encode
    Watcher,        \* the processes that watch the subscription
    Nobody,         \* no connection
    NoMessage,      \* a drain holds no message
    Max,            \* --max
    QueueLimit,     \* max_queued_messages
    MaxPublished,   \* bound on the messages published
    MaxFaults,      \* bound on failures and dropped connections together
    MaxLosses,      \* bound on the times the broker loses the session
    MaxReconnects   \* bound on paho's own reconnections

ASSUME MalformedAssumption == Malformed \notin Event
ASSUME UnstorableAssumption == Unstorable \subseteq Event
ASSUME NobodyAssumption == Nobody \notin Watcher
ASSUME MaxAssumption == Max \in Nat \ {0}

VARIABLES
    session,        \* the broker holds a session for the client id
    subscribed,     \* and that session has the subscription
    queue,          \* its unacknowledged messages [mid, body], oldest first
    lastMid,        \* the last packet identifier the session has used
    conn,           \* the watcher whose connection has the session
    sent,           \* the mids sent on that connection
    acks,           \* the mids of PUBACKs on their way on that connection
    history,        \* the store: the committed events, in sequence order
    pc,             \* the step each watcher is about to take
    inbox,          \* messages paho's thread has queued for the drain
    hand,           \* the message being consumed
    found,          \* the sequence the store gave for it
    budget,         \* how many more messages may be consumed
    batch,          \* the sequences collected for the caller
    cursor,         \* the cursor to return with them
    since,          \* the cursor the caller holds between calls
    seen,           \* the sequences the caller has been given
    accepted,       \* the events the session has queued, in order, once each
    published, faults, losses, reconnects

brokerVars == <<session, subscribed, queue, lastMid, conn, sent, acks>>
drainVars == <<pc, inbox, hand, found, budget, batch, cursor>>
callerVars == <<since, seen>>
boundVars == <<published, faults, losses, reconnects>>
vars == <<session, subscribed, queue, lastMid, conn, sent, acks, history,
          pc, inbox, hand, found, budget, batch, cursor, since, seen,
          accepted, published, faults, losses, reconnects>>

Body == Event \cup {Malformed}
Message == [mid : Nat, body : Body]

ASSUME NoMessageAssumption == NoMessage \notin Message

RangeOf(s) == {s[i] : i \in 1..Len(s)}
Queued(e) == \E i \in 1..Len(queue) : queue[i].body = e
Stored(e) == \E s \in 1..Len(history) : history[s] = e
SeqOf(e) == CHOOSE s \in 1..Len(history) : history[s] = e
Smaller(m, n) == IF m < n THEN m ELSE n
Larger(m, n) == IF m < n THEN n ELSE m

(* `events sub add` has run: the session exists and is subscribed.         *)
Init ==
    /\ session = TRUE /\ subscribed = TRUE
    /\ queue = <<>> /\ lastMid = 0
    /\ conn = Nobody /\ sent = {} /\ acks = {}
    /\ history = <<>>
    /\ pc = [w \in Watcher |-> "idle"]
    /\ inbox = [w \in Watcher |-> <<>>]
    /\ hand = [w \in Watcher |-> NoMessage]
    /\ found = [w \in Watcher |-> 0]
    /\ budget = [w \in Watcher |-> 0]
    /\ batch = [w \in Watcher |-> <<>>]
    /\ cursor = [w \in Watcher |-> 0]
    /\ since = [w \in Watcher |-> 0]
    /\ seen = [w \in Watcher |-> {}]
    /\ accepted = <<>>
    /\ published = 0 /\ faults = 0 /\ losses = 0 /\ reconnects = 0

-----------------------------------------------------------------------------
(* The broker.                                                             *)

(* A QoS 1 publish on a matching topic.  A full queue drops the newcomer.  *)
Publish(b) ==
    /\ published < MaxPublished
    /\ published' = published + 1
    /\ IF subscribed /\ Len(queue) < QueueLimit
       THEN /\ queue' = Append(queue, [mid |-> lastMid + 1, body |-> b])
            /\ lastMid' = lastMid + 1
            /\ accepted' = IF b = Malformed \/ b \in RangeOf(accepted)
                           THEN accepted ELSE Append(accepted, b)
       ELSE UNCHANGED <<queue, lastMid, accepted>>
    /\ UNCHANGED <<session, subscribed, conn, sent, acks, history,
                   drainVars, callerVars, faults, losses, reconnects>>

(* Mutant: manual acknowledgement is off, and paho acknowledges on delivery.*)
DeliverAutoAck ==
    /\ conn # Nobody
    /\ \E i \in 1..Len(queue) :
           /\ queue[i].mid \notin sent
           /\ \A j \in 1..(i - 1) : queue[j].mid \in sent
           /\ sent' = sent \cup {queue[i].mid}
           /\ acks' = acks \cup {queue[i].mid}
           /\ inbox' = IF pc[conn] = "close" THEN inbox
                       ELSE [inbox EXCEPT ![conn] = Append(@, queue[i])]
    /\ UNCHANGED <<session, subscribed, queue, lastMid, conn, history,
                   pc, hand, found, budget, batch, cursor,
                   callerVars, accepted, boundVars>>

(* The next message goes out on the connection, and on_message queues it   *)
(* unless the drain is stopping.                                           *)
Deliver ==
    /\ conn # Nobody
    /\ \E i \in 1..Len(queue) :
           /\ queue[i].mid \notin sent
           /\ \A j \in 1..(i - 1) : queue[j].mid \in sent
           /\ sent' = sent \cup {queue[i].mid}
           /\ inbox' = IF pc[conn] = "close" THEN inbox
                       ELSE [inbox EXCEPT ![conn] = Append(@, queue[i])]
    /\ UNCHANGED <<session, subscribed, queue, lastMid, conn, acks, history,
                   pc, hand, found, budget, batch, cursor,
                   callerVars, accepted, boundVars>>

(* A PUBACK arrives: the message with its mid, if it has been sent on this *)
(* connection, leaves the queue.                                           *)
ProcessAck ==
    /\ \E mid \in acks :
           /\ acks' = acks \ {mid}
           /\ \/ \E i \in 1..Len(queue) :
                    /\ queue[i].mid = mid /\ mid \in sent
                    /\ queue' = SubSeq(queue, 1, i - 1) \o SubSeq(queue, i + 1, Len(queue))
              \/ /\ mid \in sent => \A i \in 1..Len(queue) : queue[i].mid # mid
                 /\ UNCHANGED queue
    /\ UNCHANGED <<session, subscribed, lastMid, conn, sent, history,
                   drainVars, callerVars, accepted, boundVars>>

(* What ends with a connection.  Its unprocessed PUBACKs are lost.         *)
Disconnected == conn' = Nobody /\ sent' = {} /\ acks' = {}

DropConnection ==
    /\ conn # Nobody
    /\ faults < MaxFaults
    /\ faults' = faults + 1
    /\ Disconnected
    /\ UNCHANGED <<session, subscribed, queue, lastMid, history,
                   drainVars, callerVars, accepted, published, losses, reconnects>>

(* The broker comes back without the session (no volume, or a stop without *)
(* autosave).  What it had queued is gone, and what is stored is all that  *)
(* is owed for it.                                                         *)
LoseSession ==
    /\ losses < MaxLosses
    /\ losses' = losses + 1
    /\ session' = FALSE /\ subscribed' = FALSE
    /\ queue' = <<>> /\ lastMid' = 0
    /\ Disconnected
    /\ accepted' = history
    /\ UNCHANGED <<history, drainVars, callerVars, published, faults, reconnects>>

(* CONNECT with clean_start=False: resume the session or create an empty   *)
(* one, and take it over from whoever was connected.                       *)
Bind(w) ==
    /\ session' = TRUE
    /\ conn' = w /\ sent' = {} /\ acks' = {}
    /\ UNCHANGED <<subscribed, queue, lastMid>>

-----------------------------------------------------------------------------
(* One `events watch` call.                                                *)

Goto(w, label) == pc' = [pc EXCEPT ![w] = label]

(* Mutant: watch only drains, and leaves what is stored to `events list`.  *)
ReplayNothing(w) ==
    /\ pc[w] = "idle"
    /\ cursor' = [cursor EXCEPT ![w] = since[w]]
    /\ budget' = [budget EXCEPT ![w] = Max]
    /\ Goto(w, "open")
    /\ UNCHANGED <<brokerVars, history, inbox, hand, found, batch,
                   callerVars, accepted, boundVars>>

(* cmd_watch: replay the store from since; go to the broker for the rest.  *)
ReplayHistory(w) ==
    LET upto == Smaller(since[w] + Max, Len(history))
        page == [i \in 1..(upto - since[w]) |-> since[w] + i]
    IN  /\ pc[w] = "idle"
        /\ batch' = [batch EXCEPT ![w] = page]
        /\ cursor' = [cursor EXCEPT ![w] = upto]
        /\ budget' = [budget EXCEPT ![w] = Max - Len(page)]
        /\ Goto(w, IF Len(page) < Max THEN "open" ELSE "return")
        /\ UNCHANGED <<brokerVars, history, inbox, hand, found,
                       callerVars, accepted, boundVars>>

(* session.open(): only the CONNACK says whether the session was resumed.  *)
Open(w) ==
    /\ pc[w] = "open"
    /\ Bind(w)
    /\ Goto(w, IF session THEN "consume" ELSE "subscribe")
    /\ UNCHANGED <<history, inbox, hand, found, budget, batch, cursor,
                   callerVars, accepted, boundVars>>

Subscribe(w) ==
    /\ pc[w] = "subscribe"
    /\ conn = w
    /\ subscribed' = TRUE
    /\ Goto(w, "consume")
    /\ UNCHANGED <<session, queue, lastMid, conn, sent, acks, history,
                   inbox, hand, found, budget, batch, cursor,
                   callerVars, accepted, boundVars>>

(* Mutant: an unreadable payload is not told apart.                        *)
TakeUnparsed(w) ==
    /\ pc[w] = "consume"
    /\ budget[w] > 0
    /\ inbox[w] # <<>>
    /\ hand' = [hand EXCEPT ![w] = Head(inbox[w])]
    /\ inbox' = [inbox EXCEPT ![w] = Tail(@)]
    /\ budget' = [budget EXCEPT ![w] = @ - 1]
    /\ Goto(w, "persist")
    /\ UNCHANGED <<brokerVars, history, found, batch, cursor,
                   callerVars, accepted, boundVars>>

(* inbox.get() and _parse: what does not parse has nothing to persist.     *)
Take(w) ==
    /\ pc[w] = "consume"
    /\ budget[w] > 0
    /\ inbox[w] # <<>>
    /\ hand' = [hand EXCEPT ![w] = Head(inbox[w])]
    /\ inbox' = [inbox EXCEPT ![w] = Tail(@)]
    /\ budget' = [budget EXCEPT ![w] = @ - 1]
    /\ Goto(w, IF Head(inbox[w]).body = Malformed THEN "skip" ELSE "persist")
    /\ UNCHANGED <<brokerVars, history, found, batch, cursor,
                   callerVars, accepted, boundVars>>

(* Mutant: the store does not dedupe.                                      *)
PersistAgain(w) ==
    /\ pc[w] = "persist"
    /\ history' = Append(history, hand[w].body)
    /\ found' = [found EXCEPT ![w] = Len(history) + 1]
    /\ Goto(w, "read back")
    /\ UNCHANGED <<brokerVars, inbox, hand, budget, batch, cursor,
                   callerVars, accepted, boundVars>>

(* store.append(), committed and answered.                                 *)
Persist(w) ==
    LET e == hand[w].body
    IN  /\ pc[w] = "persist"
        /\ e \notin Unstorable
        /\ history' = IF Stored(e) THEN history ELSE Append(history, e)
        /\ found' = [found EXCEPT ![w] =
                        IF Stored(e) THEN SeqOf(e) ELSE Len(history) + 1]
        /\ Goto(w, "read back")
        /\ UNCHANGED <<brokerVars, inbox, hand, budget, batch, cursor,
                       callerVars, accepted, boundVars>>

(* An error append() does not declare leaves the drain, which closes the   *)
(* connection: the message stays where it is.                              *)
PersistRaises(w) ==
    /\ pc[w] = "persist"
    /\ hand[w].body \in Unstorable
    /\ IF conn = w THEN Disconnected ELSE UNCHANGED <<conn, sent, acks>>
    /\ inbox' = [inbox EXCEPT ![w] = <<>>]
    /\ hand' = [hand EXCEPT ![w] = NoMessage]
    /\ batch' = [batch EXCEPT ![w] = <<>>]
    /\ Goto(w, "idle")
    /\ UNCHANGED <<session, subscribed, queue, lastMid, history, found, budget,
                   cursor, callerVars, accepted, boundVars>>

ReadBack(w) ==
    /\ pc[w] = "read back"
    /\ found[w] <= Len(history)
    /\ Goto(w, "ack")
    /\ UNCHANGED <<brokerVars, history, inbox, hand, found, budget, batch,
                   cursor, callerVars, accepted, boundVars>>

(* client.ack(mid): a PUBACK on the connection, if there still is one.     *)
SendAck(w) ==
    /\ acks' = IF conn = w THEN acks \cup {hand[w].mid} ELSE acks
    /\ UNCHANGED <<session, subscribed, queue, lastMid, conn, sent>>

(* Mutant: an unreadable payload is left unacknowledged.                   *)
SkipSilently(w) ==
    /\ pc[w] = "skip"
    /\ hand' = [hand EXCEPT ![w] = NoMessage]
    /\ Goto(w, "consume")
    /\ UNCHANGED <<brokerVars, history, inbox, found, budget, batch, cursor,
                   callerVars, accepted, boundVars>>

Skip(w) ==
    /\ pc[w] = "skip"
    /\ SendAck(w)
    /\ hand' = [hand EXCEPT ![w] = NoMessage]
    /\ Goto(w, "consume")
    /\ UNCHANGED <<history, inbox, found, budget, batch, cursor,
                   callerVars, accepted, boundVars>>

(* Mutant: the cursor is the last sequence, not the highest.               *)
AckLastSeq(w) ==
    /\ pc[w] = "ack"
    /\ SendAck(w)
    /\ batch' = [batch EXCEPT ![w] = Append(@, found[w])]
    /\ cursor' = [cursor EXCEPT ![w] = found[w]]
    /\ hand' = [hand EXCEPT ![w] = NoMessage]
    /\ found' = [found EXCEPT ![w] = 0]
    /\ Goto(w, "consume")
    /\ UNCHANGED <<history, inbox, budget, callerVars, accepted, boundVars>>

Ack(w) ==
    /\ pc[w] = "ack"
    /\ SendAck(w)
    /\ batch' = [batch EXCEPT ![w] = Append(@, found[w])]
    /\ cursor' = [cursor EXCEPT ![w] = Larger(@, found[w])]
    /\ hand' = [hand EXCEPT ![w] = NoMessage]
    /\ found' = [found EXCEPT ![w] = 0]
    /\ Goto(w, "consume")
    /\ UNCHANGED <<history, inbox, budget, callerVars, accepted, boundVars>>

(* max messages consumed, or the deadline, which may fall at any moment.   *)
Stop(w) ==
    /\ pc[w] = "consume"
    /\ Goto(w, "close")
    /\ UNCHANGED <<brokerVars, history, inbox, hand, found, budget, batch,
                   cursor, callerVars, accepted, boundVars>>

(* session.close(): the DISCONNECT follows the PUBACKs already written.    *)
Close(w) ==
    /\ pc[w] = "close"
    /\ IF conn = w THEN acks = {} /\ Disconnected
                   ELSE UNCHANGED <<conn, sent, acks>>
    /\ inbox' = [inbox EXCEPT ![w] = <<>>]
    /\ Goto(w, "return")
    /\ UNCHANGED <<session, subscribed, queue, lastMid, history,
                   hand, found, budget, batch, cursor,
                   callerVars, accepted, boundVars>>

(* The caller gets the batch, and keeps the cursor for its next call.      *)
Return(w) ==
    /\ pc[w] = "return"
    /\ since' = [since EXCEPT ![w] = cursor[w]]
    /\ seen' = [seen EXCEPT ![w] = @ \cup RangeOf(batch[w])]
    /\ batch' = [batch EXCEPT ![w] = <<>>]
    /\ Goto(w, "idle")
    /\ UNCHANGED <<brokerVars, history, inbox, hand, found, budget, cursor,
                   accepted, boundVars>>

(* The process dies, or a DrainError or SessionError leaves the call: the  *)
(* connection ends and the caller gets no batch.  A SUBSCRIBE without a    *)
(* connection always is such an error.                                     *)
Fail(w) ==
    /\ pc[w] # "idle"
    /\ \/ pc[w] = "subscribe" /\ conn # w /\ UNCHANGED faults
       \/ faults < MaxFaults /\ faults' = faults + 1
    /\ IF conn = w THEN Disconnected ELSE UNCHANGED <<conn, sent, acks>>
    /\ inbox' = [inbox EXCEPT ![w] = <<>>]
    /\ hand' = [hand EXCEPT ![w] = NoMessage]
    /\ found' = [found EXCEPT ![w] = 0]
    /\ batch' = [batch EXCEPT ![w] = <<>>]
    /\ Goto(w, "idle")
    /\ UNCHANGED <<session, subscribed, queue, lastMid, history, budget,
                   cursor, callerVars, accepted, published, losses, reconnects>>

(* paho's loop connects again by itself, with the same parameters.         *)
Reconnect(w) ==
    /\ pc[w] \in {"subscribe", "consume", "skip", "persist", "read back", "ack"}
    /\ conn # w
    /\ reconnects < MaxReconnects
    /\ reconnects' = reconnects + 1
    /\ Bind(w)
    /\ UNCHANGED <<history, drainVars, callerVars, accepted,
                   published, faults, losses>>

-----------------------------------------------------------------------------
Consume(w) ==
    Persist(w) \/ PersistRaises(w) \/ ReadBack(w) \/ Skip(w) \/ Ack(w)

Broker ==
    \/ \E b \in Body : Publish(b)
    \/ Deliver \/ ProcessAck \/ DropConnection \/ LoseSession

Watch(w) ==
    \/ ReplayHistory(w) \/ Open(w) \/ Subscribe(w)
    \/ Take(w) \/ Consume(w)
    \/ Stop(w) \/ Close(w) \/ Return(w)
    \/ Fail(w) \/ Reconnect(w)

Next == Broker \/ \E w \in Watcher : Watch(w)

Spec == Init /\ [][Next]_vars

InTime == Deliver /\ pc[conn] = "consume"

(* The caller polls again after each call; a process goes on running; the  *)
(* network moves what is on it.  A deadline may cut any one drain short,   *)
(* but not every drain before the broker could deliver.                    *)
Fairness ==
    /\ WF_vars(ProcessAck)
    /\ SF_vars(InTime)
    /\ \A w \in Watcher :
           /\ WF_vars(ReplayHistory(w)) /\ WF_vars(Open(w))
           /\ WF_vars(Subscribe(w)) /\ WF_vars(Reconnect(w))
           /\ SF_vars(Take(w)) /\ WF_vars(Consume(w))
           /\ WF_vars(Stop(w)) /\ WF_vars(Close(w)) /\ WF_vars(Return(w))
           /\ WF_vars(pc[w] = "subscribe" /\ conn # w /\ Fail(w))

FairSpec == Spec /\ Fairness

-----------------------------------------------------------------------------
States == {"idle", "open", "subscribe", "consume", "skip", "persist",
           "read back", "ack", "close", "return"}

(* Types, and what each step of a call has in hand.                        *)
TypeOK ==
    /\ session \in BOOLEAN /\ subscribed \in BOOLEAN
    /\ queue \in Seq(Message) /\ lastMid \in Nat
    /\ conn \in Watcher \cup {Nobody}
    /\ sent \subseteq Nat /\ acks \subseteq Nat
    /\ history \in Seq(Event) /\ accepted \in Seq(Event)
    /\ pc \in [Watcher -> States]
    /\ inbox \in [Watcher -> Seq(Message)]
    /\ hand \in [Watcher -> Message \cup {NoMessage}]
    /\ \A w \in Watcher :
           /\ pc[w] = "skip" => hand[w] # NoMessage /\ hand[w].body = Malformed
           /\ pc[w] \in {"persist", "read back", "ack"} =>
                  hand[w] # NoMessage /\ hand[w].body \in Event
    /\ found \in [Watcher -> Nat] /\ budget \in [Watcher -> 0..Max]
    /\ batch \in [Watcher -> Seq(Nat)] /\ cursor \in [Watcher -> Nat]
    /\ since \in [Watcher -> Nat] /\ seen \in [Watcher -> SUBSET Nat]
    /\ published \in Nat /\ faults \in Nat
    /\ losses \in Nat /\ reconnects \in Nat

(* "This is also what makes an MQTT session takeover lossless" (drain.py   *)
(* 34-37): an event the session has queued is in the store, or still       *)
(* queued, whoever takes the session over, fails or loses its connection,  *)
(* and whichever PUBACKs arrive.                                           *)
NothingLost ==
    \A e \in RangeOf(accepted) : Stored(e) \/ Queued(e)

(* Takeovers and redeliveries do not disturb the order either: what is     *)
(* stored is, in order and once each, the first events the session queued. *)
StoredInOrder ==
    /\ Len(history) <= Len(accepted)
    /\ \A s \in 1..Len(history) : history[s] = accepted[s]

(* "Cursor resume is exact" (history/__init__.py 33-34): the caller of a   *)
(* watch has been given every event at or below the cursor it holds, so    *)
(* resuming from there skips none.                                         *)
CursorCovers ==
    \A w \in Watcher : 1..since[w] \subseteq seen[w]

(* "It never moves backwards ... a caller that stores the cursor           *)
(* unconditionally cannot rewind" (drain.py 160-164), redelivered old      *)
(* events included.                                                        *)
CursorNeverRewinds ==
    [][\A w \in Watcher : since[w] <= since'[w]]_vars

(* "Passing that cursor forward ... is what stops a drain from ever        *)
(* returning an event the caller already saw" (watch.py 27-30).            *)
NeverSeenTwice ==
    \A w \in Watcher :
        /\ RangeOf(batch[w]) \cap seen[w] = {}
        /\ \A i, j \in 1..Len(batch[w]) : batch[w][i] = batch[w][j] => i = j

(* "A lost session has lost its subscription too, and a drain that did not *)
(* notice would return empty forever" (drain.py 224-227): a drain that is  *)
(* connected and consuming is subscribed.                                  *)
DrainHears ==
    \A w \in Watcher : pc[w] = "consume" /\ conn = w => subscribed

(* Every event the session has queued and the store can take reaches the   *)
(* caller, unless the broker loses it with the session: no lost PUBACK,    *)
(* failed drain or unreadable payload in front of it holds it back for     *)
(* good ("Raising would let one malformed publish take down every drain",  *)
(* drain.py 396-402).                                                      *)
Given(e) == \E w \in Watcher : \E s \in seen[w] : history[s] = e

EverythingReachesTheCaller ==
    \A e \in Event \ Unstorable :
        e \in RangeOf(accepted) ~> Given(e) \/ e \notin RangeOf(accepted)
=============================================================================
