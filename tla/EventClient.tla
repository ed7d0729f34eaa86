----------------------------- MODULE EventClient -----------------------------
(***************************************************************************)
(* client.py: one EventClient, with or without an availability topic, its  *)
(* caller's thread and paho's network thread, which runs the callbacks.    *)
(* They share _state, and paho's socket and connection flag, without a     *)
(* lock of the client's own.                                               *)
(*                                                                         *)
(* paho and the broker are external: the packets given to an open socket   *)
(* reach the broker in order or not at all; the broker publishes the last  *)
(* will when a connection ends without a DISCONNECT, as soon as it notices *)
(* or the same client id connects again; a QoS 1 message is sent again on  *)
(* each connection until its PUBACK, a QoS 0 message is sent once and      *)
(* counts as published when it is written to the socket.                   *)
(***************************************************************************)
EXTENDS Naturals, Sequences, FiniteSets

CONSTANTS
    Message,        \* what publish() may be called with, once each
    Hot,            \* those that may be published with QoS 0
    MaxDrops,       \* bound on connections lost
    MaxLives        \* bound on the times connect() starts the loop

ASSUME NoPacketAssumption == {"online", "offline", "bye"} \cap Message = {}
ASSUME HotAssumption == Hot \subseteq Message

VARIABLES
    announces,      \* an availability topic is configured
    hot,            \* the messages the caller publishes with QoS 0
    state,          \* EventClient._state
    loopStarted,    \* EventClient._loop_started
    caller,         \* what the caller's thread is about to do
    waiting,        \* the messages whose publish() is waiting, at most one
    result,         \* what publish() returned for each message
    net,            \* what the network thread is about to do
    paho,           \* paho's view of the connection, is_connected() included
    out,            \* packets on the open socket, oldest first
    unacked,        \* QoS 1 messages without a PUBACK, in order
    link,           \* the connection as the broker sees it
    retained,       \* the retained message of the availability topic
    taken,          \* the messages the broker has taken
    drops, lives

config == <<announces, hot>>
callVars == <<announces, hot, state, loopStarted, caller, waiting, result>>
netVars == <<net, paho, out, unacked>>
brokerVars == <<link, retained, taken>>
vars == <<announces, hot, state, loopStarted, caller, waiting, result,
          net, paho, out, unacked, link, retained, taken, drops, lives>>

Init ==
    /\ announces \in BOOLEAN /\ hot \in SUBSET Hot
    /\ state = "idle" /\ loopStarted = FALSE
    /\ caller = "ready" /\ waiting = {}
    /\ result = [m \in Message |-> "none"]
    /\ net = "none" /\ paho = "new" /\ out = <<>> /\ unacked = <<>>
    /\ link = "down" /\ retained = "none" /\ taken = {}
    /\ drops = 0 /\ lives = 0

-----------------------------------------------------------------------------
Socket == net \in {"connack", "on_connect", "announce", "loop"}
IsConnected == paho = "connected"

(* While a callback runs nothing is written.                               *)
Writing == net \in {"connack", "loop"}

(* A packet for the socket; without one a QoS 0 publish is dropped.        *)
Send(packet) == out' = IF Socket THEN Append(out, packet) ELSE out

Elements(s) == {s[i] : i \in 1..Len(s)}

-----------------------------------------------------------------------------
(* The caller's thread.                                                    *)

(* Mutant: _loop_started is not set.                                       *)
ConnectForgets ==
    /\ caller = "ready"
    /\ ~loopStarted
    /\ lives < MaxLives
    /\ lives' = lives + 1
    /\ paho' = "connecting"
    /\ net' = "dial"
    /\ caller' = "started"
    /\ UNCHANGED <<config, state, loopStarted, waiting, result, out, unacked,
                   brokerVars, drops>>

(* connect(): the loop's thread is running before _state is assigned.      *)
Connect ==
    /\ caller = "ready"
    /\ ~loopStarted
    /\ lives < MaxLives
    /\ lives' = lives + 1
    /\ paho' = "connecting"
    /\ net' = "dial"
    /\ loopStarted' = TRUE
    /\ caller' = "started"
    /\ UNCHANGED <<config, state, waiting, result, out, unacked, brokerVars, drops>>

(* connect() while the loop runs: connect_async() only resets paho's view. *)
ConnectAgain ==
    /\ caller = "ready"
    /\ loopStarted
    /\ paho' = "connecting"
    /\ caller' = "started"
    /\ UNCHANGED <<config, state, loopStarted, waiting, result, net, out, unacked,
                   brokerVars, drops, lives>>

ConnectReturns ==
    /\ caller = "started"
    /\ state' = "connecting"
    /\ caller' = "ready"
    /\ UNCHANGED <<config, loopStarted, waiting, result, netVars, brokerVars,
                   drops, lives>>

(* No thread could be started.                                             *)
ConnectFails ==
    /\ caller = "ready"
    /\ ~loopStarted
    /\ paho' = "connecting"
    /\ state' = "disconnected"
    /\ UNCHANGED <<config, loopStarted, caller, waiting, result,
                   net, out, unacked, brokerVars, drops, lives>>

(* paho keeps a QoS 1 message whether or not it can send it now.           *)
Keep(m) == unacked' = IF m \in hot THEN unacked ELSE Append(unacked, m)

(* The payload cannot be encoded or the topic is invalid.                  *)
PublishRefused(m) ==
    /\ caller = "ready"
    /\ result[m] = "none"
    /\ result' = [result EXCEPT ![m] = "refused"]
    /\ UNCHANGED <<config, state, loopStarted, caller, waiting, netVars,
                   brokerVars, drops, lives>>

(* publish(m): success means there is a socket to give it to.              *)
Publish(m) ==
    /\ caller = "ready"
    /\ result[m] = "none"
    /\ Send(m)
    /\ Keep(m)
    /\ result' = [result EXCEPT ![m] = IF Socket THEN "ok" ELSE "no_conn"]
    /\ UNCHANGED <<config, state, loopStarted, caller, waiting, net, paho,
                   brokerVars, drops, lives>>

(* The same with wait > 0: an accepted message is waited for.              *)
PublishAndWait(m) ==
    /\ caller = "ready"
    /\ result[m] = "none"
    /\ Send(m)
    /\ Keep(m)
    /\ IF Socket
       THEN /\ waiting' = {m}
            /\ caller' = "confirm"
            /\ UNCHANGED result
       ELSE /\ result' = [result EXCEPT ![m] = "no_conn"]
            /\ UNCHANGED <<waiting, caller>>
    /\ UNCHANGED <<config, state, loopStarted, net, paho, brokerVars, drops, lives>>

(* Mutant: an expired wait is not told from a confirmation.                *)
ConfirmBlindly ==
    /\ caller = "confirm"
    /\ result' = [m \in Message |->
                     IF m \in waiting THEN "confirmed" ELSE result[m]]
    /\ waiting' = {}
    /\ caller' = "ready"
    /\ UNCHANGED <<config, state, loopStarted, netVars, brokerVars, drops, lives>>

(* is_published(): a QoS 1 message has its PUBACK; a QoS 0 message may be  *)
(* written by now, and is if it has arrived.                               *)
Published(m) ==
    IF m \in hot THEN IF m \in taken THEN {TRUE} ELSE BOOLEAN
                 ELSE {m \notin Elements(unacked)}

(* _confirm(): published, or the wait has expired.                         *)
Confirm ==
    /\ caller = "confirm"
    /\ \E m \in waiting : \E published \in Published(m) :
           result' = [result EXCEPT ![m] = IF published THEN "confirmed" ELSE "unconfirmed"]
    /\ waiting' = {}
    /\ caller' = "ready"
    /\ UNCHANGED <<config, state, loopStarted, netVars, brokerVars, drops, lives>>

(* close(): is_connected decides whether offline is announced.             *)
Close ==
    /\ caller = "ready"
    /\ caller' = IF announces /\ IsConnected THEN "offline" ELSE "disconnect"
    /\ UNCHANGED <<config, state, loopStarted, waiting, result, netVars, brokerVars,
                   drops, lives>>

CloseAnnounces ==
    /\ caller = "offline"
    /\ Send("offline")
    /\ caller' = "disconnect"
    /\ UNCHANGED <<config, state, loopStarted, waiting, result,
                   net, paho, unacked, brokerVars, drops, lives>>

CloseDisconnects ==
    /\ caller = "disconnect"
    /\ Send("bye")
    /\ paho' = IF Socket THEN "disconnecting" ELSE "disconnected"
    /\ caller' = "stop"
    /\ UNCHANGED <<config, state, loopStarted, waiting, result,
                   net, unacked, brokerVars, drops, lives>>

(* Mutant: the loop is stopped without waiting for its thread.             *)
CloseReturnsEarly ==
    /\ caller = "stop"
    /\ loopStarted' = FALSE
    /\ state' = "closed"
    /\ caller' = "ready"
    /\ UNCHANGED <<config, waiting, result, netVars, brokerVars, drops, lives>>

(* loop_stop() joins the thread.                                           *)
CloseReturns ==
    /\ caller = "stop"
    /\ net = "none"
    /\ loopStarted' = FALSE
    /\ state' = "closed"
    /\ caller' = "ready"
    /\ UNCHANGED <<config, waiting, result, netVars, brokerVars, drops, lives>>

-----------------------------------------------------------------------------
(* paho's network thread.                                                  *)

(* CONNECT.  A connection the broker still holds for this client id ends,  *)
(* and its will is published, before the new one is served.                *)
Dial ==
    /\ net = "dial"
    /\ caller # "stop"
    /\ net' = "connack"
    /\ paho' = "connecting"
    /\ out' = <<>>
    /\ link' = "up"
    /\ retained' = IF announces /\ link = "dead" THEN "offline" ELSE retained
    /\ UNCHANGED <<callVars, unacked, taken, drops, lives>>

(* on_connect with a failure, then on_disconnect; paho will try again.     *)
Refused ==
    /\ net = "dial"
    /\ caller # "stop"
    /\ state' = "disconnected"
    /\ paho' = "lost"
    /\ UNCHANGED <<config, loopStarted, caller, waiting, result, net, out, unacked,
                   brokerVars, drops, lives>>

(* The CONNACK sets paho's flag before it calls on_connect.                *)
Connack ==
    /\ net = "connack"
    /\ paho' = "connected"
    /\ net' = "on_connect"
    /\ UNCHANGED <<callVars, out, unacked, brokerVars, drops, lives>>

OnConnect ==
    /\ net = "on_connect"
    /\ state' = "connected"
    /\ net' = "announce"
    /\ UNCHANGED <<config, loopStarted, caller, waiting, result, paho, out, unacked,
                   brokerVars, drops, lives>>

(* What has no PUBACK and is not on this connection's socket: the messages *)
(* that were published before the ones that are.                           *)
Unsent ==
    LET again == {i \in 1..Len(unacked) : unacked[i] \notin Elements(out)}
    IN  SubSeq(unacked, 1, Cardinality(again))

(* Mutant: availability is announced on the first connection only.         *)
AnnounceOnce ==
    /\ net = "announce"
    /\ out' = (IF announces /\ retained = "none" THEN Append(out, "online") ELSE out)
                  \o Unsent
    /\ net' = "loop"
    /\ UNCHANGED <<callVars, paho, unacked, brokerVars, drops, lives>>

(* The rest of on_connect; then paho sends again what has no PUBACK.       *)
Announce ==
    /\ net = "announce"
    /\ out' = (IF announces THEN Append(out, "online") ELSE out) \o Unsent
    /\ net' = "loop"
    /\ UNCHANGED <<callVars, paho, unacked, brokerVars, drops, lives>>

(* The oldest packet reaches the broker.                                   *)
Arrives ==
    /\ Writing /\ out # <<>> /\ Head(out) # "bye"
    /\ out' = Tail(out)
    /\ retained' = IF Head(out) \in {"online", "offline"} THEN Head(out)
                   ELSE retained
    /\ taken' = IF Head(out) \in Message THEN taken \cup {Head(out)} ELSE taken
    /\ UNCHANGED <<callVars, net, paho, unacked, link, drops, lives>>

(* A PUBACK for a message sent on this connection.                         *)
Puback ==
    /\ net = "loop"
    /\ \E i \in 1..Len(unacked) :
           /\ unacked[i] \in taken \ Elements(out)
           /\ unacked' = SubSeq(unacked, 1, i - 1)
                            \o SubSeq(unacked, i + 1, Len(unacked))
    /\ UNCHANGED <<callVars, net, paho, out, brokerVars, drops, lives>>

(* The DISCONNECT goes out: paho calls on_disconnect and the thread ends.  *)
(* The broker ends the connection without publishing the will.             *)
SaysBye ==
    /\ Writing /\ out # <<>> /\ Head(out) = "bye"
    /\ state' = "disconnected"
    /\ paho' = "disconnected"
    /\ net' = "none"
    /\ out' = <<>>
    /\ link' = "down"
    /\ UNCHANGED <<config, loopStarted, caller, waiting, result, unacked,
                   retained, taken, drops, lives>>

(* The connection breaks.  paho's flag stays up until on_disconnect ran.   *)
Drop ==
    /\ Writing
    /\ drops < MaxDrops
    /\ drops' = drops + 1
    /\ net' = "lost"
    /\ out' = <<>>
    /\ link' = "dead"
    /\ UNCHANGED <<callVars, paho, unacked, retained, taken, lives>>

OnDisconnect ==
    /\ net = "lost"
    /\ state' = "disconnected"
    /\ paho' = IF paho \in {"disconnecting", "disconnected"}
               THEN "disconnected" ELSE "lost"
    /\ net' = "dial"
    /\ UNCHANGED <<config, loopStarted, caller, waiting, result, out, unacked,
                   brokerVars, drops, lives>>

(* Without a connection the thread ends once the caller stops it.          *)
LoopEnds ==
    /\ net = "dial"
    /\ caller = "stop"
    /\ net' = "none"
    /\ UNCHANGED <<callVars, paho, out, unacked, brokerVars, drops, lives>>

(* The broker notices that a connection is dead.                           *)
WillFires ==
    /\ link = "dead"
    /\ link' = "down"
    /\ retained' = IF announces THEN "offline" ELSE retained
    /\ UNCHANGED <<callVars, netVars, taken, drops, lives>>

-----------------------------------------------------------------------------
CallerMoves ==
    \/ ConnectReturns \/ Confirm
    \/ CloseAnnounces \/ CloseDisconnects \/ CloseReturns

NetMoves ==
    \/ Dial \/ Connack \/ OnConnect \/ Announce \/ Arrives \/ Puback
    \/ SaysBye \/ OnDisconnect \/ LoopEnds

Next ==
    \/ Connect \/ ConnectAgain \/ ConnectFails \/ Close
    \/ \E m \in Message : Publish(m) \/ PublishAndWait(m) \/ PublishRefused(m)
    \/ CallerMoves \/ NetMoves
    \/ Refused \/ Drop \/ WillFires

Spec == Init /\ [][Next]_vars

(* A call that has begun goes on, the network thread runs, a broker that   *)
(* is reachable again and again answers, and it notices dead connections.  *)
Fairness == WF_vars(CallerMoves) /\ WF_vars(NetMoves) /\ WF_vars(WillFires)

FairSpec == Spec /\ Fairness

-----------------------------------------------------------------------------
(* The variables have their types; a thread runs only while _loop_started  *)
(* says so, and packets wait only for an open socket (307-346).            *)
TypeOK ==
    /\ announces \in BOOLEAN /\ hot \subseteq Message
    /\ state \in {"idle", "connecting", "connected", "disconnected", "closed"}
    /\ loopStarted \in BOOLEAN
    /\ caller \in {"ready", "started", "confirm", "offline", "disconnect", "stop"}
    /\ waiting \subseteq Message
    /\ result \in [Message -> {"none", "ok", "no_conn", "refused", "confirmed",
                              "unconfirmed", "killed"}]
    /\ net \in {"none", "dial", "connack", "on_connect", "announce", "loop", "lost"}
    /\ paho \in {"new", "connecting", "connected", "lost",
                 "disconnecting", "disconnected"}
    /\ out \in Seq(Message \cup {"online", "offline", "bye"})
    /\ unacked \in Seq(Message)
    /\ link \in {"down", "up", "dead"}
    /\ retained \in {"none", "online", "offline"}
    /\ taken \subseteq Message
    /\ drops \in Nat /\ lives \in Nat
    /\ net # "none" => loopStarted
    /\ out # <<>> => Socket

(* "a process that publishes and immediately exits can report success for  *)
(* a message the broker never saw", which wait is there to exclude: a QoS  *)
(* 1 publish confirmed within its wait has been taken by the broker,       *)
(* however many connections broke under it; and a QoS 0 publish answered   *)
(* with no_conn was dropped for good ("never queued"), so that a caller    *)
(* may send it again (client.py 380-411, _confirm 413-428).                *)
ConfirmedMeansTaken ==
    \A m \in Message :
        /\ result[m] = "confirmed" /\ m \notin hot => m \in taken
        /\ result[m] = "no_conn" /\ m \in hot => m \notin taken

(* Once close() has returned the client stays closed until a call changes  *)
(* that: no callback still to run overwrites the state, and no thread goes *)
(* on with the socket (close 325-346, _on_disconnect 516-525).             *)
ClosedIsFinal ==
    [][state = "closed" /\ state' # "closed" => loopStarted' \/ net = "none"]_vars

(* A retained availability topic is of use only if it tells the truth in   *)
(* the end: a client that stays connected is announced online, also when   *)
(* the will of an earlier connection fired meanwhile (_on_connect 496-514).*)
OnlineInTheEnd == announces /\ <>[](link = "up") => <>[](retained = "online")

(* "Announce offline (if configured), disconnect cleanly, stop the loop"   *)
(* (close, client.py 326): after a close() the topic does not say online.  *)
ClosedIsOffline ==
    state = "closed" /\ caller = "ready" /\ link = "down" => retained # "online"

(* "a positive value blocks the calling thread until the broker confirms   *)
(* the message (or the bound expires)" (client.py 384), whatever the QoS.  *)
WaitMeansTaken == \A m \in Message : result[m] = "confirmed" => m \in taken

(* "loop running, not yet connected (or reconnecting)" is what CONNECTING  *)
(* means (client.py 116): a client whose calls and callbacks have run and   *)
(* which is connected does not report it.                                  *)
ConnectingIsNotConnected ==
    state = "connecting" /\ caller = "ready" => net # "loop"
=============================================================================
