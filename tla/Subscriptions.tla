----------------------------- MODULE Subscriptions -----------------------------
(***************************************************************************)
(* `events sub add`, `events sub remove [--force]` and the opening of a    *)
(* drain, for one subscription name: subs/__init__.py and subs/registry.py *)
(* over the broker session of the name.  The two halves of a subscription, *)
(* the record on disk and the session in the broker, are written by        *)
(* separate steps, and any number of callers run them beside each other.   *)
(*                                                                         *)
(* Every call on the name connects with the same client id, so each takes  *)
(* the session over.  The broker is external: a SUBSCRIBE is processed     *)
(* some time after it is written, in order with the DISCONNECT behind it,  *)
(* and nobody waits for the SUBACK.  A call is over before paho would      *)
(* reconnect by itself.                                                    *)
(***************************************************************************)
EXTENDS Integers, FiniteSets

CONSTANTS
    Caller,         \* processes that run `events`
    Filter,         \* the topic filters they ask for
    Nothing,        \* no record, no SUBSCRIBE
    Nobody,         \* no connection
    MayForce,       \* whether remove is ever run with --force
    MaxFaults,      \* bound on dead processes and unanswered CONNECTs
    MaxDrops        \* bound on dropped connections

ASSUME NothingAssumption == Nothing \notin Filter
ASSUME NobodyAssumption == Nobody \notin Caller
ASSUME MayForceAssumption == MayForce \in BOOLEAN

VARIABLES
    record,         \* the filter of the record in the registry
    session,        \* the broker holds a session for the client id
    filters,        \* the filters it is subscribed to
    conn,           \* the caller whose connection has it
    expiring,       \* that connection ends the session with itself
    wire,           \* the SUBSCRIBE the broker has not processed yet
    pc,             \* the step each caller is about to take
    want,           \* the filter of its record
    forced,         \* it runs remove --force
    alone,          \* no call has started beside another
    told,           \* adds less removes that have succeeded
    faults, drops

broker == <<session, filters, conn, expiring, wire>>
call == <<pc, want, forced, alone>>
bounds == <<faults, drops>>
vars == <<record, session, filters, conn, expiring, wire, pc, want, forced,
          alone, told, faults, drops>>

Init ==
    /\ record = Nothing /\ told = 0
    /\ session = FALSE /\ filters = {}
    /\ conn = Nobody /\ expiring = FALSE /\ wire = Nothing
    /\ pc = [a \in Caller |-> "idle"]
    /\ want = [a \in Caller |-> Nothing]
    /\ forced = [a \in Caller |-> FALSE]
    /\ alone = TRUE
    /\ faults = 0 /\ drops = 0

Goto(a, label) == pc' = [pc EXCEPT ![a] = label]

-----------------------------------------------------------------------------
(* The broker.                                                             *)

Clean(a) == pc[a] = "remove open"

(* A CONNECT resumes the session unless it asks for a clean start or takes *)
(* over a connection that ends the session with itself.                    *)
Resumed(a) == session /\ ~expiring /\ ~Clean(a)

Bind(a) ==
    /\ session' = TRUE
    /\ filters' = IF Resumed(a) THEN filters ELSE {}
    /\ conn' = a /\ expiring' = Clean(a) /\ wire' = Nothing

(* The end of a connection: what it had not processed is lost, and with an *)
(* expiry of 0 so is the session.                                          *)
Disconnected ==
    /\ session' = (session /\ ~expiring)
    /\ filters' = IF expiring THEN {} ELSE filters
    /\ conn' = Nobody /\ expiring' = FALSE /\ wire' = Nothing

ProcessSubscribe ==
    /\ wire # Nothing
    /\ filters' = filters \cup {wire}
    /\ wire' = Nothing
    /\ UNCHANGED <<record, session, conn, expiring, call, told, bounds>>

DropConnection ==
    /\ conn # Nobody
    /\ drops < MaxDrops
    /\ drops' = drops + 1
    /\ Disconnected
    /\ UNCHANGED <<record, call, told, faults>>

-----------------------------------------------------------------------------
(* The calls.  Each looks the record up first; a call that its answer ends *)
(* at once (a duplicate add, an unknown name) changes nothing.             *)

Start(a, label, f, force) ==
    /\ pc[a] = "idle"
    /\ Goto(a, label)
    /\ want' = [want EXCEPT ![a] = f]
    /\ forced' = [forced EXCEPT ![a] = force]
    /\ alone' = (alone /\ \A b \in Caller : pc[b] = "idle")
    /\ UNCHANGED <<record, broker, told, bounds>>

Add(a, f) == record = Nothing /\ Start(a, "add open", f, FALSE)

Remove(a, force) ==
    record # Nothing /\ Start(a, "remove open", Nothing, force)

Drain(a) == record # Nothing /\ Start(a, "drain open", record, FALSE)

(* PersistentSession.open(), answered.  Only a drain asks whether it has   *)
(* resumed the session; an add always subscribes.                          *)
Open(a) ==
    /\ pc[a] \in {"add open", "remove open", "drain open"}
    /\ Bind(a)
    /\ \/ pc[a] = "add open" /\ Goto(a, "add subscribe")
       \/ pc[a] = "remove open" /\ Goto(a, "remove close")
       \/ pc[a] = "drain open" /\ Resumed(a) /\ Goto(a, "drain")
       \/ pc[a] = "drain open" /\ ~Resumed(a) /\ Goto(a, "drain subscribe")
    /\ UNCHANGED <<record, want, forced, alone, told, bounds>>

(* Mutant: an unreachable broker never stops a remove.                     *)
UnreachableSwallowed(a) ==
    /\ pc[a] \in {"add open", "remove open", "drain open"}
    /\ faults < MaxFaults
    /\ faults' = faults + 1
    /\ UNCHANGED broker
    /\ Goto(a, IF pc[a] = "remove open" THEN "remove record" ELSE "idle")
    /\ UNCHANGED <<record, want, forced, alone, told, drops>>

(* open() raises BrokerUnreachableError: the CONNECT did not get there, or *)
(* its answer came too late and close() ends the connection it made.       *)
Unreachable(a) ==
    /\ pc[a] \in {"add open", "remove open", "drain open"}
    /\ faults < MaxFaults
    /\ faults' = faults + 1
    /\ \/ UNCHANGED broker
       \/ /\ session' = ~Clean(a)
          /\ filters' = IF Resumed(a) THEN filters ELSE {}
          /\ conn' = Nobody /\ expiring' = FALSE /\ wire' = Nothing
    /\ Goto(a, IF forced[a] THEN "remove record" ELSE "idle")
    /\ UNCHANGED <<record, want, forced, alone, told, drops>>

(* Mutant: the SUBSCRIBE is forgotten when somebody is subscribed already. *)
SubscribeOnce(a) ==
    /\ pc[a] \in {"add subscribe", "drain subscribe"}
    /\ wire' = IF conn = a /\ filters = {} THEN want[a] ELSE wire
    /\ Goto(a, IF pc[a] = "add subscribe" THEN "add close" ELSE "drain")
    /\ UNCHANGED <<record, session, filters, conn, expiring, want, forced,
                   alone, told, bounds>>

(* Mutant: the SUBSCRIBE goes out on whichever connection there is.        *)
SubscribeShared(a) ==
    /\ pc[a] \in {"add subscribe", "drain subscribe"}
    /\ wire' = IF conn # Nobody THEN want[a] ELSE wire
    /\ Goto(a, IF pc[a] = "add subscribe" THEN "add close" ELSE "drain")
    /\ UNCHANGED <<record, session, filters, conn, expiring, want, forced,
                   alone, told, bounds>>

(* subscribe() succeeds once paho has taken the packet.  paho may not have *)
(* noticed that its connection is gone.                                    *)
Subscribe(a) ==
    /\ pc[a] \in {"add subscribe", "drain subscribe"}
    /\ wire' = IF conn = a THEN want[a] ELSE wire
    /\ Goto(a, IF pc[a] = "add subscribe" THEN "add close" ELSE "drain")
    /\ UNCHANGED <<record, session, filters, conn, expiring, want, forced,
                   alone, told, bounds>>

SubscribeRefused(a) ==
    /\ pc[a] \in {"add subscribe", "drain subscribe"}
    /\ conn # a
    /\ Goto(a, "idle")
    /\ UNCHANGED <<record, broker, want, forced, alone, told, bounds>>

(* close() never raises, so the call goes on whatever has become of its    *)
(* connection.                                                             *)
Close(a) ==
    /\ pc[a] \in {"add close", "remove close", "drain"}
    /\ IF conn = a THEN wire = Nothing /\ Disconnected ELSE UNCHANGED broker
    /\ \/ pc[a] = "add close" /\ Goto(a, "add record")
       \/ pc[a] = "remove close" /\ Goto(a, "remove record")
       \/ pc[a] = "drain" /\ Goto(a, "idle")
    /\ UNCHANGED <<record, want, forced, alone, told, bounds>>

(* Mutant: os.replace instead of os.link.                                  *)
AddRecordReplacing(a) ==
    /\ pc[a] = "add record"
    /\ record' = want[a] /\ told' = told + 1
    /\ Goto(a, "idle")
    /\ UNCHANGED <<broker, want, forced, alone, bounds>>

(* _create_file: os.link() publishes the record or finds one there.        *)
AddRecord(a) ==
    /\ pc[a] = "add record"
    /\ IF record = Nothing THEN record' = want[a] /\ told' = told + 1
                           ELSE UNCHANGED <<record, told>>
    /\ Goto(a, "idle")
    /\ UNCHANGED <<broker, want, forced, alone, bounds>>

(* registry.remove(): look, load and unlink; an unlink that finds nothing  *)
(* raises FileNotFoundError.                                               *)
FindRecord(a) ==
    /\ pc[a] = "remove record"
    /\ Goto(a, IF record = Nothing THEN "idle" ELSE "remove unlink")
    /\ UNCHANGED <<record, broker, want, forced, alone, told, bounds>>

Unlink(a) ==
    /\ pc[a] = "remove unlink"
    /\ record' = Nothing
    /\ told' = IF record = Nothing THEN told ELSE told - 1
    /\ Goto(a, "idle")
    /\ UNCHANGED <<broker, want, forced, alone, bounds>>

Die(a) ==
    /\ pc[a] # "idle"
    /\ faults < MaxFaults
    /\ faults' = faults + 1
    /\ IF conn = a THEN Disconnected ELSE UNCHANGED broker
    /\ Goto(a, "idle")
    /\ UNCHANGED <<record, want, forced, alone, told, drops>>

-----------------------------------------------------------------------------
Call(a) ==
    \/ \E f \in Filter : Add(a, f)
    \/ \E force \in {FALSE, MayForce} : Remove(a, force)
    \/ Drain(a)
    \/ Open(a) \/ Unreachable(a) \/ Subscribe(a) \/ SubscribeRefused(a)
    \/ Close(a) \/ AddRecord(a) \/ FindRecord(a) \/ Unlink(a) \/ Die(a)

Next == ProcessSubscribe \/ DropConnection \/ \E a \in Caller : Call(a)

Spec == Init /\ [][Next]_vars

-----------------------------------------------------------------------------
States == {"idle", "add open", "add subscribe", "add close", "add record",
           "remove open", "remove close", "remove record", "remove unlink",
           "drain open", "drain subscribe", "drain"}

(* Types, and what the broker's variables say of each other: a SUBSCRIBE   *)
(* under way is the one its connection's caller wrote.                     *)
TypeOK ==
    /\ record \in Filter \cup {Nothing} /\ told \in Int
    /\ session \in BOOLEAN /\ filters \subseteq Filter
    /\ conn \in Caller \cup {Nobody} /\ expiring \in BOOLEAN
    /\ wire \in Filter \cup {Nothing}
    /\ pc \in [Caller -> States]
    /\ want \in [Caller -> Filter \cup {Nothing}]
    /\ forced \in [Caller -> BOOLEAN] /\ alone \in BOOLEAN
    /\ faults \in Nat /\ drops \in Nat
    /\ (filters # {} \/ conn # Nobody) => session
    /\ wire # Nothing => conn # Nobody /\ wire = want[conn]

(* Two processes registering or removing one name cannot both be told they *)
(* did (registry.py 205-223): what has been told to succeed is what is on  *)
(* disk, in any interleaving and after any failure.                        *)
RegistryCounts == told = IF record = Nothing THEN 0 ELSE 1

(* Only a caller between its open() and its close() has the connection.    *)
Connected == {"add subscribe", "add close", "remove close",
              "drain subscribe", "drain"}

ConnInv == \A a \in Caller : conn = a => pc[a] \in Connected

(* A caller that has a record to write, or a filter to subscribe, has it.  *)
WantInv ==
    \A a \in Caller :
        pc[a] \in {"add open", "add subscribe", "add close", "add record",
                  "drain open", "drain subscribe"} => want[a] \in Filter

Quiet == \A a \in Caller : pc[a] = "idle"

(* "A record describing a session that was never created is a subscription *)
(* that silently captures nothing" (subs/__init__.py 19-22): when calls    *)
(* run one after the other and at most one of them fails, a session with a *)
(* record is subscribed to the record's filter, so no later drain, which   *)
(* trusts a session that is present, is deaf.                              *)
Heard == Quiet /\ record # Nothing /\ session => record \in filters

RecordedIsHeard == alone /\ faults <= 1 /\ drops = 0 => Heard

(* A record and its session do not describe different things               *)
(* (registry.py 172-175): the session captures nothing the record does not *)
(* ask for.                                                                *)
SessionMatchesRecord ==
    Quiet /\ record # Nothing /\ session => filters \subseteq {record}

(* Without --force a record goes only after its session has been           *)
(* destroyed (subs/__init__.py 22-25), whatever fails before or meanwhile, *)
(* as long as no other call runs beside it.                                *)
RemoveDestroys ==
    [][\A a \in Caller :
           pc[a] = "remove unlink" /\ pc'[a] = "idle" /\ record # Nothing
               /\ record' = Nothing /\ ~forced[a] /\ alone => ~session']_vars

(* "A surviving session keeps queueing events nobody will ever drain"      *)
(* (subs/__init__.py 209-210): once every call is over, a name without a   *)
(* record has no session.                                                  *)
NoOrphan == Quiet /\ record = Nothing => ~session
===============================================================================
