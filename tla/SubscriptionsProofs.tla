-------------------------- MODULE SubscriptionsProofs --------------------------
(***************************************************************************)
(* For any number of callers and any bounds: the types of Subscriptions,   *)
(* that the registry never tells two callers the same success, that a      *)
(* remove destroys the session first, and that a recorded session is       *)
(* subscribed to what its record says.                                     *)
(***************************************************************************)
EXTENDS Subscriptions, TLAPS

USE NothingAssumption, NobodyAssumption, MayForceAssumption

(* TypeOK is not inductive alone: that a SUBSCRIBE under way is its        *)
(* connection's needs that an idle caller, whose filter may change, has no *)
(* connection.                                                             *)
Inv == TypeOK /\ ConnInv

LEMMA InvInit == Init => Inv
  <1> SUFFICES ASSUME Init PROVE Inv
    OBVIOUS
  <1>1. pc \in [Caller -> States] /\ want \in [Caller -> Filter \cup {Nothing}]
    BY DEF Init, States
  <1>2. forced \in [Caller -> BOOLEAN] /\ session \in BOOLEAN /\ expiring \in BOOLEAN
        /\ alone \in BOOLEAN
    BY Zenon DEF Init
  <1>3. TypeOK
    BY <1>1, <1>2 DEF Init, TypeOK
  <1>4. ConnInv
    BY DEF Init, ConnInv
  <1> QED BY <1>3, <1>4 DEF Inv

(* Looking the record up leaves the broker alone and moves its own caller  *)
(* only.                                                                   *)
LEMMA StartInv ==
    ASSUME Inv, NEW a \in Caller, NEW label \in States,
           NEW f \in Filter \cup {Nothing}, NEW force \in BOOLEAN,
           Start(a, label, f, force)
    PROVE  Inv'
  <1>1. conn # a /\ (wire # Nothing => conn \in Caller)
    BY DEF Inv, TypeOK, ConnInv, Start, Connected
  <1>2. TypeOK'
    BY <1>1 DEF Inv, TypeOK, Start, Goto, broker, bounds
  <1>3. ConnInv'
    BY <1>1 DEF Inv, TypeOK, ConnInv, Start, Goto, broker
  <1> QED BY <1>2, <1>3 DEF Inv

(* The steps of the broker move no caller.                                 *)
LEMMA BrokerInv ==
    ASSUME Inv, ProcessSubscribe \/ DropConnection
    PROVE  Inv'
  <1>1. CASE ProcessSubscribe
    BY <1>1 DEF Inv, TypeOK, ConnInv, ProcessSubscribe, call, bounds
  <1>2. CASE DropConnection
    <2>1. /\ conn' = Nobody /\ expiring' = FALSE /\ wire' = Nothing
          /\ drops' \in Nat /\ UNCHANGED <<record, pc, want, forced, alone, told, faults>>
      BY <1>2 DEF Inv, TypeOK, DropConnection, Disconnected, call
    <2>2. session' \in BOOLEAN
      BY <1>2, Zenon DEF DropConnection, Disconnected
    <2>3. filters' \subseteq Filter /\ (filters' # {} => session')
      BY <1>2 DEF Inv, TypeOK, DropConnection, Disconnected
    <2> QED BY <2>1, <2>2, <2>3 DEF Inv, TypeOK, ConnInv
  <1> QED BY <1>1, <1>2

(* open() gives the connection to a caller that will close it, or to none. *)
LEMMA OpenInv ==
    ASSUME Inv, NEW a \in Caller, Open(a)
    PROVE  Inv'
  <1>1. /\ session' = TRUE /\ filters' \subseteq Filter
        /\ conn' = a /\ expiring' \in BOOLEAN /\ wire' = Nothing
    BY DEF Inv, TypeOK, Open, Bind, Clean
  <1>2. \E l \in Connected : pc' = [pc EXCEPT ![a] = l]
    BY DEF Open, Goto, Connected
  <1>3. pc' \in [Caller -> States] /\ pc'[a] \in Connected
    BY <1>2 DEF Inv, TypeOK, Connected, States
  <1>4. UNCHANGED <<record, want, forced, alone, told, faults, drops>>
    BY DEF Open, bounds
  <1> QED BY <1>1, <1>3, <1>4 DEF Inv, TypeOK, ConnInv

LEMMA UnreachableInv ==
    ASSUME Inv, NEW a \in Caller, Unreachable(a)
    PROVE  Inv'
  <1>1. conn # a
    BY DEF Inv, ConnInv, Unreachable, Connected
  <1>2. \/ UNCHANGED broker
        \/ /\ session' \in BOOLEAN /\ filters' \subseteq Filter
           /\ filters' # {} => session'
           /\ conn' = Nobody /\ expiring' = FALSE /\ wire' = Nothing
    BY DEF Inv, TypeOK, Unreachable, Clean, Resumed
  <1>3. \E l \in {"remove record", "idle"} : pc' = [pc EXCEPT ![a] = l]
    BY DEF Unreachable, Goto
  <1>4. pc' \in [Caller -> States] /\ \A b \in Caller : b # a => pc'[b] = pc[b]
    BY <1>3 DEF Inv, TypeOK, States
  <1>5. UNCHANGED <<record, want, forced, alone, told, drops>> /\ faults' \in Nat
    <2>1. UNCHANGED <<record, want, forced, alone, told, drops>>
      BY DEF Unreachable
    <2>2. faults \in Nat /\ faults' = faults + 1
      BY DEF Inv, TypeOK, Unreachable
    <2> QED BY <2>1, <2>2
  <1>6. CASE UNCHANGED broker
    BY <1>1, <1>4, <1>5, <1>6 DEF Inv, TypeOK, ConnInv, broker
  <1>7. CASE ~UNCHANGED broker
    BY <1>2, <1>4, <1>5, <1>7 DEF Inv, TypeOK, ConnInv
  <1> QED BY <1>6, <1>7

LEMMA SubscribeInv ==
    ASSUME Inv, NEW a \in Caller, Subscribe(a) \/ SubscribeRefused(a)
    PROVE  Inv'
  <1>1. CASE Subscribe(a)
    <2>1. \E l \in {"add close", "drain"} : pc' = [pc EXCEPT ![a] = l]
      BY <1>1 DEF Subscribe, Goto
    <2>2. /\ pc' \in [Caller -> States] /\ pc'[a] \in Connected
          /\ \A b \in Caller : b # a => pc'[b] = pc[b]
      BY <2>1 DEF Inv, TypeOK, States, Connected
    <2> QED BY <1>1, <2>2 DEF Inv, TypeOK, ConnInv, Subscribe, bounds
  <1>2. CASE SubscribeRefused(a)
    BY <1>2 DEF Inv, TypeOK, ConnInv, SubscribeRefused, Goto, States, broker, bounds
  <1> QED BY <1>1, <1>2

(* After close() the caller has no connection, its own or another's.       *)
LEMMA CloseInv ==
    ASSUME Inv, NEW a \in Caller, Close(a)
    PROVE  Inv'
  <1>1. conn' # a
    BY DEF Close, Disconnected, broker
  <1>2. \E l \in {"add record", "remove record", "idle"} : pc' = [pc EXCEPT ![a] = l]
    BY DEF Close, Goto
  <1>3. pc' \in [Caller -> States] /\ \A b \in Caller : b # a => pc'[b] = pc[b]
    BY <1>2 DEF Inv, TypeOK, States
  <1>4. UNCHANGED <<record, want, forced, alone, told, faults, drops>>
    BY DEF Close, bounds
  <1>5. CASE conn = a
    BY <1>1, <1>3, <1>4, <1>5 DEF Inv, TypeOK, ConnInv, Close, Disconnected
  <1>6. CASE conn # a
    BY <1>1, <1>3, <1>4, <1>6 DEF Inv, TypeOK, ConnInv, Close, broker
  <1> QED BY <1>5, <1>6

(* os.link creates the record, or finds one and leaves it.                 *)
LEMMA AddRecordCases ==
    ASSUME NEW a \in Caller, AddRecord(a)
    PROVE  \/ record = Nothing /\ record' = want[a] /\ told' = told + 1
           \/ record' = record /\ told' = told
  <1>1. CASE record = Nothing
    BY <1>1, Zenon DEF AddRecord
  <1>2. CASE record # Nothing
    <2>1. UNCHANGED <<record, told>>
      BY <1>2, Zenon DEF AddRecord
    <2> QED BY <2>1
  <1> QED BY <1>1, <1>2

(* The registry's steps leave the broker alone; their caller has closed.   *)
LEMMA RegistryInv ==
    ASSUME Inv, NEW a \in Caller, AddRecord(a) \/ FindRecord(a) \/ Unlink(a)
    PROVE  Inv'
  <1>1. conn # a
    BY DEF Inv, ConnInv, AddRecord, FindRecord, Unlink, Connected
  <1>2. UNCHANGED <<session, filters, conn, expiring, wire, want, forced, alone, faults, drops>>
    BY DEF AddRecord, FindRecord, Unlink, broker, bounds
  <1>3. \E l \in {"idle", "remove unlink"} : pc' = [pc EXCEPT ![a] = l]
    BY DEF AddRecord, FindRecord, Unlink, Goto
  <1>4. pc' \in [Caller -> States] /\ \A b \in Caller : b # a => pc'[b] = pc[b]
    BY <1>3 DEF Inv, TypeOK, States
  <1>5. record' \in Filter \cup {Nothing} /\ told' \in Int
    <2>1. CASE AddRecord(a)
      <3>1. want[a] \in Filter \cup {Nothing} /\ record \in Filter \cup {Nothing}
            /\ told \in Int
        BY DEF Inv, TypeOK
      <3>2. \/ record' = want[a] /\ told' = told + 1
            \/ record' = record /\ told' = told
        BY <2>1, AddRecordCases
      <3> QED BY <3>1, <3>2
    <2>2. CASE FindRecord(a)
      BY <2>2 DEF Inv, TypeOK, FindRecord
    <2>3. CASE Unlink(a)
      <3>1. told \in Int
        BY DEF Inv, TypeOK
      <3>2. record' = Nothing /\ told' = IF record = Nothing THEN told ELSE told - 1
        BY <2>3, Zenon DEF Unlink
      <3> QED BY <3>1, <3>2
    <2> QED BY <2>1, <2>2, <2>3
  <1> QED BY <1>1, <1>2, <1>4, <1>5 DEF Inv, TypeOK, ConnInv

LEMMA DieInv ==
    ASSUME Inv, NEW a \in Caller, Die(a)
    PROVE  Inv'
  <1>1. conn' # a
    BY DEF Die, Disconnected, broker
  <1>2. pc' \in [Caller -> States] /\ \A b \in Caller : b # a => pc'[b] = pc[b]
    BY DEF Inv, TypeOK, Die, Goto, States
  <1>3. UNCHANGED <<record, want, forced, alone, told, drops>> /\ faults' \in Nat
    BY DEF Inv, TypeOK, Die
  <1>4. CASE conn = a
    BY <1>1, <1>2, <1>3, <1>4 DEF Inv, TypeOK, ConnInv, Die, Disconnected
  <1>5. CASE conn # a
    BY <1>1, <1>2, <1>3, <1>5 DEF Inv, TypeOK, ConnInv, Die, broker
  <1> QED BY <1>4, <1>5

LEMMA InvNext == Inv /\ [Next]_vars => Inv'
  <1> SUFFICES ASSUME Inv, [Next]_vars PROVE Inv'
    OBVIOUS
  <1>1. ASSUME NEW a \in Caller, NEW f \in Filter, Add(a, f) PROVE Inv'
    BY <1>1, StartInv DEF Add, States
  <1>2. ASSUME NEW a \in Caller, NEW force \in {FALSE, MayForce}, Remove(a, force)
        PROVE  Inv'
    BY <1>2, StartInv DEF Remove, States
  <1>3. ASSUME NEW a \in Caller, Drain(a) PROVE Inv'
    BY <1>3, StartInv DEF Drain, States, Inv, TypeOK
  <1>4. CASE UNCHANGED vars
    BY <1>4 DEF Inv, TypeOK, ConnInv, vars
  <1> QED
    BY <1>1, <1>2, <1>3, <1>4, BrokerInv, OpenInv, UnreachableInv, SubscribeInv,
       CloseInv, RegistryInv, DieInv
    DEF Next, Call

(* Every variable keeps its type, and a SUBSCRIBE under way is the one its *)
(* connection's caller wrote, for any callers and filters.                 *)
THEOREM SubscriptionsTypeCorrect == Spec => []TypeOK
  <1>1. Inv => TypeOK
    BY DEF Inv
  <1> QED BY InvInit, InvNext, <1>1, PTL DEF Spec

-----------------------------------------------------------------------------
(* A caller's record is chosen by the call's first step and kept.          *)
LEMMA WantNext ==
    ASSUME TypeOK, WantInv, [Next]_vars
    PROVE  WantInv'
  <1> DEFINE Has(l) == l \in {"add open", "add subscribe", "add close", "add record",
                            "drain open", "drain subscribe"}
  <1>1. ASSUME NEW a \in Caller, NEW l \in States,
               pc' = [pc EXCEPT ![a] = l], UNCHANGED want, Has(l) => Has(pc[a])
        PROVE  WantInv'
    BY <1>1 DEF WantInv, TypeOK
  <1>2. ASSUME NEW a \in Caller, NEW label \in States,
               NEW f \in Filter \cup {Nothing}, NEW force \in BOOLEAN,
               Start(a, label, f, force), Has(label) => f \in Filter
        PROVE  WantInv'
    BY <1>2 DEF WantInv, TypeOK, Start, Goto
  <1>3. CASE UNCHANGED <<pc, want>>
    BY <1>3 DEF WantInv
  <1>4. ASSUME NEW a \in Caller, Call(a) PROVE WantInv'
    <2>1. CASE \E f \in Filter : Add(a, f)
      BY <1>2, <2>1 DEF Add, States
    <2>2. CASE \E force \in {FALSE, MayForce} : Remove(a, force)
      BY <1>2, <2>2 DEF Remove, States
    <2>3. CASE Drain(a)
      <3>1. record \in Filter
        BY <2>3 DEF Drain, TypeOK
      <3> QED BY <1>2, <2>3, <3>1 DEF Drain, States
    <2>4. CASE Open(a)
      <3>1. UNCHANGED want /\ \E l \in States :
              pc' = [pc EXCEPT ![a] = l] /\ (Has(l) => Has(pc[a]))
        BY <2>4 DEF Open, Goto, States
      <3> QED BY <1>1, <3>1
    <2>5. CASE Unreachable(a)
      <3>1. UNCHANGED want /\ \E l \in States :
              pc' = [pc EXCEPT ![a] = l] /\ (Has(l) => Has(pc[a]))
        BY <2>5 DEF Unreachable, Goto, States
      <3> QED BY <1>1, <3>1
    <2>6. CASE Subscribe(a) \/ SubscribeRefused(a)
      <3>1. UNCHANGED want /\ \E l \in States :
              pc' = [pc EXCEPT ![a] = l] /\ (Has(l) => Has(pc[a]))
        BY <2>6 DEF Subscribe, SubscribeRefused, Goto, States
      <3> QED BY <1>1, <3>1
    <2>7. CASE Close(a)
      <3>1. UNCHANGED want /\ \E l \in States :
              pc' = [pc EXCEPT ![a] = l] /\ (Has(l) => Has(pc[a]))
        BY <2>7 DEF Close, Goto, States
      <3> QED BY <1>1, <3>1
    <2>8. CASE AddRecord(a) \/ FindRecord(a) \/ Unlink(a) \/ Die(a)
      <3>1. UNCHANGED want /\ \E l \in {"idle", "remove unlink"} :
              pc' = [pc EXCEPT ![a] = l]
        BY <2>8 DEF AddRecord, FindRecord, Unlink, Die, Goto
      <3> QED BY <1>1, <3>1 DEF States
    <2> QED BY <1>4, <2>1, <2>2, <2>3, <2>4, <2>5, <2>6, <2>7, <2>8 DEF Call
  <1>5. CASE ProcessSubscribe \/ DropConnection \/ UNCHANGED vars
    BY <1>3, <1>5 DEF ProcessSubscribe, DropConnection, call, vars
  <1> QED BY <1>4, <1>5 DEF Next

(* A success is counted by the step that creates or unlinks the record.    *)
LEMMA CountsNext ==
    ASSUME TypeOK, WantInv, RegistryCounts, [Next]_vars
    PROVE  RegistryCounts'
  <1>1. ASSUME NEW a \in Caller, AddRecord(a) PROVE RegistryCounts'
    <2>1. want[a] # Nothing
      BY <1>1 DEF AddRecord, WantInv
    <2>2. \/ record = Nothing /\ record' = want[a] /\ told' = told + 1
          \/ record' = record /\ told' = told
      BY <1>1, AddRecordCases
    <2> QED BY <2>1, <2>2 DEF RegistryCounts
  <1>2. ASSUME NEW a \in Caller, Unlink(a) PROVE RegistryCounts'
    <2>1. /\ record' = Nothing
          /\ record = Nothing => told' = told
          /\ record # Nothing => told' = told - 1
      BY <1>2, Zenon DEF Unlink
    <2> QED BY <2>1 DEF RegistryCounts
  <1>3. CASE UNCHANGED <<record, told>>
    BY <1>3 DEF RegistryCounts
  <1>4. ASSUME NEW a \in Caller, Call(a), ~AddRecord(a), ~Unlink(a)
        PROVE  UNCHANGED <<record, told>>
    BY <1>4 DEF Call, Add, Remove, Drain, Start, Open, Unreachable, Subscribe,
                SubscribeRefused, Close, FindRecord, Die
  <1>5. CASE ProcessSubscribe \/ DropConnection \/ UNCHANGED vars
    BY <1>3, <1>5 DEF ProcessSubscribe, DropConnection, vars
  <1> QED BY <1>1, <1>2, <1>3, <1>4, <1>5 DEF Next

(* Whoever adds and removes a name, in whatever order and whatever fails,  *)
(* the adds told to have succeeded are at most one more than the removes,  *)
(* and are so exactly when there is a record: os.link's exclusivity and an *)
(* unlink that must find its file (registry.py 183-246).                   *)
THEOREM RegistryIsExact == Spec => []RegistryCounts
  <1>1. Init => WantInv /\ RegistryCounts
    BY DEF Init, WantInv, RegistryCounts
  <1>2. TypeOK /\ WantInv /\ RegistryCounts /\ [Next]_vars
            => WantInv' /\ RegistryCounts'
    BY WantNext, CountsNext
  <1> QED BY <1>1, <1>2, SubscriptionsTypeCorrect, PTL DEF Spec

-----------------------------------------------------------------------------
(* While calls run one after the other: one caller is at work, a remove    *)
(* that has opened holds a connection that ends the session with itself,   *)
(* or the session is gone, and past its close() it is gone.                *)
AloneInv ==
    alone =>
        /\ \A a, b \in Caller : pc[a] # "idle" /\ pc[b] # "idle" => a = b
        /\ \A a \in Caller :
               pc[a] = "remove close" => ~session \/ (conn = a /\ expiring)
        /\ \A a \in Caller :
               pc[a] \in {"remove record", "remove unlink"} /\ ~forced[a] => ~session

(* A step of a call under way starts none.                                 *)
LEMMA StepKeepsAlone ==
    ASSUME TypeOK, AloneInv, alone,
           NEW a \in Caller, NEW l \in States, pc[a] # "idle",
           pc' = [pc EXCEPT ![a] = l]
    PROVE  /\ \A b, c \in Caller : pc'[b] # "idle" /\ pc'[c] # "idle" => b = c
           /\ pc'[a] = l
           /\ \A b \in Caller : b # a => pc'[b] = "idle"
  <1>1. \A b \in Caller : b # a => pc[b] = "idle"
    BY DEF AloneInv
  <1> QED BY <1>1 DEF TypeOK

(* A new call beside nobody has not opened; beside another it is not alone.*)
LEMMA StartAlone ==
    ASSUME TypeOK, NEW a \in Caller,
           NEW label \in {"add open", "remove open", "drain open"},
           NEW f, NEW force, Start(a, label, f, force)
    PROVE  AloneInv'
  <1> SUFFICES ASSUME alone'
               PROVE  /\ pc'[a] = label
                      /\ \A b \in Caller : b # a => pc'[b] = "idle"
    BY DEF AloneInv
  <1>1. \A b \in Caller : pc[b] = "idle"
    BY DEF Start
  <1> QED BY <1>1 DEF Start, Goto, TypeOK

LEMMA CallAlone ==
    ASSUME TypeOK, AloneInv, NEW a \in Caller,
           \/ Open(a) \/ Unreachable(a) \/ Subscribe(a) \/ SubscribeRefused(a)
           \/ Close(a) \/ AddRecord(a) \/ FindRecord(a) \/ Unlink(a) \/ Die(a)
    PROVE  AloneInv'
  <1>1. UNCHANGED <<alone, forced>> /\ pc[a] # "idle"
    BY DEF Open, Unreachable, Subscribe, SubscribeRefused, Close, AddRecord,
           FindRecord, Unlink, Die
  <1> SUFFICES ASSUME alone PROVE AloneInv'
    BY <1>1 DEF AloneInv
  <1>2. PICK l \in States : pc' = [pc EXCEPT ![a] = l]
    BY DEF Open, Unreachable, Subscribe, SubscribeRefused, Close, AddRecord,
           FindRecord, Unlink, Die, Goto, States
  <1>3. /\ \A b, c \in Caller : pc'[b] # "idle" /\ pc'[c] # "idle" => b = c
        /\ pc'[a] = l
        /\ \A b \in Caller : b # a => pc'[b] = "idle"
    BY <1>1, <1>2, StepKeepsAlone
  <1>4. SUFFICES /\ l = "remove close" => ~session' \/ (conn' = a /\ expiring')
                 /\ l \in {"remove record", "remove unlink"} /\ ~forced[a] => ~session'
    BY <1>1, <1>3 DEF AloneInv
  <1>5. CASE Open(a)
    <2>1. l = "remove close" => pc[a] = "remove open"
      BY <1>3, <1>5 DEF Open, Goto, TypeOK
    <2>2. l \notin {"remove record", "remove unlink"}
      BY <1>3, <1>5 DEF Open, Goto, TypeOK
    <2>3. pc[a] = "remove open" => conn' = a /\ expiring'
      BY <1>5 DEF Open, Bind, Clean
    <2> QED BY <2>1, <2>2, <2>3
  <1>6. CASE Unreachable(a)
    <2>1. l = "idle" \/ (l = "remove record" /\ forced[a])
      BY <1>3, <1>6 DEF Unreachable, Goto, TypeOK
    <2> QED BY <2>1
  <1>7. CASE Subscribe(a) \/ SubscribeRefused(a) \/ AddRecord(a) \/ Unlink(a) \/ Die(a)
    <2>1. l \in {"add close", "drain", "idle"}
      BY <1>3, <1>7 DEF Subscribe, SubscribeRefused, AddRecord, Unlink, Die, Goto, TypeOK
    <2> QED BY <2>1
  <1>8. CASE Close(a)
    <2>1. /\ l \notin {"remove close", "remove unlink"}
          /\ l = "remove record" => pc[a] = "remove close"
      BY <1>3, <1>8 DEF Close, Goto, TypeOK
    <2>2. pc[a] = "remove close" => ~session'
      <3>1. pc[a] = "remove close" => ~session \/ (conn = a /\ expiring)
        BY DEF AloneInv
      <3>2. conn = a => (session' <=> session /\ ~expiring)
        BY <1>8, Zenon DEF Close, Disconnected
      <3>3. conn # a => session' = session
        BY <1>8 DEF Close, broker
      <3> QED BY <3>1, <3>2, <3>3
    <2> QED BY <2>1, <2>2
  <1>9. CASE FindRecord(a)
    <2>1. l \in {"idle", "remove unlink"} /\ pc[a] = "remove record"
      BY <1>3, <1>9 DEF FindRecord, Goto, TypeOK
    <2>2. session' = session
      BY <1>9 DEF FindRecord, broker
    <2> QED BY <2>1, <2>2 DEF AloneInv
  <1> QED BY <1>5, <1>6, <1>7, <1>8, <1>9

LEMMA AloneNext ==
    ASSUME TypeOK, AloneInv, [Next]_vars
    PROVE  AloneInv'
  <1>1. ASSUME NEW a \in Caller, Call(a) PROVE AloneInv'
    <2>1. CASE \E f \in Filter : Add(a, f)
      BY <2>1, StartAlone DEF Add
    <2>2. CASE \E force \in {FALSE, MayForce} : Remove(a, force)
      BY <2>2, StartAlone DEF Remove
    <2>3. CASE Drain(a)
      BY <2>3, StartAlone DEF Drain
    <2> QED BY <1>1, <2>1, <2>2, <2>3, CallAlone DEF Call
  <1>2. CASE ProcessSubscribe
    BY <1>2 DEF ProcessSubscribe, AloneInv, call
  <1>3. CASE DropConnection
    <2>1. session' <=> session /\ ~expiring
      BY <1>3, Zenon DEF DropConnection, Disconnected
    <2>2. UNCHANGED <<pc, forced, alone>>
      BY <1>3 DEF DropConnection, call
    <2> QED BY <2>1, <2>2 DEF AloneInv
  <1>4. CASE UNCHANGED vars
    BY <1>4 DEF AloneInv, vars
  <1> QED BY <1>1, <1>2, <1>3, <1>4 DEF Next

(* Only an unlink takes a record away, and it leaves the broker alone.     *)
LEMMA GoneIsUnlinked ==
    ASSUME TypeOK, WantInv, [Next]_vars, record # Nothing, record' = Nothing
    PROVE  session' = session
  <1>1. PICK a \in Caller : AddRecord(a) \/ Unlink(a)
    BY DEF Next, Call, Add, Remove, Drain, Start, Open, Unreachable, Subscribe,
           SubscribeRefused, Close, FindRecord, Die, ProcessSubscribe,
           DropConnection, vars
  <1> QED BY <1>1 DEF AddRecord, Unlink, broker

(* A remove that runs alone and without --force unlinks the record only    *)
(* when the session is destroyed (subs/__init__.py 196-227), whatever dies *)
(* or drops on the way, for any callers, filters and bounds.               *)
THEOREM RemoveIsOrdered == Spec => RemoveDestroys
  <1>1. Init => WantInv /\ AloneInv
    BY DEF Init, WantInv, AloneInv
  <1>2. TypeOK /\ WantInv /\ AloneInv /\ [Next]_vars => WantInv' /\ AloneInv'
    BY WantNext, AloneNext
  <1>3. TypeOK /\ WantInv /\ AloneInv /\ [Next]_vars
            => [\A a \in Caller :
                   pc[a] = "remove unlink" /\ pc'[a] = "idle" /\ record # Nothing
                       /\ record' = Nothing /\ ~forced[a] /\ alone => ~session']_vars
    BY GoneIsUnlinked DEF AloneInv
  <1> QED
    BY <1>1, <1>2, <1>3, SubscriptionsTypeCorrect, PTL DEF Spec, RemoveDestroys

-----------------------------------------------------------------------------
(* RecordedIsHeard between the steps of a call.  While calls run one after *)
(* the other, nothing drops a connection and at most one thing fails, a    *)
(* call that is connected has the connection; an add registers a filter    *)
(* its session is subscribed to; and a drain that has to subscribe has     *)
(* found a session lost to the failure, so nothing else may fail.          *)
Undisturbed == alone /\ faults <= 1 /\ drops = 0

Stage(a) ==
    /\ pc[a] \in Connected => conn = a
    /\ pc[a] \in {"add open", "add subscribe", "add close", "add record"} =>
           record = Nothing
    /\ pc[a] = "add close" => want[a] \in filters \cup {wire}
    /\ pc[a] = "add record" => want[a] \in filters
    /\ pc[a] \in {"drain open", "drain subscribe", "drain"} =>
           record # Nothing /\ record = want[a]
    /\ pc[a] = "drain subscribe" => faults = 1
    /\ pc[a] = "drain" => record \in filters \/ (wire = record /\ faults = 1)

(* No connection ends the session with itself but that of a remove; a      *)
(* session is deaf to its record only while a call is about to mend that   *)
(* or to destroy it; and before anything has failed a record has a         *)
(* session, unless a remove is about to unlink it.                         *)
Hearing ==
    /\ expiring => \E a \in Caller : pc[a] = "remove close"
    /\ (\A a \in Caller : pc[a] \notin {"remove close", "drain subscribe", "drain"})
           => (record # Nothing /\ session => record \in filters)
    /\ faults = 0 /\ record # Nothing
           /\ (\A a \in Caller : pc[a] \notin {"remove record", "remove unlink"})
           => session

HeardInv == Undisturbed => (\A a \in Caller : Stage(a)) /\ Hearing

(* Hearing, of the one call that may be under way.                         *)
HearingOf(a) ==
    /\ expiring => pc[a] = "remove close"
    /\ pc[a] \notin {"remove close", "drain subscribe", "drain"}
           => (record # Nothing /\ session => record \in filters)
    /\ faults = 0 /\ record # Nothing
           /\ pc[a] \notin {"remove record", "remove unlink"} => session

Only(a) == \A b \in Caller : b # a => pc[b] = "idle"

(* What holds before a step of the call under way.                         *)
LEMMA BeforeStep ==
    ASSUME Inv, AloneInv, HeardInv, Undisturbed, NEW a \in Caller, Only(a)
    PROVE  Stage(a) /\ HearingOf(a) /\ conn \in {a, Nobody}
  <1>1. Stage(a) /\ Hearing
    BY DEF HeardInv
  <1>2. HearingOf(a)
    BY <1>1 DEF Hearing, HearingOf, Only
  <1>3. conn \in {a, Nobody}
    BY DEF Inv, TypeOK, ConnInv, Connected, Only
  <1> QED BY <1>1, <1>2, <1>3

(* What has to hold after it: an idle caller's Stage says nothing.         *)
LEMMA AfterStep ==
    ASSUME NEW a \in Caller, Only(a)', Undisturbed' => Stage(a)' /\ HearingOf(a)'
    PROVE  HeardInv'
  <1> SUFFICES ASSUME Undisturbed' PROVE (\A b \in Caller : Stage(b)') /\ Hearing'
    BY DEF HeardInv
  <1>1. ASSUME NEW b \in Caller, b # a PROVE Stage(b)'
    <2>1. pc'[b] = "idle"
      BY <1>1 DEF Only
    <2> QED BY <2>1 DEF Stage, Connected
  <1>2. Hearing'
    BY DEF Hearing, HearingOf, Only
  <1> QED BY <1>1, <1>2

(* A call starts where the one before it has ended.                        *)
LEMMA HeardStart ==
    ASSUME Inv, AloneInv, HeardInv, NEW a \in Caller,
           \/ \E f \in Filter : Add(a, f)
           \/ \E force \in {FALSE, MayForce} : Remove(a, force)
           \/ Drain(a)
    PROVE  HeardInv'
  <1>1. PICK label \in {"add open", "remove open", "drain open"},
             f \in Filter \cup {Nothing}, force \in BOOLEAN :
             /\ Start(a, label, f, force)
             /\ label = "add open" => record = Nothing
             /\ label = "drain open" => record # Nothing /\ f = record
    BY DEF Add, Remove, Drain, Inv, TypeOK
  <1> SUFFICES ASSUME Undisturbed' PROVE HeardInv'
    BY DEF HeardInv
  <1>2. UNCHANGED <<record, session, filters, conn, expiring, wire, faults, drops>>
    BY <1>1 DEF Start, broker, bounds
  <1>3. Undisturbed /\ \A b \in Caller : pc[b] = "idle"
    BY <1>1, <1>2 DEF Undisturbed, Start
  <1>4. pc'[a] = label /\ want'[a] = f /\ Only(a)'
    BY <1>1, <1>3 DEF Start, Goto, Only, Inv, TypeOK
  <1>5. HearingOf(a) /\ ~expiring
    BY <1>3, BeforeStep DEF Only, HearingOf
  <1>6. Stage(a)'
    BY <1>1, <1>2, <1>4 DEF Stage, Connected
  <1>7. HearingOf(a)'
    BY <1>2, <1>3, <1>4, <1>5 DEF HearingOf
  <1> QED BY <1>4, <1>6, <1>7, AfterStep

(* What every later step of a call has in common.                          *)
LEMMA HeardCall ==
    ASSUME Inv, AloneInv, HeardInv, Undisturbed', NEW a \in Caller,
           \/ Open(a) \/ Unreachable(a) \/ Subscribe(a) \/ SubscribeRefused(a)
           \/ Close(a) \/ AddRecord(a) \/ FindRecord(a) \/ Unlink(a) \/ Die(a)
    PROVE  /\ Only(a)' /\ Stage(a) /\ HearingOf(a) /\ conn \in {a, Nobody}
           /\ UNCHANGED <<want, forced>> /\ faults \in Nat
           /\ \E l \in States : pc' = [pc EXCEPT ![a] = l] /\ pc'[a] = l
  <1>1. UNCHANGED <<alone, want, forced, drops>> /\ pc[a] # "idle"
    BY DEF Open, Unreachable, Subscribe, SubscribeRefused, Close, AddRecord,
           FindRecord, Unlink, Die, bounds
  <1>2. faults' = faults \/ faults' = faults + 1
    BY DEF Open, Unreachable, Subscribe, SubscribeRefused, Close, AddRecord,
           FindRecord, Unlink, Die, bounds
  <1>3. faults \in Nat
    BY DEF Inv, TypeOK
  <1>4. Undisturbed
    BY <1>1, <1>2, <1>3 DEF Undisturbed
  <1>5. PICK l \in States : pc' = [pc EXCEPT ![a] = l]
    BY DEF Open, Unreachable, Subscribe, SubscribeRefused, Close, AddRecord,
           FindRecord, Unlink, Die, Goto, States
  <1>6. alone /\ TypeOK
    BY <1>4 DEF Undisturbed, Inv
  <1>7. Only(a)' /\ pc'[a] = l
    BY <1>1, <1>5, <1>6, StepKeepsAlone DEF Only
  <1>8. Only(a)
    BY <1>1, <1>6 DEF AloneInv, Only
  <1> QED BY <1>1, <1>3, <1>4, <1>5, <1>7, <1>8, BeforeStep

(* A drain that resumes the session finds it subscribed; one that does not *)
(* comes after the failure.                                                *)
LEMMA HeardOpen ==
    ASSUME Inv, WantInv, AloneInv, HeardInv, NEW a \in Caller, Open(a)
    PROVE  HeardInv'
  <1> SUFFICES ASSUME Undisturbed' PROVE HeardInv'
    BY DEF HeardInv
  <1>1. /\ Only(a)' /\ Stage(a) /\ HearingOf(a) /\ conn \in {a, Nobody}
        /\ UNCHANGED <<want, forced>> /\ faults \in Nat
        /\ \E l \in States : pc' = [pc EXCEPT ![a] = l] /\ pc'[a] = l
    BY HeardCall
  <1>2. UNCHANGED <<record, faults>>
    BY DEF Open, bounds
  <1>3. conn = Nobody /\ ~expiring
    BY <1>1 DEF Open, Inv, ConnInv, Connected, HearingOf
  <1>4. session' /\ conn' = a /\ wire' = Nothing
    BY DEF Open, Bind
  <1>5. expiring' => pc[a] = "remove open"
    BY DEF Open, Bind, Clean
  <1>6. Resumed(a) => session /\ filters' = filters
    BY DEF Open, Bind, Resumed
  <1>7. pc[a] # "remove open" /\ session => Resumed(a)
    BY <1>3 DEF Resumed, Clean
  <1>8. pc \in [Caller -> States]
    BY DEF Inv, TypeOK
  <1>9. CASE pc[a] = "add open"
    <2>1. pc'[a] = "add subscribe" /\ record = Nothing
      BY <1>1, <1>9, <1>8 DEF Open, Goto, Stage
    <2> QED BY <1>1, <1>2, <1>4, <1>5, <1>9, <2>1, AfterStep DEF Stage, HearingOf, Connected
  <1>10. CASE pc[a] = "remove open"
    <2>1. pc'[a] = "remove close"
      BY <1>1, <1>10, <1>8 DEF Open, Goto
    <2> QED BY <1>1, <1>4, <2>1, AfterStep DEF Stage, HearingOf, Connected
  <1>11. CASE pc[a] = "drain open" /\ Resumed(a)
    <2>1. pc'[a] = "drain" /\ record # Nothing /\ record = want[a]
      BY <1>1, <1>11, <1>8 DEF Open, Goto, Stage
    <2>2. record \in filters'
      BY <1>1, <1>6, <1>11, <2>1 DEF HearingOf
    <2> QED BY <1>1, <1>2, <1>4, <1>5, <1>11, <2>1, <2>2, AfterStep
            DEF Stage, HearingOf, Connected
  <1>12. CASE pc[a] = "drain open" /\ ~Resumed(a)
    <2>1. pc'[a] = "drain subscribe" /\ record # Nothing /\ record = want[a]
      BY <1>1, <1>12, <1>8 DEF Open, Goto, Stage
    <2>2. faults = 1
      <3>1. faults # 0
        BY <1>1, <1>7, <1>12, <2>1 DEF HearingOf
      <3> QED BY <1>1, <1>2, <3>1 DEF Undisturbed
    <2> QED BY <1>1, <1>2, <1>4, <1>5, <1>12, <2>1, <2>2, AfterStep
            DEF Stage, HearingOf, Connected
  <1> QED BY <1>9, <1>10, <1>11, <1>12 DEF Open

(* The one failure: the session an add made is not the record's, a remove  *)
(* may leave none, and a drain that finds none will subscribe.             *)
LEMMA HeardUnreachable ==
    ASSUME Inv, WantInv, AloneInv, HeardInv, NEW a \in Caller, Unreachable(a)
    PROVE  HeardInv'
  <1> SUFFICES ASSUME Undisturbed' PROVE HeardInv'
    BY DEF HeardInv
  <1>1. /\ Only(a)' /\ Stage(a) /\ HearingOf(a) /\ conn \in {a, Nobody}
        /\ UNCHANGED <<want, forced>> /\ faults \in Nat
        /\ \E l \in States : pc' = [pc EXCEPT ![a] = l] /\ pc'[a] = l
    BY HeardCall
  <1>2. record' = record /\ faults = 0 /\ faults' # 0
    <2>1. record' = record /\ faults' = faults + 1
      BY DEF Unreachable
    <2>2. faults \in Nat /\ faults' <= 1
      BY <1>1 DEF Undisturbed
    <2> QED BY <2>1, <2>2
  <1>3. ~expiring
    BY <1>1 DEF Unreachable, HearingOf
  <1>4. pc'[a] \in {"idle", "remove record"}
    BY DEF Unreachable, Goto, Inv, TypeOK
  <1>5. Stage(a)'
    BY <1>4 DEF Stage, Connected
  <1>6. record # Nothing /\ session => record \in filters
    BY <1>1 DEF Unreachable, HearingOf
  <1>7. ~expiring' /\ (record # Nothing /\ session' => record \in filters')
    <2>1. CASE UNCHANGED broker
      BY <1>3, <1>6, <2>1 DEF broker
    <2>2. CASE /\ session' = ~Clean(a)
               /\ filters' = IF Resumed(a) THEN filters ELSE {}
               /\ conn' = Nobody /\ expiring' = FALSE /\ wire' = Nothing
      <3>1. session' => ~Clean(a)
        BY <2>2, Zenon
      <3>2. Resumed(a) => session /\ filters' = filters
        BY <2>2 DEF Resumed
      <3>3. record # Nothing /\ ~Clean(a) => Resumed(a)
        <4>1. ~Clean(a) => pc[a] \in {"add open", "drain open"}
          BY DEF Unreachable, Clean
        <4>2. record # Nothing /\ ~Clean(a) => session
          BY <1>1, <1>2, <4>1 DEF Stage, HearingOf
        <4> QED BY <1>3, <4>2 DEF Resumed
      <3> QED BY <1>2, <1>6, <2>2, <3>1, <3>2, <3>3
    <2> QED BY <2>1, <2>2 DEF Unreachable
  <1>8. HearingOf(a)'
    BY <1>2, <1>7 DEF HearingOf
  <1> QED BY <1>1, <1>5, <1>8, AfterStep

(* Nobody else has taken the connection, so the SUBSCRIBE is on its way.   *)
LEMMA HeardSubscribe ==
    ASSUME Inv, WantInv, AloneInv, HeardInv, NEW a \in Caller,
           Subscribe(a) \/ SubscribeRefused(a)
    PROVE  HeardInv'
  <1> SUFFICES ASSUME Undisturbed' PROVE HeardInv'
    BY DEF HeardInv
  <1>1. /\ Only(a)' /\ Stage(a) /\ HearingOf(a) /\ conn \in {a, Nobody}
        /\ UNCHANGED <<want, forced>> /\ faults \in Nat
        /\ \E l \in States : pc' = [pc EXCEPT ![a] = l] /\ pc'[a] = l
    BY HeardCall
  <1>2. pc[a] \in {"add subscribe", "drain subscribe"} /\ conn = a
    BY <1>1 DEF Subscribe, SubscribeRefused, Stage, Connected
  <1>3. /\ UNCHANGED <<record, session, filters, conn, expiring, want, faults>>
        /\ wire' = want[a] /\ pc \in [Caller -> States]
    BY <1>2 DEF Subscribe, SubscribeRefused, Inv, TypeOK, bounds
  <1>4. ~expiring
    BY <1>1, <1>2 DEF HearingOf
  <1>5. CASE pc[a] = "add subscribe"
    <2>1. pc'[a] = "add close" /\ record = Nothing
      BY <1>1, <1>2, <1>3, <1>5 DEF Subscribe, SubscribeRefused, Goto, Stage
    <2> QED BY <1>1, <1>2, <1>3, <1>4, <2>1, AfterStep DEF Stage, HearingOf, Connected
  <1>6. CASE pc[a] = "drain subscribe"
    <2>1. pc'[a] = "drain" /\ record # Nothing /\ record = want[a] /\ faults = 1
      BY <1>1, <1>2, <1>3, <1>6 DEF Subscribe, SubscribeRefused, Goto, Stage
    <2> QED BY <1>1, <1>2, <1>3, <1>4, <2>1, AfterStep DEF Stage, HearingOf, Connected
  <1> QED BY <1>2, <1>5, <1>6

(* The broker has read everything a connection wrote before its end.       *)
LEMMA HeardClose ==
    ASSUME Inv, WantInv, AloneInv, HeardInv, NEW a \in Caller, Close(a)
    PROVE  HeardInv'
  <1> SUFFICES ASSUME Undisturbed' PROVE HeardInv'
    BY DEF HeardInv
  <1>1. /\ Only(a)' /\ Stage(a) /\ HearingOf(a) /\ conn \in {a, Nobody}
        /\ UNCHANGED <<want, forced>> /\ faults \in Nat
        /\ \E l \in States : pc' = [pc EXCEPT ![a] = l] /\ pc'[a] = l
    BY HeardCall
  <1>2. conn = a
    BY <1>1 DEF Close, Stage, Connected
  <1>3. wire = Nothing /\ Disconnected
    BY <1>2, Zenon DEF Close
  <1>4. /\ UNCHANGED <<record, faults>> /\ ~expiring'
        /\ session' => session /\ ~expiring
        /\ ~expiring => filters' = filters /\ (session => session')
    BY <1>3 DEF Close, Disconnected, bounds
  <1>5. pc \in [Caller -> States]
    BY DEF Inv, TypeOK
  <1>6. CASE pc[a] = "add close"
    <2>1. pc'[a] = "add record" /\ record = Nothing
      BY <1>1, <1>5, <1>6 DEF Close, Goto, Stage
    <2>2. want[a] \in filters /\ ~expiring
      BY <1>1, <1>3, <1>6 DEF Stage, HearingOf, WantInv
    <2> QED BY <1>1, <1>4, <2>1, <2>2, AfterStep DEF Stage, HearingOf, Connected
  <1>7. CASE pc[a] = "remove close"
    <2>1. pc'[a] = "remove record"
      BY <1>1, <1>5, <1>7 DEF Close, Goto
    <2>2. ~session'
      <3>1. alone
        BY DEF Undisturbed, Close
      <3> QED BY <1>4, <1>7, <3>1 DEF AloneInv
    <2> QED BY <1>1, <1>4, <2>1, <2>2, AfterStep DEF Stage, HearingOf, Connected
  <1>8. CASE pc[a] = "drain"
    <2>1. pc'[a] = "idle"
      BY <1>1, <1>5, <1>8 DEF Close, Goto
    <2>2. record \in filters /\ ~expiring /\ (faults = 0 => session)
      BY <1>1, <1>3, <1>8 DEF Stage, HearingOf
    <2> QED BY <1>1, <1>4, <2>1, <2>2, AfterStep DEF Stage, HearingOf, Connected
  <1> QED BY <1>6, <1>7, <1>8 DEF Close

(* The record an add writes is one its session is subscribed to.           *)
LEMMA HeardRegistry ==
    ASSUME Inv, WantInv, AloneInv, HeardInv, NEW a \in Caller,
           AddRecord(a) \/ FindRecord(a) \/ Unlink(a)
    PROVE  HeardInv'
  <1> SUFFICES ASSUME Undisturbed' PROVE HeardInv'
    BY DEF HeardInv
  <1>1. /\ Only(a)' /\ Stage(a) /\ HearingOf(a) /\ conn \in {a, Nobody}
        /\ UNCHANGED <<want, forced>> /\ faults \in Nat
        /\ \E l \in States : pc' = [pc EXCEPT ![a] = l] /\ pc'[a] = l
    BY HeardCall
  <1>2. /\ UNCHANGED <<session, filters, expiring, faults>>
        /\ pc \in [Caller -> States] /\ (filters # {} => session)
    BY DEF AddRecord, FindRecord, Unlink, broker, bounds, Inv, TypeOK
  <1>3. pc'[a] \in {"idle", "remove unlink"} /\ ~expiring
    BY <1>1, <1>2 DEF AddRecord, FindRecord, Unlink, Goto, HearingOf
  <1>4. Stage(a)'
    BY <1>3 DEF Stage, Connected
  <1>5. CASE AddRecord(a)
    <2>1. record = Nothing /\ want[a] \in filters
      BY <1>1, <1>5 DEF AddRecord, Stage
    <2>2. record' = want[a]
      BY <1>5, <2>1, AddRecordCases DEF AddRecord
    <2> QED BY <1>1, <1>2, <1>3, <1>4, <2>1, <2>2, AfterStep DEF HearingOf
  <1>6. CASE FindRecord(a)
    <2>1. record' = record /\ (pc'[a] = "idle" => record = Nothing)
          /\ pc[a] = "remove record"
      BY <1>2, <1>6 DEF FindRecord, Goto
    <2> QED BY <1>1, <1>2, <1>3, <1>4, <2>1, AfterStep DEF HearingOf
  <1>7. CASE Unlink(a)
    <2>1. record' = Nothing
      BY <1>7 DEF Unlink
    <2> QED BY <1>1, <1>2, <1>3, <1>4, <2>1, AfterStep DEF HearingOf
  <1> QED BY <1>5, <1>6, <1>7

(* The one failure is this death: no call has to mend another.             *)
LEMMA HeardDie ==
    ASSUME Inv, WantInv, AloneInv, HeardInv, NEW a \in Caller, Die(a)
    PROVE  HeardInv'
  <1> SUFFICES ASSUME Undisturbed' PROVE HeardInv'
    BY DEF HeardInv
  <1>1. /\ Only(a)' /\ Stage(a) /\ HearingOf(a) /\ conn \in {a, Nobody}
        /\ UNCHANGED <<want, forced>> /\ faults \in Nat
        /\ \E l \in States : pc' = [pc EXCEPT ![a] = l] /\ pc'[a] = l
    BY HeardCall
  <1>2. record' = record /\ faults = 0 /\ faults' # 0
    <2>1. record' = record /\ faults' = faults + 1
      BY DEF Die
    <2>2. faults \in Nat /\ faults' <= 1
      BY <1>1 DEF Undisturbed
    <2> QED BY <2>1, <2>2
  <1>3. pc'[a] = "idle"
    BY DEF Die, Goto, Inv, TypeOK
  <1>4. Stage(a)'
    BY <1>3 DEF Stage, Connected
  <1>5. /\ conn = a => session' = (session /\ ~expiring) /\ ~expiring'
                       /\ filters' = IF expiring THEN {} ELSE filters
        /\ conn # a => UNCHANGED <<session, filters, expiring>>
    BY DEF Die, Disconnected, broker
  <1>6. CASE pc[a] = "remove close"
    <2>1. alone
      BY DEF Undisturbed, Die
    <2>2. conn = a /\ (~session \/ expiring)
      BY <1>1, <1>6, <2>1 DEF Stage, Connected, AloneInv
    <2>3. ~session' /\ ~expiring'
      BY <1>5, <2>2
    <2> QED BY <1>1, <1>2, <1>4, <2>3, AfterStep DEF HearingOf
  <1>7. CASE pc[a] # "remove close"
    <2>1. ~expiring
      BY <1>1, <1>7 DEF HearingOf
    <2>2. pc[a] # "drain subscribe" /\ (pc[a] = "drain" => record \in filters)
      <3>1. Stage(a) /\ faults # 1
        BY <1>1, <1>2
      <3> QED BY <3>1 DEF Stage
    <2>3. record # Nothing /\ session => record \in filters
      BY <1>1, <1>7, <2>2 DEF HearingOf
    <2>4. ~expiring' /\ (session' => session)
      <3>1. CASE conn = a
        BY <1>5, <2>1, <3>1, Zenon
      <3>2. CASE conn # a
        BY <1>5, <2>1, <3>2
      <3> QED BY <3>1, <3>2
    <2>5. filters' = filters
      BY <1>5, <2>1
    <2> QED BY <1>1, <1>2, <1>4, <2>3, <2>4, <2>5, AfterStep DEF HearingOf
  <1> QED BY <1>6, <1>7

(* The broker alone only adds to what is heard.                            *)
LEMMA HeardNext ==
    ASSUME Inv, WantInv, AloneInv, HeardInv, [Next]_vars
    PROVE  HeardInv'
  <1>1. CASE \E a \in Caller : Call(a)
    BY <1>1, HeardStart, HeardOpen, HeardUnreachable, HeardSubscribe, HeardClose,
       HeardRegistry, HeardDie DEF Call
  <1>2. CASE ProcessSubscribe
    <2>1. /\ UNCHANGED <<record, session, conn, expiring, pc, want, alone, faults, drops>>
          /\ wire # Nothing /\ filters' = filters \cup {wire} /\ wire' = Nothing
      BY <1>2 DEF ProcessSubscribe, call, bounds
    <2>2. Undisturbed' => Undisturbed
      BY <2>1 DEF Undisturbed
    <2>3. (\A a \in Caller : Stage(a)) => (\A a \in Caller : Stage(a)')
      BY <2>1 DEF Stage
    <2>4. Hearing => Hearing'
      BY <2>1 DEF Hearing
    <2> QED BY <2>2, <2>3, <2>4 DEF HeardInv
  <1>3. CASE DropConnection
    <2>1. drops \in Nat /\ drops' = drops + 1
      BY <1>3 DEF DropConnection, Inv, TypeOK
    <2>2. drops' # 0
      BY <2>1
    <2> QED BY <2>2 DEF HeardInv, Undisturbed
  <1>4. CASE UNCHANGED vars
    BY <1>4 DEF HeardInv, Undisturbed, Stage, Hearing, vars
  <1> QED BY <1>1, <1>2, <1>3, <1>4 DEF Next

(* When calls run one after the other, nothing drops a connection and at   *)
(* most one process dies or finds the broker unreachable, a session with a *)
(* record is subscribed to the record's filter whenever nobody is calling: *)
(* an add connects, subscribes and closes before it registers, a remove    *)
(* destroys before it unlinks (subs/__init__.py 146-232), and a drain that *)
(* resumes a session need not subscribe (drain.py 268-269).  For any       *)
(* callers and filters.                                                    *)
THEOREM RecordsAreHeard == Spec => []RecordedIsHeard
  <1>1. Init => Inv /\ WantInv /\ AloneInv /\ HeardInv
    <2>1. Init => HeardInv
      BY DEF Init, HeardInv, Stage, Hearing, Connected
    <2> QED BY <2>1, InvInit DEF Init, WantInv, AloneInv
  <1>2. Inv /\ WantInv /\ AloneInv /\ HeardInv /\ [Next]_vars
            => Inv' /\ WantInv' /\ AloneInv' /\ HeardInv'
    BY InvNext, WantNext, AloneNext, HeardNext DEF Inv
  <1>3. HeardInv => RecordedIsHeard
    BY DEF HeardInv, Hearing, Undisturbed, RecordedIsHeard, Heard, Quiet
  <1> QED BY <1>1, <1>2, <1>3, PTL DEF Spec
=============================================================================
