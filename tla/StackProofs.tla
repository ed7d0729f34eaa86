----------------------------- MODULE StackProofs -----------------------------
(***************************************************************************)
(* Theorems about Stack, for any number of operators and any bounds on     *)
(* calls, faults, edits and foreign listeners.                             *)
(***************************************************************************)
EXTENDS Stack, TLAPS

UpSteps == {"probe", "identify", "compose up", "wait"}

(* The files of a stack are never removed: whoever has found both finds    *)
(* them again, and so does a container that starts again.                  *)
Ready ==
    /\ \A o \in Operator :
           pc[o] \in UpSteps \/ advice[o] = "reproduce up" => IsInitialised
    /\ broker # "none" => IsInitialised

(* Who runs a command has not been told that all is well.                  *)
Busy == \A o \in Operator : pc[o] # "ready" => advice[o] # "fine"

(* A container that runs has its port.                                     *)
Bound == Running => ~Clash(on, foreign)

(* While compose.yaml is not what init writes, no init that was not forced *)
(* is writing, and a forced one has not started to.                        *)
Careful ==
    compose \in Address \ {"template"} =>
        \A o \in Operator : pc[o] \in InitSteps => pc[o] = "truncate compose" /\ o \in forced

OperatorStep(o) ==
    \/ Step(o) \/ Follow(o) \/ Status(o)
    \/ IdentifyFails(o) \/ WaitExpires(o) \/ Killed(o)

(* A counter that stays below its bound counts on within it.               *)
LEMMA Counts ==
    ASSUME NEW max \in Nat, NEW n \in 0..max, n < max
    PROVE  n + 1 \in 0..max
OBVIOUS

(* A call takes no more than the bound on calls allows.                    *)
LEMMA CallCounts ==
    ASSUME TypeOK, NEW o \in Operator, NEW c, Call(o, c)
    PROVE  calls' \in 0..MaxCalls
<1>1. calls \in 0..MaxCalls
  BY DEF TypeOK
<1>2. calls' = calls \/ (calls < MaxCalls /\ calls' = calls + 1)
  BY DEF Call
<1> QED
  BY <1>1, <1>2, Counts, BoundsAssumption

(* Every step of an operator keeps the types.                              *)
LEMMA OperatorTypes ==
    ASSUME TypeOK, Ready, NEW o \in Operator, OperatorStep(o)
    PROVE  TypeOK'
<1> USE DEF counters, operators, docker, files, Finish, Goto, Advise, Begin, InitSteps
<1>1. CASE InitRefused(o) \/ InitAccepted(o) \/ InitForced(o) \/ Up(o) \/ Down(o)
  <2>1. calls' \in 0..MaxCalls
    BY <1>1, CallCounts DEF InitRefused, InitAccepted, InitForced, Up, Down
  <2>2. CASE InitRefused(o)
    BY <2>1, <2>2 DEF TypeOK, InitRefused
  <2>3. CASE InitAccepted(o)
    BY <2>1, <2>3 DEF TypeOK, InitAccepted
  <2>4. CASE InitForced(o)
    BY <2>1, <2>4 DEF TypeOK, InitForced
  <2>5. CASE Up(o)
    BY <2>1, <2>5 DEF TypeOK, Up
  <2>6. CASE Down(o)
    BY <2>1, <2>6 DEF TypeOK, Down, ComposeDown
  <2> QED
    BY <1>1, <2>2, <2>3, <2>4, <2>5, <2>6
<1>2. CASE InitWrites(o)
  BY <1>2, AddressAssumption DEF TypeOK, InitWrites
<1>3. CASE Probe(o)
  BY <1>3 DEF TypeOK, Probe
<1>4. CASE Identify(o)
  BY <1>4 DEF TypeOK, Identify
<1>5. CASE ComposeUp(o)
  <2>1. compose # "absent" /\ conf # "absent"
    BY <1>5 DEF Ready, UpSteps, ComposeUp, IsInitialised
  <2> QED
    BY <1>5, <2>1 DEF TypeOK, ComposeUp, Running
<1>6. CASE Wait(o)
  BY <1>6 DEF TypeOK, Wait
<1>7. CASE Query(o)
  BY <1>7 DEF TypeOK, Query
<1>8. CASE StopOwner(o) \/ Reproduce(o)
  BY <1>8 DEF TypeOK, StopOwner, Reproduce, ComposeDown, Running
<1>9. CASE Status(o)
  BY <1>9 DEF TypeOK, Status
<1>10. CASE IdentifyFails(o)
  <2>1. faults' \in 0..MaxFaults
    <3>1. faults \in 0..MaxFaults /\ faults < MaxFaults /\ faults' = faults + 1
      BY <1>10 DEF TypeOK, IdentifyFails
    <3> QED
      BY <3>1, Counts, BoundsAssumption
  <2> QED
    BY <1>10, <2>1 DEF TypeOK, IdentifyFails
<1>11. CASE WaitExpires(o)
  BY <1>11 DEF TypeOK, WaitExpires
<1>12. CASE Killed(o)
  <2>1. faults' \in 0..MaxFaults
    <3>1. faults \in 0..MaxFaults /\ faults < MaxFaults /\ faults' = faults + 1
      BY <1>12 DEF TypeOK, Killed
    <3> QED
      BY <3>1, Counts, BoundsAssumption
  <2> QED
    BY <1>12, <2>1 DEF TypeOK, Killed
<1> QED
  BY <1>1, <1>2, <1>3, <1>4, <1>5, <1>6, <1>7, <1>8, <1>9, <1>10, <1>11, <1>12
     DEF OperatorStep, Step, Follow

(* Nothing else on the host breaks them either.                            *)
LEMMA HostTypes ==
    ASSUME TypeOK, Ready, Host \/ Edit \/ ForeignStarts \/ BrokerDies
    PROVE  TypeOK'
<1> USE DEF operators, docker, files, counters, InitSteps
<1>1. CASE BrokerChecked
  BY <1>1 DEF TypeOK, BrokerChecked
<1>2. CASE BrokerRestarts
  BY <1>2 DEF TypeOK, Ready, IsInitialised, BrokerRestarts
<1>3. CASE Edit
  <2>1. edits' \in 0..MaxEdits
    <3>1. edits \in 0..MaxEdits /\ edits < MaxEdits /\ edits' = edits + 1
      BY <1>3 DEF TypeOK, Edit
    <3> QED
      BY <3>1, Counts, BoundsAssumption
  <2> QED
    BY <1>3, <2>1 DEF TypeOK, Edit
<1>4. CASE ForeignStarts
  <2>1. foreigns' \in 0..MaxForeign
    <3>1. foreigns \in 0..MaxForeign /\ foreigns < MaxForeign /\ foreigns' = foreigns + 1
      BY <1>4 DEF TypeOK, ForeignStarts
    <3> QED
      BY <3>1, Counts, BoundsAssumption
  <2> QED
    BY <1>4, <2>1 DEF TypeOK, ForeignStarts
<1>5. CASE BrokerDies
  <2>1. faults' \in 0..MaxFaults
    <3>1. faults \in 0..MaxFaults /\ faults < MaxFaults /\ faults' = faults + 1
      BY <1>5 DEF TypeOK, BrokerDies
    <3> QED
      BY <3>1, Counts, BoundsAssumption
  <2> QED
    BY <1>5, <2>1 DEF TypeOK, BrokerDies, Running
<1> QED
  BY <1>1, <1>2, <1>3, <1>4, <1>5 DEF Host

-----------------------------------------------------------------------------
(* Files stay, and a command that needs both has found both.               *)
LEMMA ReadyStep ==
    ASSUME TypeOK, Ready, [Next]_vars
    PROVE  Ready'
<1> USE DEF counters, operators, docker, files, Finish, Goto, Advise, Begin, InitSteps
<1>1. IsInitialised => IsInitialised'
  <2>1. CASE \E o \in Operator : InitWrites(o)
    BY <2>1, AddressAssumption DEF InitWrites, IsInitialised
  <2>2. CASE Edit
    BY <2>2, AddressAssumption DEF Edit, IsInitialised, TypeOK
  <2>3. CASE UNCHANGED files
    BY <2>3 DEF IsInitialised
  <2> QED
    BY <2>1, <2>2, <2>3
       DEF Next, Step, Follow, Host, InitRefused, InitAccepted, InitForced, Up, Probe,
           Identify, IdentifyFails, ComposeUp, Wait, WaitExpires, Status, Query, Down,
           ComposeDown, StopOwner, Reproduce, Killed, ForeignStarts, BrokerChecked,
           BrokerDies, BrokerRestarts, vars
<1>2. ASSUME NEW p \in Operator, pc'[p] \in UpSteps \/ advice'[p] = "reproduce up"
      PROVE  IsInitialised \/ pc[p] \in UpSteps \/ advice[p] = "reproduce up"
  <2>1. ASSUME NEW o \in Operator, OperatorStep(o)
        PROVE  IsInitialised \/ pc[p] \in UpSteps \/ advice[p] = "reproduce up"
    <3>1. CASE InitRefused(o) \/ InitAccepted(o) \/ InitForced(o) \/ InitWrites(o)
      BY <1>2, <3>1 DEF UpSteps, TypeOK, InitRefused, InitAccepted, InitForced, InitWrites
    <3>2. CASE Up(o) \/ Probe(o) \/ Identify(o) \/ IdentifyFails(o)
      BY <1>2, <3>2 DEF UpSteps, TypeOK, Up, Probe, Identify, IdentifyFails
    <3>3. CASE ComposeUp(o) \/ Wait(o) \/ WaitExpires(o)
      BY <1>2, <3>3 DEF UpSteps, TypeOK, ComposeUp, Wait, WaitExpires
    <3>4. CASE Status(o) \/ Query(o) \/ Down(o)
      BY <1>2, <3>4 DEF UpSteps, TypeOK, Status, Query, Down, ComposeDown
    <3>5. CASE StopOwner(o) \/ Reproduce(o) \/ Killed(o)
      BY <1>2, <3>5 DEF UpSteps, TypeOK, StopOwner, Reproduce, ComposeDown, Killed
    <3> QED
      BY <2>1, <3>1, <3>2, <3>3, <3>4, <3>5 DEF OperatorStep, Step, Follow
  <2>2. CASE UNCHANGED <<pc, advice>>
    BY <1>2, <2>2
  <2> QED
    BY <2>1, <2>2 DEF Next, OperatorStep, Host, Edit, ForeignStarts, BrokerDies,
                      BrokerChecked, BrokerRestarts, vars
<1>3. broker' # "none" => IsInitialised \/ broker # "none"
  <2>1. CASE \E o \in Operator : ComposeUp(o)
    BY <2>1 DEF ComposeUp, Ready, UpSteps
  <2>2. CASE \E o \in Operator : Down(o) \/ Reproduce(o)
    BY <2>2 DEF Down, Reproduce, ComposeDown
  <2>3. CASE \E o \in Operator : StopOwner(o)
    BY <2>3 DEF StopOwner, Running
  <2>4. CASE UNCHANGED broker
    BY <2>4
  <2>5. CASE BrokerChecked \/ BrokerDies \/ BrokerRestarts
    BY <2>5 DEF BrokerChecked, BrokerDies, BrokerRestarts, Running
  <2> QED
    BY <2>1, <2>2, <2>3, <2>4, <2>5
       DEF Next, Step, Follow, Host, InitRefused, InitAccepted, InitForced, InitWrites, Up,
           Probe, Identify, IdentifyFails, Wait, WaitExpires, Status, Query,
           Killed, Edit, ForeignStarts, vars
<1> QED
  BY <1>1, <1>2, <1>3 DEF Ready

(* A message that all is well ends a command.                              *)
LEMMA BusyStep ==
    ASSUME TypeOK, Busy, [Next]_vars
    PROVE  Busy'
<1> USE DEF counters, operators, docker, files, Finish, Goto, Advise, Begin, InitSteps
<1>1. ASSUME NEW p \in Operator, pc'[p] # "ready"
      PROVE  advice'[p] # "fine"
  <2>1. ASSUME NEW o \in Operator, OperatorStep(o)
        PROVE  advice'[p] # "fine"
    <3>1. CASE InitRefused(o) \/ InitAccepted(o) \/ InitForced(o) \/ InitWrites(o)
      BY <1>1, <3>1 DEF Busy, TypeOK, InitRefused, InitAccepted, InitForced, InitWrites
    <3>2. CASE Up(o) \/ Probe(o) \/ Identify(o) \/ IdentifyFails(o)
      BY <1>1, <3>2 DEF Busy, TypeOK, Up, Probe, Identify, IdentifyFails
    <3>3. CASE ComposeUp(o) \/ Wait(o) \/ WaitExpires(o)
      BY <1>1, <3>3 DEF Busy, TypeOK, ComposeUp, Wait, WaitExpires
    <3>4. CASE Status(o) \/ Query(o) \/ Down(o)
      BY <1>1, <3>4 DEF Busy, TypeOK, Status, Query, Down, ComposeDown
    <3>5. CASE StopOwner(o) \/ Reproduce(o) \/ Killed(o)
      BY <1>1, <3>5 DEF Busy, TypeOK, StopOwner, Reproduce, ComposeDown, Killed
    <3> QED
      BY <2>1, <3>1, <3>2, <3>3, <3>4, <3>5 DEF OperatorStep, Step, Follow
  <2>2. CASE UNCHANGED <<pc, advice>>
    BY <1>1, <2>2 DEF Busy
  <2> QED
    BY <2>1, <2>2 DEF Next, OperatorStep, Host, Edit, ForeignStarts, BrokerDies,
                      BrokerChecked, BrokerRestarts, vars
<1> QED
  BY <1>1 DEF Busy

(* Nobody starts where somebody listens.                                   *)
LEMMA BoundStep ==
    ASSUME TypeOK, Bound, [Next]_vars
    PROVE  Bound'
<1> USE DEF counters, operators, docker, files, Finish, Goto, Advise
<1>1. CASE \E o \in Operator : ComposeUp(o)
  BY <1>1 DEF ComposeUp, Bound, Running
<1>2. CASE \E o \in Operator : Down(o) \/ Reproduce(o)
  BY <1>2 DEF Down, Reproduce, ComposeDown, Bound, Running
<1>3. CASE \E o \in Operator : StopOwner(o)
  BY <1>3 DEF StopOwner, Bound, Running, Clash
<1>4. CASE ForeignStarts
  BY <1>4 DEF ForeignStarts, Bound, Running
<1>5. CASE BrokerChecked \/ BrokerDies \/ BrokerRestarts
  BY <1>5 DEF BrokerChecked, BrokerDies, BrokerRestarts, Bound, Running
<1>6. CASE UNCHANGED <<docker, foreign>>
  BY <1>6 DEF Bound, Running
<1> QED
  BY <1>1, <1>2, <1>3, <1>4, <1>5, <1>6
     DEF Next, Step, Follow, Host, InitRefused, InitAccepted, InitForced, InitWrites, Up,
         Probe, Identify, IdentifyFails, Wait, WaitExpires, Status, Query, Killed, Edit, vars

(* If editors are careful, an edited file meets no init that was begun     *)
(* before the edit.                                                        *)
LEMMA CarefulStep ==
    ASSUME CarefulEditor, TypeOK, Careful, [Next]_vars
    PROVE  Careful'
<1> USE DEF counters, operators, docker, files, Finish, Goto, Advise, Begin, InitSteps
<1>1. CASE \E o \in Operator : InitWrites(o)
  BY <1>1, AddressAssumption DEF InitWrites, Careful, TypeOK
<1>2. CASE \E o \in Operator : InitAccepted(o)
  BY <1>2, AddressAssumption DEF InitAccepted, Careful
<1>3. CASE \E o \in Operator : InitForced(o)
  BY <1>3 DEF InitForced, Careful, TypeOK
<1>4. CASE Edit
  BY <1>4 DEF Edit, Careful
<1>5. ASSUME compose' = compose,
             \A p \in Operator :
                 pc'[p] \in InitSteps => pc[p] = pc'[p] /\ (p \in forced => p \in forced')
      PROVE  Careful'
  BY <1>5 DEF Careful
<1>6. CASE UNCHANGED <<compose, forced, pc>>
  BY <1>6 DEF Careful
<1>7. ASSUME NEW o \in Operator,
             \/ InitRefused(o) \/ Up(o) \/ Probe(o) \/ Identify(o) \/ IdentifyFails(o)
             \/ ComposeUp(o) \/ Wait(o) \/ WaitExpires(o) \/ Status(o) \/ Query(o)
             \/ Down(o) \/ Reproduce(o) \/ Killed(o)
      PROVE  Careful'
  <2>1. compose' = compose
    BY <1>7 DEF InitRefused, Up, Probe, Identify, IdentifyFails, ComposeUp, Wait,
                WaitExpires, Status, Query, Down, Reproduce, Killed
  <2>2. ASSUME NEW p \in Operator, pc'[p] \in InitSteps
        PROVE  pc[p] = pc'[p] /\ (p \in forced => p \in forced')
    <3>1. CASE InitRefused(o) \/ Up(o) \/ Probe(o) \/ Identify(o) \/ IdentifyFails(o)
      BY <2>2, <3>1 DEF TypeOK, InitRefused, Up, Probe, Identify, IdentifyFails
    <3>2. CASE ComposeUp(o) \/ Wait(o) \/ WaitExpires(o)
      BY <2>2, <3>2 DEF TypeOK, ComposeUp, Wait, WaitExpires
    <3>3. CASE Status(o) \/ Query(o) \/ Down(o) \/ Reproduce(o)
      BY <2>2, <3>3 DEF TypeOK, Status, Query, Down, Reproduce, ComposeDown
    <3>4. CASE Killed(o)
      BY <2>2, <3>4 DEF TypeOK, Killed
    <3> QED
      BY <1>7, <3>1, <3>2, <3>3, <3>4
  <2> QED
    BY <2>1, <2>2, <1>5
<1> QED
  BY <1>1, <1>2, <1>3, <1>4, <1>6, <1>7
     DEF Next, Step, Follow, Host, StopOwner, ForeignStarts, BrokerChecked, BrokerDies,
         BrokerRestarts, vars

-----------------------------------------------------------------------------
Inv == TypeOK /\ Ready /\ Busy /\ Bound

(* The invariant behind the theorems below.                                *)
LEMMA InvStep ==
    ASSUME Inv, [Next]_vars
    PROVE  Inv'
<1>1. TypeOK'
  <2>1. ASSUME NEW o \in Operator, OperatorStep(o)
        PROVE  TypeOK'
    BY <2>1, OperatorTypes DEF Inv
  <2>2. CASE Host \/ Edit \/ ForeignStarts \/ BrokerDies
    BY <2>2, HostTypes DEF Inv
  <2>3. CASE UNCHANGED vars
    BY <2>3 DEF Inv, TypeOK, vars, counters, operators, docker, files
  <2> QED
    BY <2>1, <2>2, <2>3 DEF Next, OperatorStep
<1> QED
  BY <1>1, ReadyStep, BusyStep, BoundStep DEF Inv

LEMMA InvAlways == Spec => []Inv
<1>1. Init => Inv
  BY AddressAssumption, BoundsAssumption
     DEF Init, Inv, TypeOK, Ready, UpSteps, Busy, Bound, Running, InitSteps
<1> QED
  BY <1>1, InvStep, PTL DEF Spec

(* The variables have their types, and a broker runs only from a directory *)
(* that has both files: stack.py's _require_initialised.                   *)
THEOREM StackTypeCorrect == Spec => []TypeOK
BY InvAlways, PTL DEF Inv

(* Whoever up or status tells that all is well has a healthy broker of     *)
(* ours, and unless it is published where the exposure check takes any     *)
(* endpoint for 127.0.0.1:1883 it alone answers there, whoever else        *)
(* listens and wherever compose.yaml was moved: cmd_up, cmd_status and the *)
(* preflight.                                                              *)
THEOREM VerdictsAreTrue == Spec => FineIsOurs
<1> DEFINE Told(o) ==
        pc[o] \in {"query", "status"} /\ pc'[o] = "ready" /\ advice'[o] = "fine"
<1>1. ASSUME Inv, [Next]_vars, NEW o \in Operator, Told(o)
      PROVE  /\ broker = "healthy"
             /\ Overlooked(on) \/ (Answers(on) /\ ~Answers(foreign))
  <2>1. Query(o)
    <3>1. ASSUME NEW p \in Operator, OperatorStep(p)
          PROVE  Query(o)
      <4>1. CASE Query(p)
        BY <1>1, <4>1 DEF Query, Finish, Goto, Inv, TypeOK
      <4>2. CASE Killed(p)
        BY <1>1, <4>2 DEF Killed, Goto, Inv, TypeOK, Busy
      <4>3. CASE InitRefused(p) \/ InitAccepted(p) \/ InitForced(p) \/ InitWrites(p)
        BY <1>1, <4>3 DEF Inv, TypeOK, InitRefused, InitAccepted, InitForced, InitWrites,
                          Call, Finish, Goto, Begin, InitSteps
      <4>4. CASE Up(p) \/ Probe(p) \/ Identify(p) \/ IdentifyFails(p) \/ Status(p)
        BY <1>1, <4>4 DEF Inv, TypeOK, Up, Probe, Identify, IdentifyFails, Status, Call,
                          Finish, Goto, Begin
      <4>5. CASE ComposeUp(p) \/ Wait(p) \/ WaitExpires(p)
        BY <1>1, <4>5 DEF Inv, TypeOK, ComposeUp, Wait, WaitExpires, Finish, Goto
      <4>6. CASE Down(p) \/ StopOwner(p) \/ Reproduce(p)
        BY <1>1, <4>6 DEF Inv, TypeOK, Down, StopOwner, Reproduce, ComposeDown, Call,
                          Finish, Goto
      <4> QED
        BY <3>1, <4>1, <4>2, <4>3, <4>4, <4>5, <4>6 DEF OperatorStep, Step, Follow
    <3>2. ~UNCHANGED pc
      BY <1>1
    <3> QED
      BY <1>1, <3>1, <3>2
         DEF Next, OperatorStep, Host, Edit, ForeignStarts, BrokerDies, BrokerChecked,
             BrokerRestarts, vars, operators
  <2>2. broker = "healthy" /\ ~Exposed
    BY <1>1, <2>1 DEF Query, Finish, Advise, Inv, TypeOK
  <2> HIDE DEF Told
  <2>3. Running /\ ~Clash(on, foreign)
    BY <1>1, <2>2 DEF Running, Inv, Bound
  <2>4. on \in {"template", "inner", "elsewhere"}
    <3>1. on \in Address
      BY <1>1 DEF Inv, TypeOK
    <3>2. on \notin {"wildcard", "routable"}
      BY <2>2, <2>3 DEF Exposed
    <3> QED
      BY <3>1, <3>2, AddressAssumption
  <2>5. CASE on = "template"
    <3>1. ~Answers(foreign)
      BY <2>3, <2>5 DEF Answers, Clash
    <3> QED
      BY <2>5, <3>1, <2>2 DEF Answers
  <2> QED
    BY <2>2, <2>4, <2>5 DEF Overlooked
<1>2. Inv /\ [Next]_vars =>
        [\A o \in Operator :
            pc[o] \in {"query", "status"} /\ pc'[o] = "ready" /\ advice'[o] = "fine" =>
                /\ broker = "healthy"
                /\ Overlooked(on) \/ (Answers(on) /\ ~Answers(foreign))]_vars
  BY <1>1
<1> QED
  BY <1>2, InvAlways, PTL DEF Spec, FineIsOurs

(* An edit of compose.yaml is lost to another edit or to an init --force   *)
(* only, if nobody edits while an init writes: write_stack, stack/.        *)
THEOREM EditsAreKept ==
    ASSUME CarefulEditor
    PROVE  Spec => EditsSurvive
<1>1. Init => Careful
  BY AddressAssumption DEF Init, Careful
<1>2. Inv /\ Careful /\ [Next]_vars => Careful'
  BY CarefulStep DEF Inv
<1>3. ASSUME Inv, Careful, [Next]_vars, compose \in Address \ {"template"}, compose' # compose
      PROVE  edits' # edits \/ \E o \in forced : pc[o] = "truncate compose"
  <2>1. CASE Edit
    <3>1. edits \in 0..MaxEdits /\ edits' = edits + 1
      BY <2>1, <1>3 DEF Edit, Inv, TypeOK
    <3>2. edits' # edits
      BY <3>1
    <3> QED
      BY <3>2
  <2>2. ASSUME NEW o \in Operator, InitWrites(o)
        PROVE  \E p \in forced : pc[p] = "truncate compose"
    BY <1>3, <2>2 DEF InitWrites, Careful, InitSteps
  <2> QED
    BY <1>3, <2>1, <2>2
       DEF Next, Step, Follow, Host, InitRefused, InitAccepted, InitForced, Up, Probe,
           Identify, IdentifyFails, ComposeUp, Wait, WaitExpires, Status, Query, Down,
           StopOwner, Reproduce, ComposeDown, Killed, ForeignStarts, BrokerChecked, BrokerDies, BrokerRestarts,
           vars, files
<1>4. Inv /\ Careful /\ [Next]_vars =>
        [(compose \in Address \ {"template"}) /\ compose' # compose =>
            \/ edits' # edits
            \/ \E o \in forced : pc[o] = "truncate compose"]_vars
  BY <1>3
<1> QED
  BY <1>1, <1>2, <1>4, InvAlways, PTL DEF Spec, EditsSurvive
=============================================================================
