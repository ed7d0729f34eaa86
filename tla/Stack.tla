-------------------------------- MODULE Stack --------------------------------
(***************************************************************************)
(* events init, up, status and down (cli/_commands/stack.py, stack/): the  *)
(* two files of the stack directory, the broker's container, and whoever   *)
(* else listens on port 1883, while operators work beside each other.      *)
(*                                                                         *)
(* docker is external: a container that starts takes its port or fails;    *)
(* `up` leaves a container alone that runs what compose.yaml says and      *)
(* replaces it otherwise; a broker reads mosquitto.conf when it starts.    *)
(*                                                                         *)
(* advice is the next command that the last message told an operator to    *)
(* run, or the command itself when it was killed:                          *)
(*   "init"            generate it with: events init                       *)
(*   "force"           re-run with --force                                 *)
(*   "up"              next: events up; raise --timeout                    *)
(*   "free"            stop the owner of the port, then re-run events up   *)
(*   "reproduce up"    reproduce it directly with: docker compose ... up   *)
(*   "reproduce down"  the same of docker compose ... down                 *)
(* or what it said without naming one: that all is well ("fine"), or well  *)
(* and exposed ("warned"), or anything else or nothing yet ("unwell").  A  *)
(* hint that only looks ("reproduce it with: docker compose ... ps")       *)
(* changes nothing either.                                                 *)
(***************************************************************************)
EXTENDS Naturals, FiniteSets

CONSTANTS
    Operator,
    Address,        \* the host endpoints a broker may be published at
    CarefulEditor,  \* nobody edits a file that init is writing
    MaxCalls,       \* bound on calls that no message asked for
    MaxFaults,      \* bound on what is killed or fails
    MaxEdits,       \* bound on edits of compose.yaml
    MaxForeign      \* bound on foreign listeners

(* "template" is 127.0.0.1:1883, what init writes; "inner" another         *)
(* loopback address at port 1883 (127.0.0.2, ::1), "wildcard" 0.0.0.0:1883 *)
(* and "routable" an address of the LAN at 1883; "elsewhere" is another    *)
(* host port.                                                              *)
ASSUME AddressAssumption ==
    /\ "template" \in Address
    /\ Address \subseteq {"template", "inner", "wildcard", "routable", "elsewhere"}
ASSUME BoundsAssumption ==
    MaxCalls \in Nat /\ MaxFaults \in Nat /\ MaxEdits \in Nat /\ MaxForeign \in Nat

VARIABLES
    compose,        \* compose.yaml: absent, torn, or the address it publishes
    conf,           \* mosquitto.conf: absent, torn or whole
    broker,         \* our container; "created": there, and will not start itself
    on,             \* the address it publishes
    read,           \* the mosquitto.conf it started with
    foreign,        \* the address of another listener, or "none"
    pc, advice,     \* of each operator
    forced,         \* the operators whose init has --force
    calls, faults, edits, foreigns

files == <<compose, conf>>
docker == <<broker, on, read>>
operators == <<pc, advice, forced>>
counters == <<calls, faults, edits, foreigns>>
vars == <<files, docker, foreign, operators, counters>>

Init ==
    /\ compose = "absent" /\ conf = "absent"
    /\ broker = "none" /\ on = "template" /\ read = "absent"
    /\ foreign = "none"
    /\ pc = [o \in Operator |-> "ready"]
    /\ advice = [o \in Operator |-> "up"]
    /\ forced = {}
    /\ calls = 0 /\ faults = 0 /\ edits = 0 /\ foreigns = 0

-----------------------------------------------------------------------------
InitSteps == {"truncate compose", "write compose", "truncate conf", "write conf"}

(* Mutant: one file will do.                                               *)
IsInitialisedByAny == compose # "absent" \/ conf # "absent"

IsInitialised == compose # "absent" /\ conf # "absent"
Running == broker \in {"starting", "healthy", "unhealthy"}

(* The kernel lets two listeners share the port on different addresses.    *)
Clash(a, b) ==
    /\ a # "none" /\ b # "none"
    /\ \/ a = b
       \/ a = "wildcard" /\ b # "elsewhere"
       \/ b = "wildcard" /\ a # "elsewhere"

(* publish_is_lan_exposed, of the container that runs: port 1883 on an     *)
(* address that is not 127.* or ::1.                                       *)
Exposed == Running /\ on \in {"wildcard", "routable"}

(* port_in_use: a TCP connect to 127.0.0.1:1883.                           *)
Answers(a) == a \in {"template", "wildcard"}
PortInUse == (Running /\ Answers(on)) \/ Answers(foreign)

(* docker ps --filter publish=1883: a container that publishes that port   *)
(* of the host, on whatever address.                                       *)
Publishes1883 == Running /\ on # "elsewhere"

(* A call made on advice; without any, one of a few others.                *)
Content(o) == advice[o] \in {"fine", "warned", "unwell"}

Call(o, command) ==
    /\ pc[o] = "ready"
    /\ \/ advice[o] = command /\ UNCHANGED calls
       \/ Content(o) /\ calls < MaxCalls /\ calls' = calls + 1

Goto(o, step) == pc' = [pc EXCEPT ![o] = step]
Advise(o, command) == advice' = [advice EXCEPT ![o] = command]
Finish(o, command) == Goto(o, "ready") /\ Advise(o, command)

(* A call that is killed from here on is made again as command.            *)
Begin(o, step, command) == Goto(o, step) /\ Advise(o, command)

-----------------------------------------------------------------------------
(* events init.                                                            *)

(* Mutant: the refusal names the other next command.                       *)
InitRefusedForward(o) ==
    /\ Call(o, "init")
    /\ compose # "absent" \/ conf # "absent"
    /\ Finish(o, "up")
    /\ UNCHANGED <<files, docker, foreign, forced, faults, edits, foreigns>>

InitRefused(o) ==
    /\ Call(o, "init")
    /\ compose # "absent" \/ conf # "absent"
    /\ Finish(o, "force")
    /\ UNCHANGED <<files, docker, foreign, forced, faults, edits, foreigns>>

(* Mutant: only a complete stack is kept.                                  *)
InitAcceptedUnlessWhole(o) ==
    /\ Call(o, "init")
    /\ ~IsInitialised
    /\ Begin(o, "truncate compose", "init")
    /\ UNCHANGED <<files, docker, foreign, forced, faults, edits, foreigns>>

InitAccepted(o) ==
    /\ Call(o, "init")
    /\ compose = "absent" /\ conf = "absent"
    /\ Begin(o, "truncate compose", "init")
    /\ UNCHANGED <<files, docker, foreign, forced, faults, edits, foreigns>>

InitForced(o) ==
    /\ Call(o, "force")
    /\ Begin(o, "truncate compose", "init")
    /\ forced' = forced \cup {o}
    /\ UNCHANGED <<files, docker, foreign, faults, edits, foreigns>>

(* write_text of each template: opening it for writing empties the file.   *)
InitWrites(o) ==
    /\ \/ /\ pc[o] = "truncate compose"
          /\ compose' = "torn" /\ UNCHANGED conf
          /\ Goto(o, "write compose") /\ UNCHANGED <<advice, forced>>
       \/ /\ pc[o] = "write compose"
          /\ compose' = "template" /\ UNCHANGED conf
          /\ Goto(o, "truncate conf") /\ UNCHANGED <<advice, forced>>
       \/ /\ pc[o] = "truncate conf"
          /\ conf' = "torn" /\ UNCHANGED compose
          /\ Goto(o, "write conf") /\ UNCHANGED <<advice, forced>>
       \/ /\ pc[o] = "write conf"
          /\ conf' = "whole" /\ UNCHANGED compose
          /\ Finish(o, "up") /\ forced' = forced \ {o}
    /\ UNCHANGED <<docker, foreign, counters>>

-----------------------------------------------------------------------------
(* events up.                                                              *)

Up(o) ==
    /\ Call(o, "up")
    /\ IF IsInitialised THEN Begin(o, "probe", "up") ELSE Finish(o, "init")
    /\ UNCHANGED <<files, docker, foreign, forced, faults, edits, foreigns>>

(* preflight's probe: a port that is free needs no owner.                  *)
Probe(o) ==
    /\ pc[o] = "probe"
    /\ Goto(o, IF PortInUse THEN "identify" ELSE "compose up")
    /\ UNCHANGED <<files, docker, foreign, advice, forced, counters>>

(* containers_publishing: ours among the containers that publish the port, *)
(* on whatever address, makes the verdict "ours".                          *)
Identify(o) ==
    /\ pc[o] = "identify"
    /\ IF Publishes1883 THEN Goto(o, "compose up") /\ UNCHANGED advice
                        ELSE Finish(o, "free")
    /\ UNCHANGED <<files, docker, foreign, forced, counters>>

(* docker ps fails: nobody is identified, and up refuses.                  *)
IdentifyFails(o) ==
    /\ pc[o] = "identify"
    /\ faults < MaxFaults
    /\ faults' = faults + 1
    /\ Finish(o, "free")
    /\ UNCHANGED <<files, docker, foreign, forced, calls, edits, foreigns>>

(* docker compose up --detach, of `up` or of who reproduces its failure.   *)
ComposeUp(o) ==
    /\ pc[o] = "compose up"
    /\ \/ /\ compose \notin Address
          /\ Finish(o, "reproduce up") /\ UNCHANGED docker
       \/ /\ compose = on /\ Running
          /\ Goto(o, "wait") /\ UNCHANGED <<docker, advice>>
       \/ /\ compose \in Address /\ ~(compose = on /\ Running)
          /\ on' = compose
          /\ read' = conf
          /\ IF Clash(compose, foreign)
             THEN broker' = "created" /\ Finish(o, "reproduce up")
             ELSE broker' = "starting" /\ Goto(o, "wait") /\ UNCHANGED advice
    /\ UNCHANGED <<files, foreign, forced, counters>>

(* --wait: until it is healthy, or cannot become it.  Only `up` goes on to *)
(* ask for the status; docker says no more.                                *)
Wait(o) ==
    /\ pc[o] = "wait"
    /\ broker # "starting"
    /\ IF broker # "healthy" THEN Finish(o, "reproduce up")
       ELSE IF advice[o] = "reproduce up" THEN Finish(o, "unwell")
       ELSE Goto(o, "query") /\ UNCHANGED advice
    /\ UNCHANGED <<files, docker, foreign, forced, counters>>

(* --wait-timeout, or the time the command itself may take (DockerTimeout: *)
(* "raise --timeout"); the container stays.                                *)
WaitExpires(o) ==
    /\ pc[o] = "wait"
    /\ broker = "starting"
    /\ \E hint \in {"reproduce up", "up"} : Finish(o, hint)
    /\ UNCHANGED <<files, docker, foreign, forced, counters>>

(* events status.                                                          *)
Status(o) ==
    /\ pc[o] = "ready" /\ Content(o)
    /\ IF IsInitialised THEN Begin(o, "status", "unwell") ELSE Finish(o, "init")
    /\ UNCHANGED <<files, docker, foreign, forced, counters>>

(* Mutant: the address is not looked at.                                   *)
QueryHealthOnly(o) ==
    /\ pc[o] \in {"query", "status"}
    /\ Finish(o, IF compose # "torn" /\ broker = "healthy" THEN "fine" ELSE "unwell")
    /\ UNCHANGED <<files, docker, foreign, forced, counters>>

(* docker compose ps, at the end of `up` and of `status`: it fails on a    *)
(* torn file, or finds the broker healthy, published off loopback or not,  *)
(* or finds it otherwise.  Of no container at all status says to run `up`. *)
Query(o) ==
    /\ pc[o] \in {"query", "status"}
    /\ \/ /\ compose # "torn" /\ broker = "healthy"
          /\ Finish(o, IF Exposed THEN "warned" ELSE "fine")
       \/ /\ compose # "torn" /\ broker = "none" /\ pc[o] = "status"
          /\ Finish(o, "up")
       \/ /\ \/ compose = "torn"
             \/ broker # "healthy" /\ ~(broker = "none" /\ pc[o] = "status")
          /\ Finish(o, "unwell")
    /\ UNCHANGED <<files, docker, foreign, forced, counters>>

(* docker compose down removes the container; it fails on a torn file.     *)
ComposeDown(o) ==
    IF compose = "torn"
    THEN Finish(o, "reproduce down") /\ UNCHANGED docker
    ELSE Finish(o, "unwell") /\ broker' = "none" /\ UNCHANGED <<on, read>>

(* events down, which no message asks for.                                 *)
Down(o) ==
    /\ Call(o, "down")
    /\ IF IsInitialised THEN ComposeDown(o) ELSE Finish(o, "init") /\ UNCHANGED docker
    /\ UNCHANGED <<files, foreign, forced, faults, edits, foreigns>>

-----------------------------------------------------------------------------
(* Everything else on the host.                                            *)

(* "stop it with", "find the owner with": whoever answers at               *)
(* 127.0.0.1:1883 is stopped, our own broker if docker ps had failed.      *)
StopOwner(o) ==
    /\ pc[o] = "ready" /\ advice[o] = "free"
    /\ foreign' = IF Answers(foreign) THEN "none" ELSE foreign
    /\ broker' = IF Running /\ Answers(on) THEN "created" ELSE broker
    /\ Advise(o, "up")
    /\ UNCHANGED <<files, on, read, pc, forced, counters>>

(* "reproduce it directly with": the docker command on its own.            *)
Reproduce(o) ==
    /\ pc[o] = "ready"
    /\ \/ /\ advice[o] = "reproduce up"
          /\ Goto(o, "compose up") /\ UNCHANGED <<docker, advice>>
       \/ /\ advice[o] = "reproduce down"
          /\ ComposeDown(o)
    /\ UNCHANGED <<files, foreign, forced, counters>>

(* A call is killed, and made again unless it was a status.                *)
Killed(o) ==
    /\ pc[o] # "ready"
    /\ faults < MaxFaults
    /\ faults' = faults + 1
    /\ Goto(o, "ready")
    /\ forced' = forced \ {o}
    /\ UNCHANGED <<files, docker, foreign, advice, calls, edits, foreigns>>

(* A hand edit of compose.yaml moves the broker to another address.        *)
Edit ==
    /\ edits < MaxEdits
    /\ compose \in Address
    /\ CarefulEditor => \A o \in Operator : pc[o] \notin InitSteps
    /\ edits' = edits + 1
    /\ compose' \in Address \ {compose}
    /\ UNCHANGED <<conf, docker, foreign, operators, calls, faults, foreigns>>

ForeignStarts ==
    /\ foreign = "none"
    /\ foreigns < MaxForeign
    /\ foreigns' = foreigns + 1
    /\ foreign' \in {a \in Address : ~(Running /\ Clash(on, a))}
    /\ UNCHANGED <<files, docker, operators, calls, faults, edits>>

(* The healthcheck's verdict on a broker that has started.                 *)
BrokerChecked ==
    /\ broker = "starting"
    /\ broker' = IF read = "whole" THEN "healthy" ELSE "unhealthy"
    /\ UNCHANGED <<files, on, read, foreign, operators, counters>>

BrokerDies ==
    /\ Running
    /\ faults < MaxFaults
    /\ faults' = faults + 1
    /\ broker' = "exited"
    /\ UNCHANGED <<files, on, read, foreign, operators, calls, edits, foreigns>>

(* restart: unless-stopped                                                 *)
BrokerRestarts ==
    /\ broker = "exited"
    /\ ~Clash(on, foreign)
    /\ broker' = "starting"
    /\ read' = conf
    /\ UNCHANGED <<files, on, foreign, operators, counters>>

-----------------------------------------------------------------------------
Step(o) ==
    \/ InitWrites(o)
    \/ Probe(o) \/ Identify(o) \/ ComposeUp(o) \/ Wait(o) \/ Query(o)

Follow(o) ==
    \/ InitRefused(o) \/ InitAccepted(o) \/ InitForced(o)
    \/ Up(o) \/ Down(o) \/ StopOwner(o) \/ Reproduce(o)

Host == BrokerChecked \/ BrokerRestarts

Next ==
    \/ \E o \in Operator :
           \/ Step(o) \/ Follow(o) \/ Status(o)
           \/ IdentifyFails(o) \/ WaitExpires(o) \/ Killed(o)
    \/ Host \/ Edit \/ ForeignStarts \/ BrokerDies

Spec == Init /\ [][Next]_vars

(* Operators do as they are told, their calls go on, and docker starts,    *)
(* restarts and checks the container.                                      *)
Fairness ==
    /\ \A o \in Operator : WF_vars(Step(o)) /\ WF_vars(Follow(o))
    /\ WF_vars(Host)

FairSpec == Spec /\ Fairness

-----------------------------------------------------------------------------
(* The variables have their types, and a broker is only ever started from  *)
(* a stack directory that has both files (_require_initialised).           *)
TypeOK ==
    /\ compose \in {"absent", "torn"} \cup Address
    /\ conf \in {"absent", "torn", "whole"}
    /\ broker \in {"none", "created", "starting", "healthy", "unhealthy", "exited"}
    /\ on \in Address
    /\ read \in {"absent", "torn", "whole"}
    /\ foreign \in {"none"} \cup Address
    /\ pc \in [Operator -> InitSteps \cup
                   {"ready", "probe", "identify", "compose up", "wait", "query", "status"}]
    /\ advice \in [Operator -> {"up", "init", "force", "free", "reproduce up",
                                "reproduce down", "fine", "warned", "unwell"}]
    /\ forced \subseteq Operator
    /\ calls \in 0..MaxCalls /\ faults \in 0..MaxFaults
    /\ edits \in 0..MaxEdits /\ foreigns \in 0..MaxForeign
    /\ broker # "none" => read # "absent"

(* "silently overwriting it would move the broker off whatever address     *)
(* they had chosen" (write_stack, stack/__init__.py 138-157): an edited    *)
(* compose.yaml is lost to another edit or to an init --force only,        *)
(* whatever an init that was killed has left beside it.                    *)
EditsSurvive ==
    [][(compose \in Address \ {"template"}) /\ compose' # compose =>
          \/ edits' # edits
          \/ \E o \in forced : pc[o] = "truncate compose"]_vars

(* An endpoint that passes for 127.0.0.1:1883 although it is not: the      *)
(* exposure check takes every loopback address for it, and looks at no     *)
(* other port (_preflight.py 80-82, 98-99).                                *)
Overlooked(a) == a \in {"inner", "elsewhere"}

(* "events up must never quietly attach to ... a broker it did not start"  *)
(* (_preflight.py 3-4): whoever is told that all is well, without a        *)
(* warning, has a healthy broker of ours that alone answers at             *)
(* 127.0.0.1:1883, the endpoint he is told, whoever else listens and       *)
(* wherever compose.yaml was moved, an overlooked endpoint excepted.       *)
FineIsOurs ==
    [][\A o \in Operator :
          pc[o] \in {"query", "status"} /\ pc'[o] = "ready" /\ advice'[o] = "fine" =>
              /\ broker = "healthy"
              /\ Overlooked(on) \/ (Answers(on) /\ ~Answers(foreign))]_vars

(* The same without the exception.                                         *)
FineIsOursAnywhere ==
    [][\A o \in Operator :
          pc[o] \in {"query", "status"} /\ pc'[o] = "ready" /\ advice'[o] = "fine" =>
              Answers(on) /\ ~Answers(foreign)]_vars

(* What no message leads past: a broker that is ill for the configuration  *)
(* it has read, or somebody else on the address of compose.yaml when it is *)
(* docker that meets him.                                                  *)
Obstacle == broker = "unhealthy" \/ (compose \in Address /\ Clash(compose, foreign))

(* Somebody has been told to stop what answers, and it is our own broker.  *)
Quarrel == Running /\ Answers(on) /\ \E o \in Operator : advice[o] = "free"

(* Whoever does what the messages say (the "next command" of each error,   *)
(* stack.py 90-144, 184-220 and 252-291, and _preflight.py 184-197) is not *)
(* sent round in circles, by init that refuses what up cannot use, by a    *)
(* killed call or by the other operator: unless an obstacle stays, or      *)
(* operators go on stopping each other's broker, he is left in the end     *)
(* with nothing more to do.                                                *)
HintsLeadOut ==
    <>[]Obstacle \/ []<>Quarrel \/ \A o \in Operator : <>[]Content(o)

(* The same whatever stands in the way.                                    *)
HintsAlwaysLeadOut == \A o \in Operator : <>[]Content(o)

(* "nothing else holds it": a refusal is about somebody else's listener    *)
(* (preflight's third outcome, _preflight.py 266-267).                     *)
RefusedIsForeign ==
    [][\A o \in Operator :
          pc[o] = "identify" /\ pc'[o] = "ready" => Answers(foreign)]_vars

(* "True when every template has been written to stack_dir"                *)
(* (stack/__init__.py 125).                                                *)
InitialisedIsWritten ==
    IsInitialised => compose \in Address /\ conf = "whole"
=============================================================================
