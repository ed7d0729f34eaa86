-------------------------------- MODULE Ports --------------------------------
(***************************************************************************)
(* What the stack reports of published ports (stack/_preflight.py 80-102,  *)
(* stack/_status.py): docker's two renderings of a container's bindings,   *)
(* and the judgement whether the broker's port leaves the host.            *)
(*                                                                         *)
(* A binding is [address, port], the port inside the container being the   *)
(* same.  Rendering is docker's: one entry per range of ports in Ports,    *)
(* one row per binding in Publishers, whose PublishedPort is 0 for a port  *)
(* that is only exposed.                                                   *)
(***************************************************************************)
EXTENDS Naturals, Sequences, FiniteSets

CONSTANTS
    BrokerPort,     \* BROKER_PORT
    Loopback        \* the addresses 127.0.0.0/8 and ::1

ASSUME BrokerPortAssumption == BrokerPort \in Nat \ {0}

(* docker ps: neighbouring ports on one address become one entry.          *)
Entries(bindings) ==
    LET Bound(address, port) == [address |-> address, port |-> port] \in bindings
        ranges == {p \in bindings \X bindings :
                      /\ p[1].address = p[2].address /\ p[1].port <= p[2].port
                      /\ \A n \in p[1].port..p[2].port : Bound(p[1].address, n)
                      /\ ~Bound(p[1].address, p[1].port - 1)
                      /\ ~Bound(p[1].address, p[2].port + 1)}
    IN  {[address |-> p[1].address, low |-> p[1].port, high |-> p[2].port] : p \in ranges}

Publishers(bindings, internal) ==
    {[URL |-> b.address, PublishedPort |-> b.port] : b \in bindings}
        \cup {[URL |-> "", PublishedPort |-> 0] : n \in internal}

-----------------------------------------------------------------------------
(* publish_is_lan_exposed: an entry whose host port is a number, the       *)
(* broker's, on any other address, a missing one included.                 *)
PublishIsLanExposed(entries) ==
    \E e \in entries :
        e.low = e.high /\ e.low = BrokerPort /\ e.address \notin Loopback

(* _publishers_to_ports: what is not published is left out.                *)
PublishersToPorts(publishers) ==
    {[address |-> p.URL, low |-> p.PublishedPort, high |-> p.PublishedPort] :
        p \in {q \in publishers : q.PublishedPort # 0}}

(* service_from_row: the string if there is one, else the list.            *)
ServiceFromRow(row) ==
    [service |-> row.service, state |-> row.state,
     health |-> IF row.health = "" THEN "none" ELSE row.health,
     ports |-> IF row.ports # {} THEN row.ports
               ELSE PublishersToPorts(row.publishers)]

-----------------------------------------------------------------------------
(* StackStatus, of a sequence of services.                                 *)

(* The broker's row, or the first: a set of at most one.                   *)
BrokerOf(services) ==
    LET ours == {i \in 1..Len(services) : services[i].service = "broker"}
        rows == IF ours # {} THEN ours ELSE 1..Len(services)
    IN  {services[i] : i \in {j \in rows : \A k \in rows : j <= k}}

(* Mutant: a container that runs is healthy unless it says otherwise.      *)
HealthyUnlessSaid(services) ==
    \E s \in BrokerOf(services) : s.state = "running" /\ s.health # "unhealthy"

Healthy(services) ==
    \E s \in BrokerOf(services) : s.state = "running" /\ s.health = "healthy"

LoopbackOnly(services) ==
    \A i \in 1..Len(services) : ~PublishIsLanExposed(services[i].ports)

-----------------------------------------------------------------------------
(* What leaves the host.                                                   *)
LeavesHost(bindings) ==
    \E b \in bindings : b.port = BrokerPort /\ b.address \notin Loopback
=============================================================================
