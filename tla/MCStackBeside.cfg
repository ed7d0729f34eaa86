\* docker ps fails while our own broker runs, an init is killed halfway, the
\* broker is moved to an endpoint that passes for 127.0.0.1:1883 while somebody
\* else has that, or the broker starts with a torn mosquitto.conf.
\* TLC stops at the first property it finds violated: leave in the one to see.
CONSTANTS
    o1 = o1
    o2 = o2
    Operator = {o1}
    Address = {"template", "inner", "wildcard", "routable", "elsewhere"}
    CarefulEditor = TRUE
    MaxCalls = 1
    MaxFaults = 1
    MaxEdits = 1
    MaxForeign = 1

SPECIFICATION FairSpec

INVARIANTS
    InitialisedIsWritten

PROPERTIES
    RefusedIsForeign
    FineIsOursAnywhere
    HintsAlwaysLeadOut
