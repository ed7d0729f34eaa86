\* Two operators, a killed call, an edit and a foreign listener.
CONSTANTS
    o1 = o1
    o2 = o2
    Operator = {o1, o2}
    Address = {"template", "inner", "wildcard", "routable", "elsewhere"}
    CarefulEditor = TRUE
    MaxCalls = 1
    MaxFaults = 1
    MaxEdits = 1
    MaxForeign = 1

SPECIFICATION FairSpec

INVARIANTS
    TypeOK

PROPERTIES
    EditsSurvive
    FineIsOurs
    HintsLeadOut
