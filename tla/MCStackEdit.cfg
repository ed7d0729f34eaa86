\* Two inits and an edit between them.
CONSTANTS
    o1 = o1
    o2 = o2
    Operator = {o1, o2}
    Address = {"template", "inner", "wildcard", "routable", "elsewhere"}
    CarefulEditor = FALSE
    MaxCalls = 1
    MaxFaults = 1
    MaxEdits = 1
    MaxForeign = 1

SPECIFICATION Spec

PROPERTIES
    EditsSurvive
