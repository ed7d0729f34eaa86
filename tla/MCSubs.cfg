\* Two callers, forced removes, deaths, unanswered CONNECTs and drops.
CONSTANTS
    a1 = a1
    a2 = a2
    a3 = a3
    f1 = f1
    f2 = f2
    f3 = f3
    Caller = {a1, a2, a3}
    Filter = {f1, f2}
    Nothing = Nothing
    Nobody = Nobody
    MayForce = TRUE
    MaxFaults = 2
    MaxDrops = 1

SPECIFICATION Spec

SYMMETRY Symmetry

INVARIANTS
    TypeOK
    RegistryCounts
    RecordedIsHeard

PROPERTIES
    RemoveDestroys
