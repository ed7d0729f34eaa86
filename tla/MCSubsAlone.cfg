\* One caller at a time, two failures or a dropped connection.
\* With MaxFaults = 0 the drop alone shows it, with MaxDrops = 0 the failures do.
CONSTANTS
    a1 = a1
    a2 = a2
    a3 = a3
    f1 = f1
    f2 = f2
    f3 = f3
    Caller = {a1}
    Filter = {f1, f2}
    Nothing = Nothing
    Nobody = Nobody
    MayForce = FALSE
    MaxFaults = 2
    MaxDrops = 1

SPECIFICATION Spec

SYMMETRY Symmetry

INVARIANTS
    Heard
