\* What two calls beside each other may leave behind.
\* TLC stops at the first property it finds violated: leave in the one to see.
CONSTANTS
    a1 = a1
    a2 = a2
    a3 = a3
    f1 = f1
    f2 = f2
    f3 = f3
    Caller = {a1, a2}
    Filter = {f1, f2}
    Nothing = Nothing
    Nobody = Nobody
    MayForce = FALSE
    MaxFaults = 0
    MaxDrops = 0

SPECIFICATION Spec

SYMMETRY Symmetry

INVARIANTS
    SessionMatchesRecord
    NoOrphan
