\* close() while the connection comes up.
CONSTANTS
    m1 = m1
    m2 = m2
    Message = {m1}
    Hot = {}
    MaxDrops = 0
    MaxLives = 1

SPECIFICATION Spec

INVARIANTS
    ClosedIsOffline
