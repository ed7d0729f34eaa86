\* An operator who runs emit again after exit code 2.
CONSTANTS
    m1 = m1
    m2 = m2
    Message = {m1, m2}
    Hot = {}
    MaxDrops = 0
    MaxLives = 1

SPECIFICATION EmitSpec

INVARIANTS
    SaidOnce
