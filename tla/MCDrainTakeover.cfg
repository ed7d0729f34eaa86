\* Two callers take the session over from each other.
CONSTANTS
    e1 = e1
    e2 = e2
    e3 = e3
    w1 = w1
    w2 = w2
    Event = {e1, e2, e3}
    Watcher = {w1, w2}
    Malformed = Malformed
    Unstorable = {e3}
    Nobody = Nobody
    NoMessage = NoMessage
    Max = 2
    QueueLimit = 2
    MaxPublished = 2
    MaxFaults = 1
    MaxLosses = 0
    MaxReconnects = 1

SPECIFICATION Spec

SYMMETRY Symmetry

INVARIANTS
    TypeOK
    NothingLost
    StoredInOrder

PROPERTIES
    CursorNeverRewinds
