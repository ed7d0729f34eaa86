\* A PUBACK from before the loss acknowledges a later message.
CONSTANTS
    e1 = e1
    e2 = e2
    e3 = e3
    w1 = w1
    w2 = w2
    Event = {e1, e2}
    Watcher = {w1, w2}
    Malformed = Malformed
    Unstorable = {}
    Nobody = Nobody
    NoMessage = NoMessage
    Max = 1
    QueueLimit = 2
    MaxPublished = 2
    MaxFaults = 1
    MaxLosses = 1
    MaxReconnects = 1

SPECIFICATION Spec

SYMMETRY Symmetry

INVARIANTS
    NothingLost
