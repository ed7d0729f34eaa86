\* One caller; its process, its connection and the broker fail.
CONSTANTS
    e1 = e1
    e2 = e2
    e3 = e3
    w1 = w1
    w2 = w2
    Event = {e1, e2}
    Watcher = {w1}
    Malformed = Malformed
    Unstorable = {}
    Nobody = Nobody
    NoMessage = NoMessage
    Max = 2
    QueueLimit = 2
    MaxPublished = 3
    MaxFaults = 2
    MaxLosses = 1
    MaxReconnects = 1

SPECIFICATION FairSpec

INVARIANTS
    CursorCovers

PROPERTIES
    EverythingReachesTheCaller
