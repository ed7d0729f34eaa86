\* An event that parses and cannot be stored, in front of another.
CONSTANTS
    e1 = e1
    e2 = e2
    e3 = e3
    w1 = w1
    w2 = w2
    Event = {e1, e2}
    Watcher = {w1}
    Malformed = Malformed
    Unstorable = {e1}
    Nobody = Nobody
    NoMessage = NoMessage
    Max = 2
    QueueLimit = 2
    MaxPublished = 2
    MaxFaults = 0
    MaxLosses = 0
    MaxReconnects = 0

SPECIFICATION FairSpec

PROPERTIES
    EverythingReachesTheCaller
