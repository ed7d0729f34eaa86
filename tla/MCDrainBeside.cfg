\* The session is lost under one running drain; a watch returns an event twice.
\* TLC stops at the first property it finds violated: leave in the one to see.
CONSTANTS
    e1 = e1
    e2 = e2
    e3 = e3
    w1 = w1
    w2 = w2
    Event = {e1, e2}
    Watcher = {w1}
    Malformed = Malformed
    Unstorable = {}
    Nobody = Nobody
    NoMessage = NoMessage
    Max = 2
    QueueLimit = 2
    MaxPublished = 2
    MaxFaults = 1
    MaxLosses = 1
    MaxReconnects = 1

SPECIFICATION Spec

SYMMETRY Symmetry

INVARIANTS
    DrainHears
    NeverSeenTwice
