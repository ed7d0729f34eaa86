\* What is not true without the lock, or once a sidecar has been deleted.
\* TLC stops at the first property it finds violated: leave in the one to see.
\* AppendIdempotent is the last one to see: it takes some minutes.
CONSTANTS
    b1 = b1
    b2 = b2
    h1 = h1
    h2 = h2
    r1 = r1
    g1 = g1
    Byte = {b1, b2}
    Event <- UnevenIds
    Handle = {h1, h2}
    Reader = {}
    Getter = {g1}
    PageMax = 2
    NoHandle = NoHandle
    NoEvent = NoEvent
    MaxDeletes = 1
    MaxRecords = 4

SPECIFICATION DisposableSpec

SYMMETRY Symmetry

INVARIANTS
    GetFindsCommitted
    NextWriteRebuilds
    StoredOnce
    AppendIdempotent
