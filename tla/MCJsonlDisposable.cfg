\* A reader and a lookup beside two writers; a sidecar may be deleted.
CONSTANTS
    b1 = b1
    b2 = b2
    h1 = h1
    h2 = h2
    r1 = r1
    g1 = g1
    Byte = {b1, b2}
    Event <- TwoIds
    Handle = {h1, h2}
    Reader = {r1}
    Getter = {g1}
    PageMax = 2
    NoHandle = NoHandle
    NoEvent = NoEvent
    MaxDeletes = 1
    MaxRecords = 3

SPECIFICATION DisposableSpec

SYMMETRY Swaps

INVARIANTS
    LogDecides
    PagesAreHistory
    FoundWhileWhole
