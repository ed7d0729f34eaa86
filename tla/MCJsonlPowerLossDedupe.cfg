\* A torn id left by a power cut breaks the dedupe of a later event.
CONSTANTS
    b1 = b1
    b2 = b2
    h1 = h1
    Byte = {b1, b2}
    Event <- ThreeIds
    Handle = {h1}
    NoHandle = NoHandle
    NoEvent = NoEvent

SPECIFICATION PowerSpec

INVARIANTS
    AppendIdempotent
