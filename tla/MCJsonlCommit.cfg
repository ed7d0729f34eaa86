\* Every interleaving of two writers, crashes and torn writes unlimited.
CONSTANTS
    b1 = b1
    b2 = b2
    h1 = h1
    h2 = h2
    Byte = {b1, b2}
    Event <- ThreeIds
    Handle = {h1, h2}
    NoHandle = NoHandle
    NoEvent = NoEvent

SPECIFICATION FairSpec

INVARIANTS
    TypeOK
    CommittedExact
    AnswersHold
    IInv

PROPERTIES
    CommittedNeverTouched
    ImplementsHistory
    WaiterServed
