\* A client that is closed and connected again, and `events emit`.
CONSTANTS
    m1 = m1
    m2 = m2
    Message = {m1, m2}
    Hot = {m2}
    MaxDrops = 2
    MaxLives = 2

SPECIFICATION EmitFairSpec

INVARIANTS
    TypeOK
    ConfirmedMeansTaken
    ExitsAreTrue

PROPERTIES
    ClosedIsFinal
    OnlineInTheEnd
    EmitAnswers
