\* What is said of the client and of its publishes.
\* TLC stops at the first property it finds violated: leave in the one to see.
CONSTANTS
    m1 = m1
    m2 = m2
    Message = {m1}
    Hot = {m1}
    MaxDrops = 1
    MaxLives = 1

SPECIFICATION EmitSpec

INVARIANTS
    ConnectingIsNotConnected
    WaitMeansTaken
