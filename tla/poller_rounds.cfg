SPECIFICATION Spec
CONSTANTS
    Worker = {w1, w2}
    Task = {s1, s2}
    QueueSize = 1
    MaxLikes = 1
    NoBoard = NoBoard
INVARIANTS
    TypeOK
    NoPanic
    RoundsDontOverlap
    BoardOutlivesInterval
PROPERTIES
    BoardIsWholeRound
    RoundEnds
    StopsWhenTold
