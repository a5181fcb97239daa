SPECIFICATION Spec
CONSTANTS
    Visitor = {v1, v2}
    Server = {s1, s2}
    Listed = {s1}
    TopN = 2
    MaxLikes = 1
    MaxChanges = 3
    NoBoard = NoBoard
INVARIANTS
    TypeOK
    ServedIsARanking
PROPERTY BoardCatchesUp
