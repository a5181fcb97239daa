SPECIFICATION Spec
CONSTANTS
    Null = Null
    Start <- ThreeServers
    Draft <- Bodies
    Patch <- Edits
    Query <- Questions
    MaxServers = 4
    MaxChanges = 2
    MaxLikes = 2
INVARIANTS
    TypeOK
    PagesMissFew
    LikedWasVoted
    StatusesComplete
