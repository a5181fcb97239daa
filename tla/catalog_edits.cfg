SPECIFICATION Spec
CONSTANTS
    Client = {c1, c2}
    User = {u1}
    Domain = {d1, Blank}
    Blank = Blank
    NoDomain = NoDomain
    Name = {n1}
    Nobody = Nobody
    MaxServers = 2
    MaxChallenges = 2
INVARIANTS
    TypeOK
    VotesSurviveEdits
    QuietEditsLast
    VerifiedWasPublished
SYMMETRY Alike
