SPECIFICATION Spec
CONSTANTS
    c1 = c1
    c2 = c2
    p1 = p1
    p2 = p2
    Client = {c1, c2}
    Person = {p1, p2}
    PeopleOf <- TwoShareOne
    Spelling <- MixedOrNone
    ProviderOf <- OneEach
    Members <- SignedIn
    Before <- Twice
    MaxCodes = 4
    MaxUsers = 4
    MaxFaults = 1
    NoCode = NoCode
    Nobody = Nobody
INVARIANTS
    TypeOK
    OneAccountUnlessOvertaken
    CodeProvesAddress
    SendsBounded
