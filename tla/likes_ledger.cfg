SPECIFICATION FairSpec
CONSTANTS
    c1 = c1
    c2 = c2
    c3 = c3
    u1 = u1
    u2 = u2
    g1 = g1
    g2 = g2
    None = None
    Client = {c1, c2}
    User = {u1, u2}
    Guest = {g1, g2}
    Server = {s1, s2}
    VotersOf <- MixedTabs
    MaxLapsed = 2
    MaxFaults = 0
    MaxStray = 0
INVARIANT TallyMatchesVotes
PROPERTY LedgerSpec
PROPERTY LikeAnswered
