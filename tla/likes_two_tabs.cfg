SPECIFICATION Spec
CONSTANTS
    c1 = c1
    c2 = c2
    c3 = c3
    u1 = u1
    u2 = u2
    g1 = g1
    g2 = g2
    None = None
    Client = {c1, c2}
    User = {u1, u2}
    Guest = {g1, g2}
    Server = {s1}
    VotersOf <- SameUser
    MaxLapsed = 0
    MaxFaults = 0
    MaxStray = 1
INVARIANT TallyMatchesVotes
