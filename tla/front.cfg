SPECIFICATION FairSpec
CONSTANTS
    t1 = t1
    t2 = t2
    Tab = {t1, t2}
    KindsOf <- TwoTabs
    User = {u1, u2}
    Avatar = {a1}
    NoAvatar = NoAvatar
    Nobody = Nobody
    Path = {"avatar"}
    Limit = 1
    MaxFaults = 1
INVARIANTS
    TypeOK
    AdmittedBounded
    SignedOutStays
    AvatarIsCurrent
PROPERTY LetInAgain
