SPECIFICATION Spec
CONSTANTS
    Users = {u1}
    Nobody = Nobody
    Slots = {s1, s2}
    MemberLimit = 2
    OutsiderLimit = 1
    MaxCount = 2
INVARIANTS TypeOK AdmittedByOwner RewriteKeepsIntro LimitHoldsAlone
PROPERTY AwayLosesRow
