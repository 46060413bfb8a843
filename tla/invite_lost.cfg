SPECIFICATION Spec
CONSTANTS
    Users = {u1}
    Nobody = Nobody
    Slots = {s1}
    MemberLimit = 2
    OutsiderLimit = 1
    MaxCount = 1
INVARIANT InvitedStaysApproved
