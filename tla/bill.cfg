SPECIFICATION Spec
CONSTANTS
    Users = {org, u1, u2}
    Organizer = org
    Tasks = {t1, t2}
SYMMETRY Symmetry
INVARIANTS TypeOK ShareAwaited SharesAgree ClosedIsPaid
PROPERTIES ImplementsLedger
