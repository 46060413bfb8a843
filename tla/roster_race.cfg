SPECIFICATION Spec
CONSTANTS
    Users = {u1, u2, u3}
    Tasks = {t1, t2}
    NoUser = NoUser
    Limits = {1, 2}
    MaxLimit = 2
    MaxGuests = 1
    MaxSeats = 1
    CarpoolOn = FALSE
    Handlers <- RaceHandlers
SYMMETRY Symmetry
INVARIANTS TypeOK OverbookingBounded
