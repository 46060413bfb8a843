SPECIFICATION Spec
CONSTANTS
    Users = {u1, u2, u3}
    Tasks = {t1}
    NoUser = NoUser
    Limits = {0}
    MaxLimit = 0
    MaxGuests = 0
    MaxSeats = 2
    CarpoolOn = TRUE
    Handlers <- CarHandlers
SYMMETRY Symmetry
INVARIANTS CancelledGainsOnlyCars
PROPERTIES BoardsFreeSeat
