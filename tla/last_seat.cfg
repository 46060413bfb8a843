SPECIFICATION Spec
CONSTANTS
    Users = {u1, u2}
    Tasks = {t1, t2}
    NoUser = NoUser
    Limits = {1}
    MaxLimit = 1
    MaxGuests = 0
    MaxSeats = 1
    CarpoolOn = FALSE
    Handlers <- JoinHandlers
INVARIANTS LimitRespected
