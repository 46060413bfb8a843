SPECIFICATION FairSpec
CONSTANTS
    Users = {u1, u2, u3}
    Tasks = {t1}
    NoUser = NoUser
    Limits = {0, 1, 2}
    MaxLimit = 2
    MaxGuests = 1
    MaxSeats = 1
    CarpoolOn = TRUE
    Handlers <- MemberHandlers
PROPERTIES ImplementsSeatBook PromotedInTurn FreedSeatIsTaken
