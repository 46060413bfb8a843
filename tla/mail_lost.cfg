SPECIFICATION FairSpec
CONSTANTS
    Users = {u1}
    NumNotes = 2
    Batch = 1
    Hours = 3
    QuietStart = 2
    QuietEnd = 1
    MaxFaults = 1
PROPERTIES NightMailArrives
