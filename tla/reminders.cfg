SPECIFICATION Spec
CONSTANTS
    Users = {u1, u2}
    Dates = {1, 4}
    Intervals = {1, 2, 3}
    ConfirmLead = 3
    AlertLead = 1
    Horizon = 4
    MaxStrays = 1
INVARIANTS TypeOK NothingTwice OneReminderEach
PROPERTIES LeadIsTrue AnswerKept ReminderGoes
