SPECIFICATION Spec
CONSTANTS
    Events = {e1, e2}
    NoEvent = NoEvent
    NoField = NoField
    MaxLayers = 2
SYMMETRY Symmetry
INVARIANTS TypeOK AnswersReady OwnAnswers PeriodAsAnswered AskedIsExpected TypedLandsWhereAsked
PROPERTY BackGoesBack
