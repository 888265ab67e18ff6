CONSTANTS
    Requests = {r1}
    Extractions <- MCExtractions
    Text <- MCText
    NoValue = NoValue
    NoTime = NoTime
    DaysPerYear = 3
    MaxRounds = 2
    FollowupWindow = 1
    DayLength = 2
    Horizon = 4
SPECIFICATION FairSpec
INVARIANTS
    TypeOK
    DraftHeldForNeedsInfo
    EverythingOutstandingIsAsked
    ValidatedIsComplete
    OneReminderPerClarification
    RoundBudgetKept
    AtMostOneFailureNotice
PROPERTIES
    KnownFactsAreKept
    ValidatedWithLiveDate
    ReminderIsSettled
CHECK_DEADLOCK FALSE
