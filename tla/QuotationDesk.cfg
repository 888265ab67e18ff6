SPECIFICATION FairSpec
CONSTANTS
    Requests = {r1, r2}
    MaxRounds = 1
    MaxCrashes = 1
    MaxFailures = 1
INVARIANTS
    TypeOK
    QuotationsAreApproved
    OneFinalMail
    ClaimsAreTrue
    OpenCardIsAlive
PROPERTIES
    OverIsOver
    IsPricedOrHeld
CHECK_DEADLOCK FALSE
