SPECIFICATION Spec
CONSTANTS
    Accounts = 2
    MaxRetries = 1
    Backoff = 1
    MaxRetryWait = 1
    QuotaHold = 1
    QuotaHoldMax = 3
    Interval = 1
    RetryAfters = {0, 2, 4}
    MaxListed = 1
    None = None
INVARIANTS
    SendReportIsTrue
    RestIsRespected
PROPERTIES
    EveryMailboxIsRead
