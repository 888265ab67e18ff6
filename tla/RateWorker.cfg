SPECIFICATION Spec
CONSTANTS
    Workers = {w1, w2}
    Jobs = {j1, j2}
    Clients = {desk}
    Nobody = Nobody
    MaxQueue = 2
    MaxStalls = 0
    MaxDeaths = 1
    MaxBlips = 0
    MaxVisits = 1
INVARIANTS
    TypeOK
    OneBrowser
    RecordedLossIsRemembered
    OnlyLostSearchesAreRequeued
    SignInIsAskedFor
CHECK_DEADLOCK FALSE
