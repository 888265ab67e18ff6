SPECIFICATION FairSpec
CONSTANTS
    Workers = {w1, w2}
    Jobs = {j1}
    Clients = {desk}
    Nobody = Nobody
    MaxQueue = 2
    MaxStalls = 1
    MaxDeaths = 1
    MaxBlips = 1
    MaxVisits = 0
PROPERTIES
    NoSearchHangs
CHECK_DEADLOCK FALSE
