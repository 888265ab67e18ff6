SPECIFICATION Spec
CONSTANTS
    Workers = {w1}
    Jobs = {j1, j2}
    Clients = {desk}
    Nobody = Nobody
    MaxQueue = 2
    MaxStalls = 0
    MaxDeaths = 1
    MaxBlips = 0
    MaxVisits = 0
INVARIANTS
    LostSearchIsNeverStranded
CHECK_DEADLOCK FALSE
