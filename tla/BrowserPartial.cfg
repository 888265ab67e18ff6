SPECIFICATION Spec
CONSTANTS
    Shipments <- MCShipments
    Suggest <- MCSuggest
    GoodsMenu <- MCGoodsMenu
    Catalog <- MCCatalog
    GeneralCargo = "GEN"
    Harvests <- MCHarvests
    Null = Null
    Stable = 3
    SettleMax = 2
    Timeout = 6
    MaxPause = 2
    Attempts = 3
    MaxJobs = 2
INVARIANT PartialIsRefused
CHECK_DEADLOCK FALSE
