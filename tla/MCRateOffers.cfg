SPECIFICATION Spec
CONSTANTS
    Results <- MCResults
    Limit = 1
    MaxMessages = 1
    Unstated = Unstated
INVARIANTS
    OptionsAreBest
    EveryRateIsOfferedOnce
    TradeoffsArePareto
    ShownRatesAreQuotable
    QuotedAsReviewed
CHECK_DEADLOCK FALSE
