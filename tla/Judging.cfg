SPECIFICATION Spec
CONSTANTS
    Orders <- MCOrders
    BotOf <- MCBotOf
    Prices <- MCPrices
    MaxQty = 2
    jitterGapThreshold = 2
    MaxCancels = 1
    MaxFaults = 1
    MaxWithheld = 1
    MaxLate = 1
INVARIANTS TypeOK BooksAgree HonestScoresFull FleetScoresUnlessDisturbed
           MisreportCosts OnlySelfCrosses
CHECK_DEADLOCK FALSE
