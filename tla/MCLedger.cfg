CONSTANTS
    kMaxPriceTicks = 2
    kMaxOrders = 4
    OrderIds = {1, 2, 3, 4}
    Quantities = {1, 2}
    MaxAdds = 4
    MaxWithdrawn = 3
    nullptr = nullptr
    NoMessage = NoMessage
    NoReport = NoReport
SPECIFICATION MCLedgerSpec
INVARIANTS Conservation CountExact TotalCovers MapComplete
PROPERTIES ImplementsMarket CallReturns
