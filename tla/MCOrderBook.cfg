CONSTANTS
    kMaxPriceTicks = 2
    kMaxOrders = 3
    OrderIds = {1, 2, 4}
    Quantities = {1, 2}
    MaxAdds = 4
    nullptr = nullptr
    NoMessage = NoMessage
    NoReport = NoReport
SPECIFICATION MCSpec
INVARIANTS TypeOK PoolSound LinksSound BestExact NotCrossed MapSound FillsSound
PROPERTIES TradePriority ModifyNeverTrades
