CONSTANTS
    kMaxPriceTicks = 1
    kMaxOrders = 2
    OrderIds = {1, 2, 3}
    Quantities = {1, 2}
    Feed <- Messages
    kInboundQueueSize = 3
    kOutboundQueueSize = 2
    MaxFrames = 2
    nullptr = nullptr
    nullopt = nullopt
    NoMessage = NoMessage
    NoReport = NoReport
SPECIFICATION CSpec
INVARIANT TickToTrade
