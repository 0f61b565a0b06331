CONSTANTS
    kMaxPriceTicks = 1
    kMaxOrders = 3
    OrderIds = {1, 2, 3, 4, 6, 7}
    Quantities = {1, 3}
    Feed <- Traffic
    kInboundQueueSize = 2
    kOutboundQueueSize = 2
    MaxFrames = 7
    nullptr = nullptr
    nullopt = nullopt
    NoMessage = NoMessage
    NoReport = NoReport
SPECIFICATION MCTrafficSpec
INVARIANTS
    ReportsAccounted
    ReportsFollowMessages
