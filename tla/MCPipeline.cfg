CONSTANTS
    kMaxPriceTicks = 1
    kMaxOrders = 2
    OrderIds = {1, 2, 3}
    Quantities = {1, 2}
    Feed <- Messages
    kInboundQueueSize = 3
    kOutboundQueueSize = 2
    MaxFrames = 3
    nullptr = nullptr
    nullopt = nullopt
    NoMessage = NoMessage
    NoReport = NoReport
SPECIFICATION MCPSpec
INVARIANTS PTypeOK WireExact FramesAccounted MessagesAccounted ReportsAccounted
PROPERTIES ImplementsBook StopReturns AllHandled
