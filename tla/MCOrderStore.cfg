CONSTANTS
    Lists = {1, 2}
    Capacity = 4
    nullptr = nullptr
    NoWalk = NoWalk
SPECIFICATION StoreSpec
INVARIANTS StoreTypeOK PoolExact ListsExact LinkedTest WalkExact
