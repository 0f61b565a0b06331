CONSTANTS
    Capacity = 4
    MaxItems = 6
    Items = {1, 2}
    nullopt = nullopt
SPECIFICATION MCSpec
INVARIANTS TypeOK NoDataRace InOrder
PROPERTIES AnswersHold ImplementsQueue AllTransferred
