SPECIFICATION Spec
CONSTANTS
    CAPACITY = 95
    Requests <- MCRequests
PROPERTY EveryListReturns
CHECK_DEADLOCK FALSE
