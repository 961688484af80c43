SPECIFICATION Spec
CONSTANTS
    CAPACITY = 95
    Requests <- MCRequests
INVARIANT TerminatorInBlock
CHECK_DEADLOCK FALSE
