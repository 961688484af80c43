SPECIFICATION Spec
CONSTANTS
    CAPACITY = 95
    Requests <- MCRequests
INVARIANTS
    TypeOK
    WritesInBounds
    ReturnsDenotation
    RefusesOnlyTooLong
    ClassIsPosix
PROPERTY TameReturns
\* A call that has returned takes no further step.
CHECK_DEADLOCK FALSE
