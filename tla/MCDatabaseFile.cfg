SPECIFICATION Spec
CONSTANTS
    CHUNK_SIZE = 4
    MAX_DATABASE_FILE_SIZE = 64
    FileSizes <- MCFileSizes
INVARIANTS
    TypeOK
    ReadFits
    SlackBehindData
    AcceptedWhole
    LimitKept
PROPERTY Ends
\* A reading that has ended takes no further step.
CHECK_DEADLOCK FALSE
