SPECIFICATION Spec
CONSTANTS
    CHUNK_SIZE = 4
    MAX_DATABASE_FILE_SIZE = 64
    FileSizes <- MCFileSizes
INVARIANT RefusedExceeds
CHECK_DEADLOCK FALSE
