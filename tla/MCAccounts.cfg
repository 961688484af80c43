SPECIFICATION Spec
CONSTANTS
    Word <- MCWord
    Number <- MCNumber
    COMMA = COMMA
    NEWLINE = NEWLINE
    NUL = NUL
    NONE = NONE
    Files <- MCFiles
    Slacks <- MCSlacks
    AVERAGE_DATABASE_ENTRY_SIZE = 8
INVARIANTS
    TypeOK
    ListInBounds
    StringsStayInLine
PROPERTIES
    ImplementsCsv
    Ends
\* A parser that is through takes no further step.
CHECK_DEADLOCK FALSE
