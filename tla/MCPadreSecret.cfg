SPECIFICATION MCSpec
CONSTANTS
    MAX_MASTER_PASSWORD_LENGTH = 2
    Keys <- MCKeys
    Menus <- MCMenus
    Word <- MCWord
    Number <- MCNumber
    COMMA = COMMA
    NEWLINE = NEWLINE
    NUL = NUL
    NONE = NONE
    Files <- MCFiles
    Slacks <- MCSlacks
    CommandLines <- MCCommandLines
    Cut <- MCCut
    STDIN <- MCSTDIN
    ZERO <- MCZERO
    TOO_LONG = TOO_LONG
    ENDLESS = ENDLESS
    Members <- MCMembers
    Scrypt <- MCScrypt
INVARIANT NoExitWithSecret
CHECK_DEADLOCK FALSE
