SPECIFICATION TuiSpec
CONSTANTS
    MAX_MASTER_PASSWORD_LENGTH = 3
    Keys <- MCKeys
    Menus <- MCMenus
PROPERTY TerminatorInBuffer
