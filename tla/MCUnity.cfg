SPECIFICATION UnitySpec

CONSTANTS
    CHAR_BIT = 2
    FLT_MAX = 100
    PRECISION = 10
    Details <- MCDetails
    Statements <- MCStatements
    Suites <- MCSuites

INVARIANTS
    UnityTypeOK
    CountsWhatItPrinted
    VerdictsAreRight
    ReachesWhatItShould
    NamesTheDifference

PROPERTY SuiteEnds

CHECK_DEADLOCK FALSE
