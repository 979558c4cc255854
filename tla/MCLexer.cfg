SPECIFICATION LexSpec
CONSTANTS
    Sources <- MCSources
    WordBits = 8
    PadDigits = 2
    MaxWord <- MCMaxWord
    MaxInt <- MCMaxInt
    InfDigits <- MCInfDigits
    ExpDigits = 1
INVARIANTS
    LinesRight
    NothingLost
    NumbersKept
    RefusedHasNul
PROPERTY Ends
CHECK_DEADLOCK FALSE
