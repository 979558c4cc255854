SPECIFICATION Spec
CONSTANTS
    IntBits = 4
    WordBits = 8
    Cases <- MCCases
    Lists = {"a"}
    Lens <- MCLens
    WordVars <- MCWordVars
    MaxPushes = 2
INVARIANTS UncheckedInBounds HoistedLengthsHold GuardIsExact
CHECK_DEADLOCK FALSE
