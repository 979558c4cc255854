SPECIFICATION Spec
CONSTANTS
    ElemType <- MCElemType
    Fields <- MCFields
    FreshFns = {}
    Builtins <- MCBuiltins
    MaxParams = 2
    WordWidth = 8
    IntWidth = 4
    Texts <- MCTexts
    Fuel = 80
    Inputs <- MCInputs
    Programs <- MCPrograms
    Hash <- MCHash
INVARIANTS
    FinalIsLeast
    MemorySafe
    SameResult
    KeptIsReached
    WellFormed
    
