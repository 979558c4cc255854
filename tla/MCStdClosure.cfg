\* Every index over two functions, two constants and two exported variables.
SPECIFICATION FairSpec
CONSTANTS
    f1 = f1  f2 = f2  c1 = c1  c2 = c2  x1 = x1  x2 = x2
    Fns = {f1, f2}
    Consts = {c1, c2}
    Owner <- MCOwner
    RootNames = {f1, x1, x2}
    BodyNames = {f1, x1, c1}
    CaseNames = {f2}
    InitNames = {c1, c2}
INVARIANTS
    PlanComplete
    PlanMinimal
PROPERTY Terminates
CHECK_DEADLOCK FALSE
