SPECIFICATION Spec
CONSTANTS
    Sources <- MCSources
    NoTree = NoTree
INVARIANTS
    TreeKept
    BlockKept
PROPERTY RoundsConsume
CHECK_DEADLOCK FALSE
