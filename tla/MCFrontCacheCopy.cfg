\* Two builds of one program, $WORK on another file system: publication copies file by file.
SPECIFICATION Spec
CONSTANTS
    Builds = {b1, b2}
    Keys = {k1}
    EntryFiles = {"raw.out", "lex.err", "parse.err", "rc"}
    Gone = Gone
    Torn = Torn
    SameFs = FALSE
    CacheMax = 0
    MaxCrashes = 1
    StdLazy = FALSE
    MaxEdits = 0
SYMMETRY Symmetry
INVARIANTS
    PartialHasCause
