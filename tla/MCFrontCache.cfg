\* Two builds of a program, the library loaded lazily, edits at any moment, a kill.
SPECIFICATION Spec
CONSTANTS
    Builds = {b1, b2}
    Keys = {k1, k2}
    EntryFiles = {"raw.out", "lex.err", "parse.err", "rc"}
    Gone = Gone
    Torn = Torn
    SameFs = TRUE
    CacheMax = 1
    MaxCrashes = 1
    StdLazy = TRUE
    MaxEdits = 1
SYMMETRY Symmetry
INVARIANTS
    NeverAnothersOutput
    CacheBounded
