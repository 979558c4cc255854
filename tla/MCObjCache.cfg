\* Two builds share the cache; $WORK is on its file system.
SPECIFICATION Spec
CONSTANTS
    Builds = {b1, b2}
    Keys = {k1, k2, k3}
    EntryFiles = {"bin"}
    Gone = Gone
    Torn = Torn
    SameFs = TRUE
    CacheMax = 1
    MaxCrashes = 1
SYMMETRY Symmetry
INVARIANTS
    ServedWhole
