\* One program, a claim, edits at any moment.
SPECIFICATION Spec
CONSTANTS
    a = a  b = b  f = f  p = p
    Builds = {b1, b2}
    Cases = {a, b, f}
    Programs = {{a, b, f}}
    Claims = {{a, b}}
    Reads <- ReadsOfFile
    Writers = {}
    Paths = {p}
    Contents = {v1, v2}
    NotRead = NotRead
    FreshSets = {{}}
    CaseKeep = 2
    EditsWhileHashing = FALSE
    MaxEdits = 1
SYMMETRY Symmetry
INVARIANTS
    SkipsAreEarned
    ClaimsTogether
