\* Edits between builds only; crashes and failed compiles at any step; all three
\* end, and builds keep being asked for.
SPECIFICATION FairSpec
CONSTANTS
    Contents = {v1, v2}
    Absent = Absent
    EditsDuringBuild = FALSE
    MaxEdits = 2
    MaxFaults = 1
INVARIANTS
    StampHonest
    ReadyIsCurrent
PROPERTIES
    NoNeedlessRebuild
    Settles
CHECK_DEADLOCK TRUE
