\* Main and two workers; the rings wrap around and the slots are reused.
SPECIFICATION FairSpec
CONSTANTS
    main = main  w1 = w1  w2 = w2
    Threads = {main, w1, w2}
    Main = main
    NSlots = 2
    NThr = 3
    Caps = {1, 2}
    MaxSends = 3
    MaxOpens = 2
INVARIANTS
    RuleKeepersDoNotTrap
    LookupStaysValid
    NoLostWakeup
    JoinGivesOwnResult
PROPERTIES
    QueueSpec
    ThreadsEnd
CHECK_DEADLOCK FALSE
