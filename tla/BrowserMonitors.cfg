\* two tabs, one monitor, two attempts per run
SPECIFICATION FairSpec
CONSTANTS
    t1 = t1
    t2 = t2
    m1 = m1
    Gone = Gone
    None = None
    Tabs = {t1, t2}
    Monitors = {m1}
    MaxAttempts = 2
    Throttled = TRUE
PROPERTIES LeaderReturns StaysWatched
CHECK_DEADLOCK FALSE
