\* three monitors, overlapping callbacks, batches of up to two, one PATCH
SPECIFICATION FairSpec
CONSTANTS
    m1 = m1
    m2 = m2
    m3 = m3
    b1 = b1
    b2 = b2
    s1 = s1
    None = None
    Monitors = {m1, m2, m3}
    Intervals = {1}
    Definitions <- MCDefinitions
    Patches <- MCPatches
    Statuses = {"pass", "fail"}
    Timers = {b1, b2}
    Slots = {s1}
    MaxPerTick = 2
    MaxRunsKept = 1
    MaxPatches = 1
INVARIANTS NoOrphanRuns WebhookUpToDate
PROPERTIES DueIsRun
CHECK_DEADLOCK FALSE
