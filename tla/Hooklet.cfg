\* two endpoints that keep two events, a webhook and its retries, two handlers
SPECIFICATION Spec
CONSTANTS
    u1 = u1
    e1 = e1
    e2 = e2
    d1 = d1
    h1 = h1
    s1 = s1
    s2 = s2
    None = None
    Users = {u1}
    Endpoints = {e1, e2}
    Devices = {d1}
    Hooks = {h1}
    Slots = {s1, s2}
    MaxEvents = 2
    MaxId = 4
INVARIANTS NothingOrphaned AckedIsStored
PROPERTIES KeepsNewest HandlersEnd
CHECK_DEADLOCK FALSE
