\* one tab, two connections, one fault
SPECIFICATION Spec
CONSTANTS
    w1 = w1
    w2 = w2
    u1 = u1
    u2 = u2
    t1 = t1
    c1 = c1
    c2 = c2
    None = None
    Workspaces = {w1, w2}
    Users = {u1, u2}
    Tabs = {t1}
    Creator <- Creators
    UserOf <- AllOf
    Conns = {c1, c2}
    MaxVersion = 1
    MaxFaults = 1
INVARIANTS HubIsOpenSockets OneSocketPerTab
PROPERTIES LeaversAreCut SubscriptionHeals
CHECK_DEADLOCK FALSE
