\* a push that arrives after another member polled
SPECIFICATION JoinedSpec
CONSTANTS
    a = a
    b = b
    w1 = w1
    w2 = w2
    x = x
    y = y
    Personal = Personal
    None = None
    Clients = {a, b}
    Workspaces = {w1}
    Ids = {x}
    Defaults = {}
    Ahead <- InStep
    MaxSkew = 0
    MaxTime = 3
    MaxEdits = 2
    MaxSwitches = 0
    MaxLosses = 0
    MaxDrops = 0
    MaxRestarts = 0
    Slots = {1}
PROPERTIES LandsAheadOfCursors
CHECK_DEADLOCK FALSE
