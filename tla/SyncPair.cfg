\* two members of one workspace, a lost message
SPECIFICATION JoinedSpec
CONSTANTS
    a = a
    b = b
    w1 = w1
    w2 = w2
    x = x
    y = y
    Personal = Personal
    None = None
    Clients = {a, b}
    Workspaces = {w1}
    Ids = {x}
    Defaults = {}
    Ahead <- InStep
    MaxSkew = 0
    MaxTime = 2
    MaxEdits = 2
    MaxSwitches = 0
    MaxLosses = 1
    MaxDrops = 0
    MaxRestarts = 0
    Slots = {1}
PROPERTIES EditsReachServer Quiesces
CHECK_DEADLOCK FALSE
