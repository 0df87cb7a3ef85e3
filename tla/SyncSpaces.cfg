\* one client that moves between two workspaces, ahead of the server clock: losses, reloads
SPECIFICATION Spec
CONSTANTS
    a = a
    b = b
    w1 = w1
    w2 = w2
    x = x
    y = y
    Personal = Personal
    None = None
    Clients = {a}
    Workspaces = {w1, w2}
    Ids = {x, y}
    Defaults = {x}
    Ahead <- AllAhead
    MaxSkew = 0
    MaxTime = 2
    MaxEdits = 1
    MaxSwitches = 2
    MaxLosses = 1
    MaxDrops = 1
    MaxRestarts = 1
    Slots = {1, 2}
INVARIANTS AckedReachesServer DeletionsAreKnown
SYMMETRY Symmetry
CHECK_DEADLOCK FALSE
