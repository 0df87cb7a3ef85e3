\* two workspaces, two users whose roles change, two collections and a folder
SPECIFICATION Spec
CONSTANTS
    w1 = w1
    w2 = w2
    u1 = u1
    u2 = u2
    c1 = c1
    c2 = c2
    e1 = e1
    f1 = f1
    None = None
    Workspaces = {w1, w2}
    Users = {u1, u2}
    Collections = {c1, c2}
    Environments = {}
    Folders = {f1}
    Times = {1, 2}
    Batches <- MCBatches
    MaxVersion = 2
INVARIANTS FolderScope
PROPERTIES ActivityTruthful ImplementsLwwStore WritesAuthorised
SYMMETRY Symmetry
CHECK_DEADLOCK FALSE
