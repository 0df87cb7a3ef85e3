\* two workspaces, two users, two requests waiting for their body
SPECIFICATION Spec
CONSTANTS
    w1 = w1
    w2 = w2
    u1 = u1
    u2 = u2
    t1 = t1
    s1 = s1
    s2 = s2
    None = None
    Workspaces = {w1, w2}
    Users = {u1, u2}
    Tokens = {t1}
    Slots = {s1, s2}
    MaxInvites = 1
INVARIANTS OwnershipSound NothingOrphaned
PROPERTIES MembersAreInvited InvitationsOnlyAdmit ImplementsWorkspaceRoles
SYMMETRY Symmetry
CHECK_DEADLOCK FALSE
