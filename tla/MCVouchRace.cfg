SPECIFICATION Spec
CONSTANTS
    u1 = u1
    u2 = u2
    Uids = {u1, u2}
    Signatures = {0, 1, 2}
    Operations <- MCOneOperation
    Imported = {}
    Handlers = {h1, h2}
    Capacity = 11
    E0_ENTRY_WORK_UNITS = 4
    MaxSigned = 3
    MaxReorgs = 0
INVARIANT
    ConflictIsTrue
CHECK_DEADLOCK FALSE
