SPECIFICATION Spec
CONSTANTS
    m1 = m1
    m2 = m2
    r1 = r1
    r2 = r2
    t1 = t1
    Accounts = {m1}
    NoAccount = NoAccount
    Snapshots = {s1, s2}
    Roots = {r1}
    NoRoot = NoRoot
    Leaves <- MCLeavesOne
    TotalValue <- MCTotalValue
    Targets = {t1}
    Batches <- MCRushed
    NoChange = NoChange
    DefaultSettings <- MCDefaults
    Delays = {1}
    Periods = {0, 1}
    Quorums = {0, 2, 4}
    ExecutionDelays = {0, 1}
    QUORUM_RANGE = 4
    EXECUTION_WINDOW = 1
    MIN_ACTIVITY_CHECKPOINT_INTERVAL = 1
    MaxBlock = 6
    MaxProposals = 1
    MaxCheckpoints = 2
INVARIANTS
    ExecutionHonoursCreation
PROPERTIES
    ProposalsOnlyMoveForward
CHECK_DEADLOCK FALSE
