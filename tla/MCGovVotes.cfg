SPECIFICATION Spec
CONSTANTS
    m1 = m1
    m2 = m2
    r1 = r1
    r2 = r2
    t1 = t1
    Accounts = {m1, m2}
    NoAccount = NoAccount
    Snapshots = {s1}
    Roots = {r1, r2}
    NoRoot = NoRoot
    Leaves <- MCLeaves
    TotalValue <- MCTotalValue
    Targets = {}
    Batches <- MCQuiet
    NoChange = NoChange
    DefaultSettings <- MCDefaults
    Delays = {1}
    Periods = {1}
    Quorums = {2}
    ExecutionDelays = {1}
    QUORUM_RANGE = 4
    EXECUTION_WINDOW = 1
    MIN_ACTIVITY_CHECKPOINT_INTERVAL = 1
    MaxBlock = 2
    MaxProposals = 1
    MaxCheckpoints = 3
INVARIANTS
    TallyIsTheBallots
    ActivityIsDirect
PROPERTIES
    DirectVotesAreFinal
CHECK_DEADLOCK FALSE
