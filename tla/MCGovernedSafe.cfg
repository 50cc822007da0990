SPECIFICATION Spec
CONSTANTS
    Principals = {p1, p2}
    Nobody = Nobody
    Owners = {1, 2, 3, 4}
    SafeAddress = 5
    Creators = {2}
    MaxSigners = 3
    RecoveryDelays = {1}
    ParentDelays = {0, 1}
    EXECUTION_WINDOW = 0
    MAX_ACTIVITY_CHECKPOINT_AGE = 2
    Checkpoints <- MCCheckpoints
    FirstAccumulator = "lane"
    FirstSource = "log"
    Pinned = {0}
    ActivityTimes <- MCActivityTimes
    Policies = {3}
    MemberCalls <- MCMemberCalls
    QueueCalls <- MCQueueCalls
    MaxTime = 2
    MaxNonce <- MCMaxNonce
    MaxMemberCalls = 1
SYMMETRY Symmetry
INVARIANTS
    RotationsLand
PROPERTIES
    ImplementsTimelock
CHECK_DEADLOCK FALSE
