SPECIFICATION Spec
CONSTANTS
    Accumulators = {a1}
    Registries = {}
    WorkAware = {}
    NoRegistry = NoRegistry
    WorkUnits = {}
    Params = {p1, p2}
    NoParams = NoParams
    Verifiers = {v1}
    Recipients = {}
    NoRecipient = NoRecipient
    EpochLengths = {0, 2}
    NoState = NoState
    MaxBlock = 4
    MaxLeaves = 1
    MaxAnchors = 0
    MaxCheckpoints = 3
SYMMETRY SymParams
INVARIANTS
    PendingStaysProvable
    HistoryAscending
    SlotsProvePinnedInputs
    QueriesFindNewestAtOrBefore
    OneCheckpointPerEpoch
PROPERTIES
    ImplementsProvenHistory
CHECK_DEADLOCK FALSE
