SPECIFICATION Spec
CONSTANTS
    Accumulators = {a1, a2}
    Registries = {r1}
    WorkAware = {r1}
    NoRegistry = NoRegistry
    WorkUnits = {2}
    Params = {p1}
    NoParams = NoParams
    Verifiers = {v1, v2}
    Recipients = {x1}
    NoRecipient = NoRecipient
    EpochLengths = {0}
    NoState = NoState
    MaxBlock = 2
    MaxLeaves = 1
    MaxAnchors = 1
    MaxCheckpoints = 2
SYMMETRY SymContracts
INVARIANTS
    IdsInStep
    StatesAreAsOfTheirBlock
    RepeatedStatementNeedsRotation
CHECK_DEADLOCK FALSE
