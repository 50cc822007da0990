SPECIFICATION FairSpec
CONSTANTS
    Keys = {1, 2}
    MaxInputs = 2
    Confirmations = 1
    ReorgDepth = 1
    ProofCost = 2
    GasCost = 1
    BudgetCents = 6
    Threshold = 2
    MaxFaults = 1
    MaxUpsets = 0
CHECK_DEADLOCK FALSE
PROPERTIES
    Reattaches
