SPECIFICATION Spec
CONSTANTS
    a1 = a1
    a2 = a2
    Accounts <- MCAccounts
    Trees <- MCTrees
    Deployments <- MCDeployments
    NoTree = NoTree
    Funders = {f1}
    Recipients = {r1}
    Snapshots = {s1}
    Tokens = {taxed}
    Taxed = {taxed}
    TransferTax = 1
    Amounts = {5}
    Windows = {0, 1}
    FeeCaps = {2}
    FEE_RANGE = 2
    FEE_INCREASE_DELAY = 2
    MaxTime = 4
    MaxRounds = 2
    MaxOwnerActs = 2
INVARIANT Solvent
INVARIANT ClaimsFit
INVARIANT FeeRisesAnnounced
PROPERTY WindowsKept
CHECK_DEADLOCK FALSE
