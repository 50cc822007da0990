SPECIFICATION Spec
CONSTANTS
    Instances = {i1}
    Snapshots = {s1, s2}
    NoSnapshot = NoSnapshot
    WithProvenance = {s1, s2}
    Frozen = {1, 2, 3}
    Size <- MCSize
    Inputs <- MCInputs
    Provable = {g1}
    SizedPrograms = {p1}
    FlatPrograms = {}
    UnknownPrograms = {}
    BandLimits <- MCBandLimits
    Accounts = {com, a1}
    NoAccount = NoAccount
    Community1 = com
    Constitutional <- MCConstitutional
    Deposits = {6}
    Withdrawals <- MCWithdrawals
    Fees <- MCFees
    Caps = {5}
    Intervals = {1}
    MinPayouts = {0}
    GasLimits <- MCGasLimits
    GasUsed = {5}
    BaseFees = {2}
    Feeds <- MCFeedsRange
    MinEthUsd = 2
    MaxEthUsd = 3
    FeedMaxStaleness = 1
    EthScale = 4
    UsdPerUsdc = 2
    WithdrawalNotice = 1
    MaxBlock = 2
    MaxHeld = 6
    MaxCheckpoints <- MCMaxCheckpoints
    s1 = s1
    MaxRequests = 2
INVARIANTS
    FeeFollowsCommittedPayee
    CopiedProofStillPays
    QuotesAreHonoured
    Solvent
    StatementPaidOnce
    CadenceRespected
PROPERTIES
    WithdrawalsGaveNotice
CHECK_DEADLOCK FALSE
