SPECIFICATION GovernanceSpec
CONSTANTS
    Accounts = {c1, c2, c3}
    NoAccount = NoAccount
    Hooks = {h1, h2, h3}
    NoHook = NoHook
    Documents = {d1, d2}
    MaxRevision = 1
SYMMETRY Symmetry
INVARIANTS
    AuthorityNeverLost
    HandoffOnlyByHolder
    HooksNotifiedOnce
