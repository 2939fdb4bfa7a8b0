CONSTANTS
    Workers = {w1, w2}
    Recoverers = {r1}
    Attempts = {a1, a2}
    Events = {e1}
    Results = {x1}
    FailureReceipts = {f1}
    RecoveryFailure = rf
    None = None
    SharedAttempts = TRUE
    LiveRecovery = TRUE
    MaxSeq = 2
    MaxCrashes = 1
SYMMETRY Symmetric
SPECIFICATION Spec
INVARIANTS ChainReconstructs ActiveIsCurrent CompletedIsCommitted
PROPERTIES ChainSpec
