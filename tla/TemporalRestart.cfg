CONSTANTS
    Workers = {w1, w2}
    Recoverers = {r1}
    Attempts = {a1, a2}
    Events = {e1}
    Results = {x1}
    FailureReceipts = {f1}
    RecoveryFailure = rf
    None = None
    SharedAttempts = FALSE
    LiveRecovery = FALSE
    MaxSeq = 2
    MaxCrashes = 2
SPECIFICATION FairSpec
INVARIANTS OneTerminalReceipt
PROPERTIES RetiredWithReceipt PreparedIsSettled
