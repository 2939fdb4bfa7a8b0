SPECIFICATION PipelineSpec
CONSTANTS
    None = None
    w1 = w1
    w2 = w2
    r1 = r1
    r2 = r2
    s1 = s1
    s2 = s2
    s3 = s3
    single = single
    double = double
    gap = gap
    wide = wide
    Samples = {s1, s2, s3}
    Inventories = {single, double, gap, wide}
    Workers = {w1, w2}
    Outcome <- MCOutcome
    SamplesOf <- MCSamplesOf
    ShardsOf <- MCShardsOf
    Assignments <- MCAssignments
    a1 = a1
    a2 = a2
    seed = seed
    other = other
    Byte = 2
    BlockLength = 1
    MaxDraw = 3
    Hash <- MCHash
    IdentityHash <- MCIdentityHash
    Display <- MCDisplay
    PathOrder <- MCPathOrder
    RequestOrder <- MCRequestOrder
    LedgerBytes <- MCLedgerBytes
    Seed = seed
    Namespace = "v0.4"
    Producer = "producer"
    Prefix <- Case
    Seeds = {seed, other}
    Attempts = {a1, a2}
    Calls <- MCCalls
    Requests <- MCRequests
    MaxChoices = 2
    MaxBytes = 5
    MaxBundles = 2
INVARIANTS
    ReceiptsAgree
    CitedIsDurable
    CanonicalCorpus
    EvidenceReplays
    ChoicesFair
CHECK_DEADLOCK FALSE
