CONSTANTS
    Workers = {w1, w2}
    Recoverers = {r1}
    Claimants = {c1, c2}
    Plans = {{"evidence", "alternative"}}
    None = None
    MaxSeq = 2
    MaxFailures = 1
    MaxLosses = 1
SPECIFICATION FairSpec
INVARIANTS GenerationsReconstruct MarkerIsCurrent CommitsArePublished
PROPERTIES RegisterSpec MarkerIsSettled
