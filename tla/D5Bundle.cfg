CONSTANTS
    Workers = {w1}
    Recoverers = {r1}
    Claimants = {c1, c2}
    Plans = {{"evidence", "alternative"}, {"assumption"}}
    None = None
    MaxSeq = 2
    MaxFailures = 1
    MaxLosses = 0
SYMMETRY Symmetric
SPECIFICATION Spec
PROPERTIES RecoveryFreesBundle
