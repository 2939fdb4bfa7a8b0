CONSTANTS
    None = None
    e1 = e1
    e2 = e2
    alice = alice
    bob = bob
    Admitters = {e1, e2}
    Requests <- MCRequests
    Registered <- MCRegistered
    Authorities <- MCAuthorities
    Roots = {r}
    MaxTick = 1
    MaxCalls = 2
    MaxFailures = 1
SPECIFICATION Spec
SYMMETRY Symmetry
INVARIANTS EveryRequestAnswered
CHECK_DEADLOCK FALSE
