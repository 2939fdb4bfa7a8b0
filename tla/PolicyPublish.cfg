SPECIFICATION Spec
CONSTANTS
    None = None
    p1 = p1
    p2 = p2
    Clients <- MCClients
    Proposals <- MCProposals
    Requests <- MCRequests
    Approval <- MCApproval
    Authority <- MCAuthority
    MaxEntries = 2
SYMMETRY Symmetry
INVARIANTS PublishedApproved NeverAmbiguous RulingStands ExceptionBacked
PROPERTIES RegisterSpec
CHECK_DEADLOCK FALSE
