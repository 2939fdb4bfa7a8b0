CONSTANTS
  None = None
  asmA = asmA
  asmB = asmB
  evV = evV
  admitter = admitter
  proposer = proposer
  Clients = {p, q}
  IdOrder <- MCIdOrder
  Assumptions <- MCAssumptions
  PolicyAt <- MCPolicyAt
  Grants <- MCGrants
  CommittedAt = 1
  MaterialReason <- MCMaterial
  Offers <- MCOffers
  Admitters = {admitter}
  AdmitClocks = {3}
  MaxEvents = 2
  Cloned <- MCCloned
  Needed <- MCNeeded
SPECIFICATION Spec
SYMMETRY Symmetry
INVARIANTS HeadsReconstruct CloneWithin DecidedOnOneState
PROPERTIES AdmitOnCurrentState JournalSpec
CHECK_DEADLOCK FALSE
