CONSTANTS
  None = None
  asmA = asmA
  asmB = asmB
  asmC = asmC
  evV = evV
  evW = evW
  auth = auth
  modM = modM
  modN = modN
  IdOrder <- MCIdOrder
  Assumptions <- MCAssumptions
  PolicyAt <- MCPolicyAt
  Grants <- MCGrants
  CommittedAt = 0
  MaterialReason <- MCMaterial
  Registries <- MCRegistries
  Clocks <- MCClocks
  Required <- MCRequired
  Projected = {5}
  Intents <- MCIntents
  ModelIntents <- MCIntents
  ModelOrder <- MCModelOrder
  Keyword <- MCKeyword
  Graphs <- MCGraphs
  Uses <- MCUses
  ExpiryAuthority = auth
  Declined = {}
SPECIFICATION Spec
INVARIANTS ReceiptSound RecordsReplay UseSound ModelUseConfirmed AdmitsOnProjectedEvidence ExpiryComplete ImpactsExact
CHECK_DEADLOCK FALSE
