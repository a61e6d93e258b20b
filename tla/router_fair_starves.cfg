SPECIFICATION FairSpec
CONSTANTS
  a1 = a1 a2 = a2 b1 = b1 b2 = b2
  A = A B = B A1 = A1 A2 = A2
  r1 = r1 r2 = r2 r3 = r3 v1 = v1 v2 = v2 c1 = c1 c2 = c2
  Task = {a1, a2, b1, b2}
  Root = {A1, A2, B}
  RootOf <- ThreeRoots
  Replica = {r1}
  Receiver = {v1}
  Contract = {c1}
  ReceiverOf <- SingleReceiverOf
  ContractOf <- SingleContractOf
  Slowness <- SingleSlowness
  Capacity <- OneLane
  Request <- SingleRequests
  Orderings = {"fair"}
  Routing = "fastest"
  Toggled = {}
  NoReplica = NoReplica
  NoRequest = NoRequest
PROPERTY OneTurnPerBackloggedQuestion
