SPECIFICATION Spec
CONSTANTS
  a1 = a1 a2 = a2 b1 = b1 b2 = b2
  A = A B = B A1 = A1 A2 = A2
  r1 = r1 r2 = r2 r3 = r3 v1 = v1 v2 = v2 c1 = c1 c2 = c2
  Task = {a1, a2, b1}
  Root = {A, B}
  RootOf <- TwoRootsOfThree
  Replica = {r1, r2, r3}
  Receiver = {v1, v2}
  Contract = {c1, c2}
  ReceiverOf <- SharedReceiverOf
  ContractOf <- SharedContractOf
  Slowness <- SharedSlowness
  Capacity <- OneLaneEach
  Request <- SharedRequests
  Orderings = {"fifo", "coflow", "fair"}
  Routing = "any"
  Toggled = {r2}
  NoReplica = NoReplica
  NoRequest = NoRequest
INVARIANTS
  CapacityRespected
  Bookkeeping
  NoIdleStall
PROPERTIES
  DispatchedWhereAllowed
  OverdueFirst
  FifoWithinRoot
  ImplementsPool
