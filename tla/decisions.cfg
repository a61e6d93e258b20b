SPECIFICATION MCSpec
CONSTANTS
  t1 = t1 t2 = t2 t3 = t3 f1 = f1 f2 = f2
  Task = {t1, t2, t3}
  Flow = {f1, f2}
  FlowOf <- TwoFlows
  Capacity = 1
  Orderings = {"continuation", "fifo"}
  Router = {u1, u2}
  Links <- MeshLinks
  Source = "a"
  Target = "d"
  Offers <- MeshOffers
  Delay = {2, 6}
  Penalty = 5
  Scale = 60
  Floor = 98
  MinSamples = 2
  MaxFinished = 2
  Token = {1, 2}
  MinN = 1
  MaxN = 3
  K = 2
  MaxModelLen = 9
  Stages <- Histories
  FpWindow = 3
  Id = {"0", "1", "a7f"}
  Width <- IdWidths
  Handle <- Indexes
  MinSaving = 1
  MinCandidates = 1
  MaxObjects = 2
  Branch = {b1, b2}
  Input = {i1, i2}
  Output = {o1, o2}
  MaxOdd = 1
  MaxFaults = 1
  Context = {x1, x2}
  Measured = {x1}
  Budget = {1, 2}
  Trial = {r1, r2, r3}
  MinPairs = 2
  Gain = {0, 1, 2}
INVARIANTS
  CreditsCounted
  WorkConserving
  LoadReturned
  CheapestPath
  DraftFollowsLongest
  ReferencesRestored
  VerdictIsTrue
  DraftsAreMeasured
PROPERTIES
  OverdueFirst
  EventuallyGranted
  ImplementsPool
CHECK_DEADLOCK FALSE
