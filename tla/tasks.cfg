SPECIFICATION MCSpec
CONSTANTS
  BufferChunks = 2
  MaxChunks = 6
  Caller = {c1, c2, c3}
  Key = {k1, k2}
  Flight = {1, 2, 3}
  NoFlight = NoFlight
  NoKey = NoKey
  User = {u1, u2}
  MaxConcurrent = 1
  MaxAge = 1
  Ceiling = 1
  MaxCalls = 3
  Node = {1, 2, 3}
  External = External
  MaxReasoning = 2
  MaxLate = 3
INVARIANTS
  BoundedPrefetch
  ExactlyOnceInOrder
  ClosedOnExit
  TicketReturned
  OneFlightPerKey
  DuplicatesBounded
  DraftNeverMisread
  BarrierRespected
  DeadlineIsTotal
PROPERTIES
  NobodyHangs
  LeavingEnds
  JoinReturns
CHECK_DEADLOCK FALSE
