SPECIFICATION Spec
CONSTANTS
  k1 = k1 k2 = k2 q1 = q1 q2 = q2
  Client = {c1, c2}
  Request = {q1, q2}
  Key = {k1, k2}
  RequestOf <- TwoRequests
  Version = {v0, v1, v2}
  Eligible = {v1, v2}
  Call = {p1, p2, p3}
  MaxPending = 2
  NoCall = NoCall
  NoContract = NoContract
SYMMETRY Symmetry
INVARIANT CancellationNeverFallsBack
