SPECIFICATION Spec
CONSTANTS
  Caller = {c1, c2, c3}
  Key = {k1, k2}
  Flight = {f1, f2, f3, f4}
  NoFlight = NoFlight
  NoKey = NoKey
SYMMETRY Symmetry
INVARIANT RetainsNoCompletedAnswer
