SPECIFICATION MCSpec
CONSTANTS
  Request = {t1, t2, t3}
  Minimum = 1
  Maximum = 3
  c1 = c1 c2 = c2 c3 = c3 q1 = q1 q2 = q2
  Caller = {c1, c2, c3}
  Receiver = {r1}
  MinWindow = 1
  MaxWindow = 2
INVARIANTS
  TypesOK
  CreditsOwned
  NoIdleCredit
PROPERTIES
  EveryoneAdmitted
  ImplementsPool
