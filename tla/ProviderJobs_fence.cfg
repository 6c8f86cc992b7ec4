CONSTANTS
  Job = {j1}
  Attempt = {a1, a2}
  Worker = {w1, w2}
  Request = {r1}
  Scanner = {s1}
  None = None
  MaxActive = 1
  MaxAsked = 1
  MaxUpsets = 1
  MaxRestructures = 1
SPECIFICATION Spec
SYMMETRY FenceSymmetry
INVARIANTS TypeOK AtMostOneDispatchPerRequest DispatchedNeverFree
PROPERTIES LeaseLossIsFinal ImplementsLedger
CHECK_DEADLOCK FALSE
