CONSTANTS
  Job = {j1}
  Attempt = {a1, a2}
  Worker = {w1, w2}
  Request = {r1, r2}
  Scanner = {}
  None = None
  MaxActive = 1
  MaxAsked = 2
  MaxUpsets = 0
  MaxRestructures = 1
SPECIFICATION Spec
SYMMETRY FenceSymmetry
INVARIANTS LandedResultStands ActiveWithinLimit ActiveAttemptIsCurrentUnlessRestructured
PROPERTY GuardNeverRaises
CHECK_DEADLOCK FALSE
