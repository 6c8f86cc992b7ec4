CONSTANTS
  Job = {j1}
  Attempt = {a1, a2}
  Worker = {w1}
  Request = {r1}
  Scanner = {s1}
  None = None
  MaxActive = 1
  MaxAsked = 1
  MaxUpsets = 1
  MaxRestructures = 0
SPECIFICATION FairSpec
PROPERTIES QueuedJobLeaves RunningJobEnds
CHECK_DEADLOCK FALSE
