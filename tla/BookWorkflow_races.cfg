SPECIFICATION Spec
CONSTANTS
  w1 = w1  t1 = t1  r1 = r1
  None = None
  Workflow <- OneWorkflow
  Task <- OneTask
  Worker <- OneTask
  Reconciler <- OnePass
  BundleWindows = 1
  LabelWindows = 2
  MaxGraph = 1
  MaxRetries = 0
  MaxUpsets = 0
  MaxEdits = 0
INVARIANTS ChildrenFollowPlan CancelLeavesNoChildUnlessRaced
CHECK_DEADLOCK FALSE
