SPECIFICATION Spec
CONSTANTS
  w1 = w1  t1 = t1  r1 = r1
  None = None
  Workflow <- OneWorkflow
  Task <- OneTask
  Worker <- NoWorker
  Reconciler <- OnePass
  BundleWindows = 2
  LabelWindows = 1
  MaxGraph = 2
  MaxRetries = 1
  MaxUpsets = 1
  MaxEdits = 1
INVARIANT TypeOK
PROPERTIES SucceedsWhenReadyUnlessOvertaken SettledStaysUnlessRaced RunsAgainOnRetryUnlessLate RunningWorkflowSettles
CHECK_DEADLOCK FALSE
