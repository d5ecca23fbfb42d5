CONSTANTS
  poll = poll
  reconcile = reconcile
  again = again
  NoItem = NoItem
  Job = {1, 2}
  Polls <- OnePoll
  Reconciles <- OneReconcile
  Limit = 1
  Outputs = 2
  Faults = {}
  MaxFaults = 0
SPECIFICATION FairSpec
PROPERTY AnsweredJobsSettle
CHECK_DEADLOCK FALSE
