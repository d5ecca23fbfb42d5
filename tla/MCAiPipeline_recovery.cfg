CONSTANTS
  poll = poll
  reconcile = reconcile
  again = again
  NoItem = NoItem
  Job = {1}
  Polls <- OnePoll
  Reconciles <- OneReconcile
  Limit = 500
  Outputs = 2
  Faults = {"lm", "drop", "worker", "redis", "platform", "stall"}
  MaxFaults = 1
SPECIFICATION FairSpec
INVARIANTS
  NothingCountedTwice
  SettledForAReason
PROPERTY AnsweredJobsSettle
CHECK_DEADLOCK FALSE
