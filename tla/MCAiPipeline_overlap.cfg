CONSTANTS
  poll = poll
  reconcile = reconcile
  again = again
  NoItem = NoItem
  Job = {1}
  Polls <- OnePoll
  Reconciles <- TwoReconciles
  Limit = 500
  Outputs = 3
  Faults = {"lm", "redis", "platform"}
  MaxFaults = 3
SPECIFICATION Spec
SYMMETRY ReconcileSymmetry
INVARIANTS
  TypeOK
  OutputsLimited
  EveryAttemptCounted
PROPERTY StatusFollowsTable
CHECK_DEADLOCK FALSE
