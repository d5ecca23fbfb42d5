CONSTANTS
  poll = poll
  reconcile = reconcile
  again = again
  NoItem = NoItem
  Job = {1}
  Polls <- OnePoll
  Reconciles <- OneReconcile
  Limit = 500
  Outputs = 3
  Faults = {"drop"}
  MaxFaults = 1
SPECIFICATION Spec
PROPERTY CompletedIsFinal
CHECK_DEADLOCK FALSE
