CONSTANTS
  Proc = {p1, p2}
  NoProc = NoProc
  NoRequest = NoRequest
  NoRow = NoRow
  Never = Never
  Unchanged = Unchanged
  Key = {"e1", "e2", "a1", "a2", "a3", "i1", "i2", "y1", "y2", "y3"}
  Matter = {"m"}
  Status = {"ACTIVE", "CLOSED"}
  Number = {"n1", "n2"}
  LawPayId = {"l1", "l2"}
  Request <- MCRequests
SPECIFICATION Spec
INVARIANTS
  TypeOK
  BilledOnce
  InvoiceAddsUp
PROPERTIES
  ApprovalsStand
  MattersRespected
  ImplementsReceivables
