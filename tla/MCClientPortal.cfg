CONSTANTS
  client = client
  matter = matter
  contract = contract
  NoRequest = NoRequest
  NoShare = NoShare
  Proc = {p1, p2}
  Member = {client}
  Matter = {matter}
  Document = {contract}
  MatterOf <- MCMatterOf
  Key = {"k1", "k2", "k3", "k4", "k5", "k6", "k7"}
  Request <- MCRequests
SPECIFICATION Spec
INVARIANTS
  TypeOK
  SharesAccounted
  OrphansNeedOverlap
  ShownWasShared
