CONSTANTS
  bank = bank
  bank2 = bank2
  alice = alice
  bob = bob
  operating = operating
  Everything = Everything
  NoProc = NoProc
  NoRequest = NoRequest
  NoAnswer = NoAnswer
  Proc = {p1, p2}
  Account <- MCAccount
  Kind <- MCAccountKind
  Day = {1, 2}
  Cents <- MCCents
  Interval <- MCIntervals
  Key = {"c1", "c2", "c3", "k1", "k2", "k3", "k4", "k5"}
  Request <- PeriodRequests
SPECIFICATION Spec
INVARIANT PeriodsDisjoint
PROPERTY PeriodsStayFrozen
