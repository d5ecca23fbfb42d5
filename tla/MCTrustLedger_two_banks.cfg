CONSTANTS
  bank = bank
  bank2 = bank2
  alice = alice
  bob = bob
  operating = operating
  Everything = Everything
  NoProc = NoProc
  NoRequest = NoRequest
  NoAnswer = NoAnswer
  Proc = {p1, p2}
  Account <- MCTwoBanks
  Kind <- MCTwoBanksKind
  Day = {1}
  Cents <- MCCents
  Interval <- MCIntervals
  Key = {"k1", "k2", "k3", "k4"}
  Request <- TwoBankRequests
SPECIFICATION Spec
INVARIANT ReconciledClientsStand
