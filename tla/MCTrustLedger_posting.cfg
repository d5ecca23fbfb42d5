CONSTANTS
  bank = bank
  bank2 = bank2
  alice = alice
  bob = bob
  operating = operating
  Everything = Everything
  NoProc = NoProc
  NoRequest = NoRequest
  NoAnswer = NoAnswer
  Proc = {p1, p2}
  Account <- MCTwoClients
  Kind <- MCTwoClientsKind
  Day = {1, 2}
  Cents <- MCCents
  Interval <- MCIntervals
  Key = {"k1", "k2", "k3", "k4", "k5", "k6", "k7", "k8"}
  Request <- PostingRequests
SPECIFICATION Spec
INVARIANTS
  TypeOK
  NonnegativeClientTrust
  TrustBanksCoverClients
  CorrectionsCancel
  AnswersFulfilled
  ReconciledBookStands
PROPERTY BookSpec
