CONSTANTS
  nowak_law = nowak_law
  nowaklaw = nowaklaw
  law_nowak = law_nowak
  nowak = nowak
  lawnowak = lawnowak
  None = None
  NoRequest = NoRequest
  Proc = {p1, p2}
  Name = {nowak_law, nowaklaw, law_nowak}
  Firm = {nowak, lawnowak}
  FirmOf <- MCFirmOf
  Words <- MCWords
  Row <- MCRows
  Suggestion = {"encrypt", "ada decides"}
  KindOf <- MCKindOf
  FirmAbout <- MCFirmAbout
  PersonIn <- MCPersonIn
  Request <- MCRequests
  Scenarios <- MCScenarios
SPECIFICATION Spec
INVARIANTS
  TypeOK
  DuplicatesFound
  DecidedOnce
  AppliedOnce
