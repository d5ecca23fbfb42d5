CONSTANTS
  Tx = {t1, t2, t3}
  ledger = ledger
  invoice = invoice
  firmA = firmA
  firmB = firmB
  ChainLock = ChainLock
  NoTx = NoTx
  NoFlow = NoFlow
  NoEvent = NoEvent
  Lock <- MCLocks
  Flow <- MCFlows
  MaxEvents = 2
SPECIFICATION FairSpec
INVARIANTS
  TypeOK
  ChainLinked
  OnlyCrossedLocksDeadlock
  NeverStuck
PROPERTY EveryTransactionEnds
CHECK_DEADLOCK FALSE
