---------------------------- MODULE MCTrustLedger -----------------------------
(***************************************************************************)
(* Small tenants for model checking TrustLedger.  Each configuration       *)
(* offers one set of requests; every subset of them may be sent, in any    *)
(* order, any number of times.                                             *)
(***************************************************************************)
EXTENDS TrustLedger, TLC

CONSTANTS
  bank, bank2,     \* trust bank accounts
  alice, bob,      \* client trust liability accounts
  operating        \* an operating account

MCCents == -2 .. 2

MCAccount == {bank, alice, operating}
MCTwoClients == {bank, alice, bob, operating}
MCTwoBanks == {bank, bank2, alice}

MCKind(A) ==
  [a \in A |->
    CASE a \in {bank, bank2} -> "TRUST_BANK"
      [] a \in {alice, bob} -> "CLIENT_TRUST_LIABILITY"
      [] OTHER -> "OPERATING"]

MCAccountKind == MCKind(MCAccount)
MCTwoClientsKind == MCKind(MCTwoClients)
MCTwoBanksKind == MCKind(MCTwoBanks)

\* Money received for a client, paid out for a client, moved between clients.
Deposit(b, c, n) == b :> -n @@ c :> n
Withdrawal(b, c, n) == b :> n @@ c :> -n
Transfer(c, d, n) == c :> -n @@ d :> n

PostOf(key, at, lines) == [op |-> "post", key |-> key, at |-> at, lines |-> lines]
ReverseOf(key, at, source) ==
  [op |-> "reverse", key |-> key, at |-> at, source |-> source]
CreateOf(key, period) == [op |-> "create", key |-> key, period |-> period]
CloseOf(key, period) == [op |-> "close", key |-> key, period |-> period]
AccountLockOf(key, period, account) ==
  [op |-> "lockAccount", key |-> key, period |-> period, account |-> account]
ReconcileOf(key, account, end, amount) ==
  [op |-> "reconcile", key |-> key, account |-> account, end |-> end, bank |-> amount]

\* A deposit, withdrawals that only fit one at a time, a reversal of the
\* deposit that the withdrawals make impossible, keys reused across different
\* requests, an entry that does not balance, a payment that takes trust money
\* for the firm, and reconciliations of the bank at the end of the first day
\* with different statements, while entries go on at that day and the next.
PostingRequests ==
  { PostOf("k1", 1, Deposit(bank, alice, 2)),
    PostOf("k2", 1, Withdrawal(bank, alice, 2)),
    PostOf("k3", 2, Withdrawal(bank, alice, 1)),
    PostOf("k3", 1, Deposit(bank, bob, 1)),
    PostOf("k4", 1, Transfer(alice, bob, 1)),
    PostOf("k4", 1, bank :> -1 @@ alice :> 1 @@ bob :> 1),
    PostOf("k4", 1, operating :> 1 @@ bank :> 1 @@ alice :> -2),
    ReverseOf("k5", 1, 1),
    ReverseOf("k6", 2, 1),
    ReconcileOf("k7", bank, 1, 2),
    ReconcileOf("k8", bank, 1, 0) }

January == <<0, 2>>
February == <<2, 4>>
Overlapping == <<1, 3>>
MCIntervals == {January, February, Overlapping}

\* Days 1 and 2 are the last of January and the first of February.
PeriodRequests ==
  { CreateOf("c1", January),
    CreateOf("c2", Overlapping),
    CreateOf("c3", February),
    CloseOf("k1", January),
    AccountLockOf("k2", February, alice),
    PostOf("k3", 1, Deposit(bank, alice, 1)),
    PostOf("k4", 2, Deposit(bank, alice, 1)),
    ReverseOf("k5", 1, 1) }

TwoBankRequests ==
  { PostOf("k1", 1, Deposit(bank, alice, 2)),
    PostOf("k2", 1, Deposit(bank2, alice, 1)),
    PostOf("k3", 1, Withdrawal(bank, alice, 2)),
    ReconcileOf("k4", bank, 1, 2) }

===============================================================================
