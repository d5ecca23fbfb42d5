------------------------------ MODULE LedgerBook ------------------------------
(***************************************************************************)
(* The committed tables of one tenant's ledger (LedgerEntry, LedgerLine,   *)
(* AccountingPeriod, PeriodLock, Reconciliation, IdempotencyRecord) and    *)
(* the operations of packages/db/src/services/finance-service.ts on them.  *)
(*                                                                         *)
(* BookSpec is the abstract specification: every operation happens in one  *)
(* step, its checks evaluated in the very state it changes.  The code      *)
(* promises it in a comment on lockTenantLedgerMutations: "Period closure, *)
(* reconciliation, trust-balance validation, and ledger insertion must     *)
(* observe one serial order per tenant."  TrustLedger runs the same        *)
(* operations as interleaved database transactions and is shown to         *)
(* implement BookSpec.                                                     *)
(*                                                                         *)
(* Amounts are net credits in cents: a line list becomes a function from   *)
(* the accounts it touches to credit minus debit.  Days stand for          *)
(* timestamps.                                                             *)
(***************************************************************************)
EXTENDS Integers, Sequences, FiniteSets, FiniteSetsExt

CONSTANTS
  Account,     \* the tenant's ledger accounts, all active
  Kind,        \* Kind[a]: the LedgerAccountType of account a
  Everything,  \* PeriodLock.ledgerAccountId = NULL: the lock is global
  Day,         \* the dates entries may carry
  Interval,    \* the [startsAt, endsAt) ranges periods may have
  Cents,       \* the net amounts an entry may post to an account
  Key,         \* idempotency keys
  Request      \* the well-formed requests clients may send

AccountKinds ==
  {"OPERATING", "TRUST_BANK", "CLIENT_TRUST_LIABILITY", "REVENUE", "RECEIVABLE"}

\* What the lines of an entry post, account by account.
Lines == UNION {[S -> Cents] : S \in SUBSET Account}

PostRequest == [op : {"post"}, key : Key, at : Day, lines : Lines]
ReverseRequest == [op : {"reverse"}, key : Key, at : Day, source : Nat \ {0}]
PeriodRequest == [op : {"create", "close"}, key : Key, period : Interval]
AccountLockRequest ==
  [op : {"lockAccount"}, key : Key, period : Interval, account : Account]
ReconcileRequest ==
  [op : {"reconcile"}, key : Key, account : Account, end : Day, bank : Nat]

RequestType ==
  PostRequest \cup ReverseRequest \cup PeriodRequest
    \cup AccountLockRequest \cup ReconcileRequest

ASSUME BookAssumption ==
  /\ IsFiniteSet(Account)
  /\ Kind \in [Account -> AccountKinds]
  /\ Everything \notin Account
  /\ Day \subseteq Int
  /\ Cents \subseteq Int
  /\ \A c \in Cents : -c \in Cents
  /\ Interval \subseteq {i \in Int \X Int : i[1] < i[2]}
  /\ Request \subseteq RequestType

VARIABLES
  entries,   \* LedgerEntry rows with their lines, in commit order
  status,    \* status[i]: the AccountingPeriod row for range i, if any
  locks,     \* PeriodLock rows: <<range, account or Everything>>
  recs,      \* Reconciliation rows, all APPROVED
  idem       \* IdempotencyRecord rows: the request and the entry it made

bookVars == <<entries, status, locks, recs, idem>>

-------------------------------------------------------------------------------
(***************************************************************************)
(* Reading the book.                                                       *)
(***************************************************************************)

Clients == {a \in Account : Kind[a] = "CLIENT_TRUST_LIABILITY"}
Banks == {a \in Account : Kind[a] = "TRUST_BANK"}

\* Net credit that lines post to account a.
Net(lines, a) == IF a \in DOMAIN lines THEN lines[a] ELSE 0

\* The sum of f over S.
SumOf(f, S) == MapThenSumSet(LAMBDA x : f[x], S)

\* Net credit of the accounts in A over the entries of es numbered by S.
PostedBy(es, A, S) ==
  SumOf([i \in S |-> SumOf([a \in A |-> Net(es[i].lines, a)], A)], S)

\* Net credit of the accounts in A over the entries es dated up to `end`.
Posted(es, A, end) == PostedBy(es, A, {i \in DOMAIN es : es[i].at <= end})

\* The sum of all committed lines of account a, which the trust check asks the
\* database for.
Balance(a) == PostedBy(entries, {a}, DOMAIN entries)

\* The book balance of a bank account and the total of all client accounts,
\* as reconcileTrustAccount computes them.
BookBalance(a, end) == - Posted(entries, {a}, end)
ClientTotal(end) == Posted(entries, Clients, end)

\* A period is half open: startsAt <= day < endsAt.
Covers(i, day) == i[1] <= day /\ day < i[2]

\* An idempotency record for the same operation and key exists.
Recorded(r) == \E row \in idem : row.req.op = r.op /\ row.req.key = r.key

\* Mutant of Mirror: the reversal copies the lines without swapping the sides.
MirrorUnswapped(lines) == lines

\* A debit of an entry becomes a credit of its reversal.
Mirror(lines) == [a \in DOMAIN lines |-> - lines[a]]

-------------------------------------------------------------------------------
(***************************************************************************)
(* What the code asserts before it writes.                                 *)
(***************************************************************************)

Balanced(lines) == SumOf(lines, DOMAIN lines) = 0

\* Mutant of Separated: other accounts may take part in a trust entry.
SeparatedLoosely(accounts) ==
  accounts \cap (Banks \cup Clients) # {} => accounts \cap Clients # {}

\* Trust and operating money never share an entry, and a trust entry moves
\* money between a bank account and a client account.
Separated(accounts) ==
  accounts \cap (Banks \cup Clients) # {} =>
    /\ accounts \subseteq Banks \cup Clients
    /\ accounts \cap Banks # {}
    /\ accounts \cap Clients # {}

\* Mutant of ReconciliationBlocks: the period end itself is left open.
ReconciliationBlocksBefore(accounts, day) ==
  \E rec \in recs : rec.account \in accounts /\ day < rec.end

\* An approved reconciliation blocks its account through its period end.
ReconciliationBlocks(accounts, day) ==
  \E rec \in recs : rec.account \in accounts /\ day <= rec.end

PeriodBlocks(accounts, day) ==
  \/ \E i \in Interval : status[i] = "CLOSED" /\ Covers(i, day)
  \/ \E lock \in locks :
       Covers(lock[1], day) /\ lock[2] \in accounts \cup {Everything}

StaysNonnegative(lines) ==
  \A a \in DOMAIN lines \cap Clients : Balance(a) + lines[a] >= 0

EntryKeyUnused(key) == \A i \in DOMAIN entries : entries[i].key # key

\* The checks common to posting and reversing.
MayInsert(key, at, lines) ==
  /\ EntryKeyUnused(key)
  /\ Balanced(lines)
  /\ Separated(DOMAIN lines)
  /\ ~ReconciliationBlocks(DOMAIN lines, at)
  /\ ~PeriodBlocks(DOMAIN lines, at)
  /\ StaysNonnegative(lines)

MayPost(r) == MayInsert(r.key, r.at, r.lines)

MayReverse(r) ==
  /\ r.source \in DOMAIN entries
  /\ \A i \in DOMAIN entries : entries[i].reverses # r.source
  /\ MayInsert(r.key, r.at, Mirror(entries[r.source].lines))

MayCreate(r) ==
  \A i \in Interval :
    status[i] # "ABSENT" => ~(i[1] < r.period[2] /\ i[2] > r.period[1])

MayClose(r) == status[r.period] = "OPEN"

MayLockAccount(r) == status[r.period] = "OPEN"

MayReconcile(r) ==
  /\ r.account \in Banks
  /\ r.bank = BookBalance(r.account, r.end)
  /\ r.bank = ClientTotal(r.end)

Checks(r) ==
  \/ r.op = "post" /\ MayPost(r)
  \/ r.op = "reverse" /\ MayReverse(r)
  \/ r.op = "create" /\ MayCreate(r)
  \/ r.op = "close" /\ MayClose(r)
  \/ r.op = "lockAccount" /\ MayLockAccount(r)
  \/ r.op = "reconcile" /\ MayReconcile(r)

-------------------------------------------------------------------------------
(***************************************************************************)
(* The unique indexes of the schema, which the database enforces on every  *)
(* insert whatever the code has checked.                                   *)
(***************************************************************************)

Constraints(r) ==
  /\ ~Recorded(r)
  /\ r.op \in {"post", "reverse"} => EntryKeyUnused(r.key)
  /\ r.op = "reverse" => \A i \in DOMAIN entries : entries[i].reverses # r.source
  /\ r.op = "create" => status[r.period] = "ABSENT"
  /\ r.op = "close" => <<r.period, Everything>> \notin locks
  /\ r.op = "lockAccount" => <<r.period, r.account>> \notin locks
  /\ r.op = "reconcile" =>
       \A rec \in recs : rec.account # r.account \/ rec.end # r.end

-------------------------------------------------------------------------------
(***************************************************************************)
(* The writes of each operation.                                           *)
(***************************************************************************)

\* The idempotency row of a request, pointing at entry number ref (0: none).
Record(r, ref) == idem' = idem \cup {[req |-> r, ref |-> ref]}

Insert(r, lines, reverses) ==
  /\ entries' = Append(entries,
       [key |-> r.key, at |-> r.at, lines |-> lines, reverses |-> reverses])
  /\ Record(r, Len(entries) + 1)
  /\ UNCHANGED <<status, locks, recs>>

Post(r) == r.op = "post" /\ Insert(r, r.lines, 0)

Reverse(r) ==
  r.op = "reverse" /\ Insert(r, Mirror(entries[r.source].lines), r.source)

Create(r) ==
  /\ r.op = "create"
  /\ status' = [status EXCEPT ![r.period] = "OPEN"]
  /\ Record(r, 0)
  /\ UNCHANGED <<entries, locks, recs>>

Close(r) ==
  /\ r.op = "close"
  /\ status' = [status EXCEPT ![r.period] = "CLOSED"]
  /\ locks' = locks \cup {<<r.period, Everything>>}
  /\ Record(r, 0)
  /\ UNCHANGED <<entries, recs>>

LockAccount(r) ==
  /\ r.op = "lockAccount"
  /\ locks' = locks \cup {<<r.period, r.account>>}
  /\ Record(r, 0)
  /\ UNCHANGED <<entries, status, recs>>

Reconcile(r) ==
  /\ r.op = "reconcile"
  /\ recs' = recs \cup {[account |-> r.account, end |-> r.end, bank |-> r.bank]}
  /\ Record(r, 0)
  /\ UNCHANGED <<entries, status, locks>>

Effect(r) ==
  Post(r) \/ Reverse(r) \/ Create(r) \/ Close(r) \/ LockAccount(r) \/ Reconcile(r)

-------------------------------------------------------------------------------
(***************************************************************************)
(* The abstract specification.                                             *)
(***************************************************************************)

BookInit ==
  /\ entries = <<>>
  /\ status = [i \in Interval |-> "ABSENT"]
  /\ locks = {}
  /\ recs = {}
  /\ idem = {}

Operate(r) == Checks(r) /\ Constraints(r) /\ Effect(r)

BookNext == \E r \in Request : Operate(r)

BookSpec == BookInit /\ [][BookNext]_bookVars

-------------------------------------------------------------------------------
(***************************************************************************)
(* What the book promises.                                                 *)
(***************************************************************************)

EntryType == [key : Key, at : Day, lines : Lines, reverses : Nat]

\* The tables hold rows of their types.
BookTypeOK ==
  /\ entries \in Seq(EntryType)
  /\ status \in [Interval -> {"ABSENT", "OPEN", "CLOSED"}]
  /\ locks \subseteq Interval \X (Account \cup {Everything})
  /\ recs \subseteq [account : Account, end : Day, bank : Nat]
  /\ idem \subseteq [req : Request, ref : Nat]

\* No interleaving of postings and reversals overdraws a client's trust
\* account (assertNonnegativeClientTrust under concurrent withdrawals).
NonnegativeClientTrust == \A a \in Clients : Balance(a) >= 0

\* The trust banks hold exactly what the clients are owed: separation and
\* double entry together, over the entries up to any day, however they are
\* backdated.
TrustBanksCoverClients ==
  \A day \in Day : Posted(entries, Banks \cup Clients, day) = 0

\* An entry is reversed at most once, and the reversal cancels it on every
\* account, even when two reversals of one entry race.
CorrectionsCancel ==
  \A i, j \in DOMAIN entries : entries[i].reverses = j =>
    /\ \A k \in DOMAIN entries : entries[k].reverses = j => k = i
    /\ \A a \in Account : Net(entries[i].lines, a) + Net(entries[j].lines, a) = 0

\* Two existing accounting periods never cover the same day, although the
\* overlap check of createAccountingPeriod reads before it inserts.
PeriodsDisjoint ==
  \A i, j \in Interval :
    status[i] # "ABSENT" /\ status[j] # "ABSENT" /\ i # j =>
      i[2] <= j[1] \/ j[2] <= i[1]

\* What a reconciliation approved about its bank account's book stays true:
\* no later posting or reversal moves that balance as of its period end.
ReconciledBookStands ==
  \A rec \in recs : rec.bank = BookBalance(rec.account, rec.end)

\* The same for the client side of the three-way reconciliation.
ReconciledClientsStand == \A rec \in recs : rec.bank = ClientTotal(rec.end)

\* The entries dated inside period i that touch an account of A.
EntriesIn(es, i, A) ==
  {k \in DOMAIN es : Covers(i, es[k].at) /\ DOMAIN es[k].lines \cap A # {}}

\* Once a period is closed, or an account is locked in it, no step adds an
\* entry there: not one whose checks ran before the closing committed either.
FrozenStaysFrozen ==
  \A lock \in locks :
    LET A == IF lock[2] = Everything THEN Account ELSE {lock[2]}
    IN  EntriesIn(entries', lock[1], A) = EntriesIn(entries, lock[1], A)

PeriodsStayFrozen == [][FrozenStaysFrozen]_bookVars

===============================================================================
