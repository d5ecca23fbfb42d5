------------------------------- MODULE Billing --------------------------------
(***************************************************************************)
(* Time entries, invoices and payments of finance-service.ts, and the      *)
(* matters of matter-service.ts they belong to.  As in TrustLedger, each   *)
(* operation is a PostgreSQL transaction at READ COMMITTED.  Most of them  *)
(* take no lock: a transaction reads the committed rows (Read), keeps what *)
(* it read (seen), and its writes become visible when it commits (Commit), *)
(* each column it names overwritten whatever has happened in between.      *)
(* Payments wait for the advisory lock of their invoice,                   *)
(* pg_advisory_xact_lock(hash(invoice), 0), held to the end.               *)
(*                                                                         *)
(* A row is identified by the idempotency key of the request that created  *)
(* it, and a timestamp by the key of the request that set it.              *)
(***************************************************************************)
EXTENDS Integers, FiniteSets, FiniteSetsExt

CONSTANTS
  Proc,       \* transactions in flight
  NoProc,     \* a lock nobody holds
  Key,        \* idempotency keys
  Matter,     \* matter numbers, unique in the tenant
  Status,     \* matter statuses; time is recorded on "ACTIVE" ones only
  Number,     \* invoice numbers
  LawPayId,   \* payment identifiers of the provider
  Request,    \* the well-formed requests clients may send
  NoRequest,  \* the request of an idle connection
  NoRow,      \* a row that does not exist, or nothing read
  Never,      \* a timestamp column that is NULL
  Unchanged   \* a column an update does not name

OpenRequest == [op : {"open"}, matter : Matter, status : Status]
UpdateRequest ==
  [op : {"update"}, matter : Matter,
   status : Status \cup {Unchanged}, hold : BOOLEAN \cup {Unchanged}]
\* units is minutes * rateCents, sixty times the price.
CreateRequest == [op : {"create"}, key : Key, matter : Matter, units : Nat]
ApproveRequest == [op : {"approve"}, key : Key, entry : Key]
IssueRequest ==
  [op : {"issue"}, key : Key, matter : Matter, number : Number,
   entries : (SUBSET Key) \ {{}}]
PayRequest ==
  [op : {"pay"}, key : Key, invoice : Key, lawPay : LawPayId, cents : Nat \ {0}]

KeyedType == CreateRequest \cup ApproveRequest \cup IssueRequest \cup PayRequest
RequestType == OpenRequest \cup UpdateRequest \cup KeyedType

MatterType == [status : Status, hold : BOOLEAN]
EntryType ==
  [matter : Matter, units : Nat,
   approvedAt : Key \cup {Never}, invoicedAt : Key \cup {Never}]
InvoiceStatus == {"ISSUED", "PARTIALLY_PAID", "PAID"}
InvoiceType ==
  [matter : Matter, number : Number, amount : Nat, paid : Nat,
   status : InvoiceStatus]
LineType == [invoice : Key, entry : Key, cents : Nat]
PaymentType == [key : Key, invoice : Key, lawPay : LawPayId, cents : Nat]

ASSUME BillingAssumption ==
  /\ NoProc \notin Proc
  /\ Request \subseteq RequestType
  /\ NoRequest \notin RequestType
  /\ \A r \in Request : r.op = "issue" => IsFiniteSet(r.entries)
  /\ NoRow \notin MatterType \cup EntryType \cup InvoiceType \cup Nat
  /\ Never \notin Key
  /\ Unchanged \notin Status
  /\ Unchanged \notin BOOLEAN

VARIABLES
  matters,   \* matters[m]: the Matter row with number m
  entries,   \* entries[k]: the TimeEntry row that request k created
  invoices,  \* invoices[k]: the Invoice row that request k created
  lines,     \* InvoiceLine rows
  payments,  \* Payment rows, all SUCCEEDED
  idem,      \* IdempotencyRecord rows: the requests
  pc,        \* pc[p]: how far transaction p has come
  req,       \* req[p]: the request p serves
  seen,      \* seen[p]: the row p has read and decided on
  holder     \* holder[k]: the transaction that holds the lock of invoice k

tables == <<matters, entries, invoices, lines, payments, idem>>
vars == <<matters, entries, invoices, lines, payments, idem, pc, req, seen, holder>>

-------------------------------------------------------------------------------
(***************************************************************************)
(* What the operations read and assert.                                    *)
(***************************************************************************)

Keyed(r) == r.op \in {"create", "approve", "issue", "pay"}

Recorded(r) ==
  Keyed(r) /\ \E row \in idem : row.op = r.op /\ row.key = r.key

Total(rows) == MapThenSumSet(LAMBDA row : row.cents, rows)
LinesOf(k) == {line \in lines : line.invoice = k}
PaymentsOf(k) == {payment \in payments : payment.invoice = k}

\* The row an operation decides on (issueInvoice uses columns that never
\* change and checks the others again when it updates).
Subject(r) ==
  CASE r.op \in {"create", "update"} -> matters[r.matter]
    [] r.op = "approve" -> entries[r.entry]
    [] r.op = "pay" -> invoices[r.invoice]
    [] OTHER -> NoRow

\* Mutant of Billable: entries that wait for their approval are billed too.
BillableUnapproved(k) == entries[k].invoicedAt = Never

Billable(k) == entries[k].approvedAt # Never /\ entries[k].invoicedAt = Never

\* Mutant of MayUpdate: the hold is not looked at.
MayUpdateHeld(r) == matters[r.matter] # NoRow

MayUpdate(r) ==
  /\ matters[r.matter] # NoRow
  /\ ~(matters[r.matter].hold /\ r.hold = FALSE)

\* Mutant of MayCreate: the status of the matter is not looked at.
MayCreateAnywhere(r) == matters[r.matter] # NoRow

MayCreate(r) ==
  /\ matters[r.matter] # NoRow
  /\ matters[r.matter].status = "ACTIVE"

\* Mutant of MayApprove: an approved entry is approved again.
MayApproveAgain(r) ==
  /\ entries[r.entry] # NoRow
  /\ entries[r.entry].invoicedAt = Never

MayApprove(r) ==
  /\ entries[r.entry] # NoRow
  /\ entries[r.entry].approvedAt = Never
  /\ entries[r.entry].invoicedAt = Never

\* The price of every entry must be a whole number of cents.
MayIssue(r) ==
  /\ matters[r.matter] # NoRow
  /\ \A k \in r.entries :
       /\ entries[k] # NoRow
       /\ entries[k].matter = r.matter
       /\ Billable(k)
       /\ entries[k].units % 60 = 0

MayPay(r) ==
  /\ invoices[r.invoice] # NoRow
  /\ r.cents <= invoices[r.invoice].amount - invoices[r.invoice].paid

Checks(r) ==
  /\ r.op = "update" => MayUpdate(r)
  /\ r.op = "create" => MayCreate(r)
  /\ r.op = "approve" => MayApprove(r)
  /\ r.op = "issue" => MayIssue(r)
  /\ r.op = "pay" => MayPay(r)

\* The unique indexes, and the row count issueInvoice compares after its
\* conditional update: both are evaluated on what is committed by then.
Constraints(r) ==
  /\ ~Recorded(r)
  /\ r.op = "open" => matters[r.matter] = NoRow
  /\ r.op = "issue" =>
       /\ \A k \in Key : invoices[k] # NoRow => invoices[k].number # r.number
       /\ \A line \in lines : line.entry \notin r.entries
       /\ \A k \in r.entries : Billable(k)
  /\ r.op = "pay" => \A payment \in payments : payment.lawPay # r.lawPay

-------------------------------------------------------------------------------
(***************************************************************************)
(* The writes of each operation.                                           *)
(***************************************************************************)

Open(r) ==
  /\ r.op = "open"
  /\ matters' = [matters EXCEPT ![r.matter] = [status |-> r.status, hold |-> FALSE]]
  /\ UNCHANGED <<entries, invoices, lines, payments>>

\* The new value of a column, if the update names it.
Named(new, old) == IF new = Unchanged THEN old ELSE new

Update(r) ==
  /\ r.op = "update"
  /\ matters' = [matters EXCEPT
       ![r.matter].status = Named(r.status, @), ![r.matter].hold = Named(r.hold, @)]
  /\ UNCHANGED <<entries, invoices, lines, payments>>

Create(r) ==
  /\ r.op = "create"
  /\ entries' = [entries EXCEPT ![r.key] =
       [matter |-> r.matter, units |-> r.units,
        approvedAt |-> Never, invoicedAt |-> Never]]
  /\ UNCHANGED <<matters, invoices, lines, payments>>

\* Mutant of Approve: the row is saved as it was read.
ApproveWholeRow(p, r) ==
  /\ r.op = "approve"
  /\ entries' = [entries EXCEPT ![r.entry] = [seen[p] EXCEPT !.approvedAt = r.key]]
  /\ UNCHANGED <<matters, invoices, lines, payments>>

Approve(p, r) ==
  /\ r.op = "approve"
  /\ entries' = [entries EXCEPT ![r.entry].approvedAt = r.key]
  /\ UNCHANGED <<matters, invoices, lines, payments>>

LinesFor(r) ==
  {[invoice |-> r.key, entry |-> k, cents |-> entries[k].units \div 60] :
     k \in r.entries}

Issue(r) ==
  /\ r.op = "issue"
  /\ lines' = lines \cup LinesFor(r)
  /\ invoices' = [invoices EXCEPT ![r.key] =
       [matter |-> r.matter, number |-> r.number, amount |-> Total(LinesFor(r)),
        paid |-> 0, status |-> "ISSUED"]]
  /\ entries' = [k \in Key |->
       IF k \in r.entries THEN [entries[k] EXCEPT !.invoicedAt = r.key]
                          ELSE entries[k]]
  /\ UNCHANGED <<matters, payments>>

\* The new sum is computed from the row p has read.
Pay(p, r) ==
  /\ r.op = "pay"
  /\ payments' = payments \cup
       {[key |-> r.key, invoice |-> r.invoice, lawPay |-> r.lawPay, cents |-> r.cents]}
  /\ LET paid == seen[p].paid + r.cents IN
       invoices' = [invoices EXCEPT ![r.invoice].paid = paid,
         ![r.invoice].status =
           IF paid = seen[p].amount THEN "PAID" ELSE "PARTIALLY_PAID"]
  /\ UNCHANGED <<matters, entries, lines>>

Effect(p, r) ==
  /\ Open(r) \/ Update(r) \/ Create(r) \/ Approve(p, r) \/ Issue(r) \/ Pay(p, r)
  /\ idem' = IF Keyed(r) THEN idem \cup {r} ELSE idem

-------------------------------------------------------------------------------
(***************************************************************************)
(* The transactions.                                                       *)
(***************************************************************************)

Moves(p, from, to) == pc[p] = from /\ pc' = [pc EXCEPT ![p] = to]

\* Mutant of Ends: the lock of the invoice stays taken.
EndsHoldingLock(p) ==
  /\ pc' = [pc EXCEPT ![p] = "idle"]
  /\ req' = [req EXCEPT ![p] = NoRequest]
  /\ seen' = [seen EXCEPT ![p] = NoRow]
  /\ UNCHANGED holder

Ends(p) ==
  /\ pc' = [pc EXCEPT ![p] = "idle"]
  /\ req' = [req EXCEPT ![p] = NoRequest]
  /\ seen' = [seen EXCEPT ![p] = NoRow]
  /\ holder' = [k \in Key |-> IF holder[k] = p THEN NoProc ELSE holder[k]]

Begin(p) ==
  \E r \in Request :
    /\ Moves(p, "idle", "begun")
    /\ req' = [req EXCEPT ![p] = r]
    /\ UNCHANGED <<tables, seen, holder>>

\* A key found with the same request answers with the row it made; with
\* another request it throws.
Replay(p) ==
  /\ pc[p] = "begun"
  /\ req[p] \in idem
  /\ Ends(p)
  /\ UNCHANGED tables

\* A payment looks its key up before it waits for the invoice's lock.
LookUp(p) ==
  /\ Moves(p, "begun", "waiting")
  /\ req[p].op = "pay"
  /\ ~Recorded(req[p])
  /\ UNCHANGED <<tables, req, seen, holder>>

\* Mutant of TakeLock: the lock is not waited for.
TakeLockUnchecked(p) ==
  /\ Moves(p, "waiting", "locked")
  /\ holder' = [holder EXCEPT ![req[p].invoice] = p]
  /\ UNCHANGED <<tables, req, seen>>

TakeLock(p) ==
  /\ Moves(p, "waiting", "locked")
  /\ holder[req[p].invoice] = NoProc
  /\ holder' = [holder EXCEPT ![req[p].invoice] = p]
  /\ UNCHANGED <<tables, req, seen>>

\* The key lookup of the other operations is part of their reads: should the
\* key be recorded between the two, its unique index fails the commit.
Read(p) ==
  /\ \/ Moves(p, "begun", "checked") /\ req[p].op # "pay" /\ ~Recorded(req[p])
     \/ Moves(p, "locked", "checked")
  /\ Checks(req[p])
  /\ seen' = [seen EXCEPT ![p] = Subject(req[p])]
  /\ UNCHANGED <<tables, req, holder>>

Commit(p) ==
  /\ pc[p] = "checked"
  /\ Constraints(req[p])
  /\ Effect(p, req[p])
  /\ Ends(p)

\* A check throws (the caller lacks the role, the feature is switched off),
\* the connection or the process dies, the transaction times out.
Fail(p) ==
  /\ pc[p] # "idle"
  /\ Ends(p)
  /\ UNCHANGED tables

-------------------------------------------------------------------------------

Init ==
  /\ matters = [m \in Matter |-> NoRow]
  /\ entries = [k \in Key |-> NoRow]
  /\ invoices = [k \in Key |-> NoRow]
  /\ lines = {}
  /\ payments = {}
  /\ idem = {}
  /\ pc = [p \in Proc |-> "idle"]
  /\ req = [p \in Proc |-> NoRequest]
  /\ seen = [p \in Proc |-> NoRow]
  /\ holder = [k \in Key |-> NoProc]

Next ==
  \E p \in Proc :
    \/ Begin(p)
    \/ Replay(p)
    \/ LookUp(p)
    \/ TakeLock(p)
    \/ Read(p)
    \/ Commit(p)
    \/ Fail(p)

Spec == Init /\ [][Next]_vars

-------------------------------------------------------------------------------
(***************************************************************************)
(* Properties.                                                             *)
(***************************************************************************)

\* The tables and the transactions are well typed; the transaction that
\* works on an invoice under its lock is the one that holds it.
TypeOK ==
  /\ matters \in [Matter -> MatterType \cup {NoRow}]
  /\ entries \in [Key -> EntryType \cup {NoRow}]
  /\ invoices \in [Key -> InvoiceType \cup {NoRow}]
  /\ lines \subseteq LineType
  /\ payments \subseteq PaymentType
  /\ idem \subseteq Request \cap KeyedType
  /\ pc \in [Proc -> {"idle", "begun", "waiting", "locked", "checked"}]
  /\ req \in [Proc -> Request \cup {NoRequest}]
  /\ \A p \in Proc : pc[p] = "idle" <=> req[p] = NoRequest
  /\ seen \in [Proc -> MatterType \cup EntryType \cup InvoiceType \cup {NoRow}]
  /\ holder \in [Key -> Proc \cup {NoProc}]
  /\ \A k \in Key : \A p \in Proc : holder[k] = p =>
       /\ pc[p] \in {"locked", "checked"}
       /\ req[p].op = "pay" /\ req[p].invoice = k

\* An entry counts as invoiced exactly when one invoice line bills it, also
\* when two invoices, or an invoice and an approval, race for it; the
\* invoice is the one the entry names, of the same matter.
BilledOnce ==
  \A k \in Key : entries[k] # NoRow =>
    LET bills == {line \in lines : line.entry = k} IN
    IF entries[k].invoicedAt = Never
    THEN bills = {}
    ELSE \E line \in bills :
           /\ bills = {line}
           /\ line.invoice = entries[k].invoicedAt
           /\ line.cents * 60 = entries[k].units
           /\ invoices[line.invoice] # NoRow
           /\ invoices[line.invoice].matter = entries[k].matter

\* An invoice asks for the sum of its lines and its paid column is the sum
\* of its payments, never more than that, whatever payments race; its status
\* says the same.
InvoiceAddsUp ==
  \A k \in Key : invoices[k] # NoRow =>
    LET invoice == invoices[k] IN
    /\ invoice.amount = Total(LinesOf(k))
    /\ invoice.paid = Total(PaymentsOf(k))
    /\ invoice.paid <= invoice.amount
    /\ invoice.status = "PAID" <=> invoice.paid > 0 /\ invoice.paid = invoice.amount
    /\ invoice.status = "ISSUED" <=> invoice.paid = 0

\* approveTimeEntry takes no lock.  An approval is replaced, even after the
\* entry was invoiced, only by an approval that had read the entry before the
\* first one committed, never by one that started later.
ReapprovalOverlaps ==
  \A k \in Key : entries[k] # NoRow =>
    /\ entries'[k] # NoRow
    /\ entries[k].approvedAt \notin {Never, entries'[k].approvedAt} =>
         \E p \in Proc :
           /\ pc[p] = "checked" /\ pc'[p] = "idle"
           /\ req[p].op = "approve" /\ req[p].entry = k
           /\ seen[p].approvedAt = Never

ApprovalsStand == [][ReapprovalOverlaps]_vars

\* A legal hold disappears only through an update that read the matter
\* before the hold was placed, and time is recorded on a matter that is not
\* active only by a request that read it while it was.
MatterOverlaps ==
  /\ \A m \in Matter :
       matters[m] # NoRow /\ matters[m].hold /\ ~matters'[m].hold =>
         \E p \in Proc :
           /\ pc[p] = "checked" /\ req[p].op = "update" /\ req[p].matter = m
           /\ ~seen[p].hold
  /\ \A k \in Key :
       LET entry == entries'[k] IN
       entries[k] # entry /\ entries[k] = NoRow
         /\ matters[entry.matter].status # "ACTIVE" =>
         \E p \in Proc :
           /\ pc[p] = "checked" /\ req[p].op = "create" /\ req[p].key = k
           /\ seen[p].status = "ACTIVE"

MattersRespected == [][MatterOverlaps]_vars

\* Billing is an implementation of Receivables: how far the tables say an
\* entry has come, and what they say is due of an invoice.
Stage(k) ==
  IF entries[k] = NoRow THEN "none"
  ELSE IF entries[k].invoicedAt # Never THEN "billed"
  ELSE IF entries[k].approvedAt # Never THEN "approved"
  ELSE "recorded"

Due(k) ==
  IF invoices[k] = NoRow THEN NoRow ELSE invoices[k].amount - invoices[k].paid

Account ==
  INSTANCE Receivables WITH
    Entry <- Key, Invoice <- Key, Unissued <- NoRow,
    stage <- [k \in Key |-> Stage(k)], due <- [k \in Key |-> Due(k)]

\* Billing does what Receivables promises.
ImplementsReceivables == Account!Spec

===============================================================================
