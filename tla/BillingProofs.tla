---------------------------- MODULE BillingProofs -----------------------------
(***************************************************************************)
(* Theorems about time entries, invoices and payments, for any set of      *)
(* requests and of concurrent transactions.                                *)
(*                                                                         *)
(* The inductive invariant says of the tables that they are well typed,    *)
(* refer to rows that exist, bill each entry once and add up; and of each  *)
(* transaction in flight that what it has decided on still holds: of an    *)
(* invoice because the transaction has its lock, of everything else        *)
(* because nothing overwrites the columns it looked at.                    *)
(***************************************************************************)
EXTENDS Billing, FiniteSums

-------------------------------------------------------------------------------
\* Every row that exists was recorded under its key, and what refers to a row
\* refers to one that exists.
Rows ==
  /\ \A k \in Key : entries[k] # NoRow =>
       \E row \in idem : row.op = "create" /\ row.key = k
  /\ \A k \in Key : invoices[k] # NoRow =>
       \E row \in idem : row.op = "issue" /\ row.key = k
  /\ \A line \in lines : entries[line.entry] # NoRow /\ invoices[line.invoice] # NoRow
  /\ \A payment \in payments : invoices[payment.invoice] # NoRow
  /\ IsFiniteSet(lines) /\ IsFiniteSet(payments)

\* What transaction p has found out about the row it is about to write.
Decided(p) ==
  LET r == req[p] IN
  /\ r.op = "update" =>
       /\ matters[r.matter] # NoRow
       /\ seen[p] \in MatterType
       /\ ~(seen[p].hold /\ r.hold = FALSE)
  /\ r.op = "create" =>
       /\ matters[r.matter] # NoRow
       /\ seen[p] \in MatterType
       /\ seen[p].status = "ACTIVE"
  /\ r.op = "approve" =>
       /\ entries[r.entry] # NoRow
       /\ seen[p] \in EntryType
       /\ seen[p].approvedAt = Never
  /\ r.op = "issue" =>
       \A k \in r.entries :
         /\ entries[k] # NoRow
         /\ entries[k].matter = r.matter
         /\ entries[k].units % 60 = 0
  /\ r.op = "pay" =>
       /\ invoices[r.invoice] # NoRow
       /\ seen[p] = invoices[r.invoice]
       /\ r.cents <= seen[p].amount - seen[p].paid

\* Only payments take locks, the lock a payment has taken is the one of its
\* invoice, and a transaction about to commit has decided.
Progress ==
  \A p \in Proc :
    /\ pc[p] \in {"waiting", "locked"} => req[p].op = "pay"
    /\ pc[p] \in {"locked", "checked"} /\ req[p].op = "pay" =>
         holder[req[p].invoice] = p
    /\ pc[p] = "checked" => Decided(p)

\* The inductive invariant.
IInv == TypeOK /\ Rows /\ Progress /\ BilledOnce /\ InvoiceAddsUp

-------------------------------------------------------------------------------

\* A request has the fields of its operation.
LEMMA Kinds ==
  ASSUME NEW r \in Request
  PROVE  /\ r.op \in {"open", "update", "create", "approve", "issue", "pay"}
         /\ r.op = "open" => r \in OpenRequest
         /\ r.op = "update" => r \in UpdateRequest
         /\ r.op = "create" => r \in CreateRequest
         /\ r.op = "approve" => r \in ApproveRequest
         /\ r.op = "issue" => r \in IssueRequest /\ IsFiniteSet(r.entries)
         /\ r.op = "pay" => r \in PayRequest
         /\ r.op \in {"open", "update"} => r \notin KeyedType
<1>1. r \in RequestType
  BY BillingAssumption
<1>2. r.op = "issue" => IsFiniteSet(r.entries)
  BY BillingAssumption
<1> QED
  BY <1>1, <1>2 DEF RequestType, KeyedType, OpenRequest, UpdateRequest, CreateRequest,
     ApproveRequest, IssueRequest, PayRequest

\* A total is the sum of the cents of its rows.
LEMMA TotalIsSum ==
  ASSUME NEW S, IsFiniteSet(S), NEW w, \A x \in S : w[x] = x.cents
  PROVE  Total(S) = Sum(w, S)
<1> DEFINE Fold(g, s) ==
      IF s = {} THEN 0
      ELSE (CHOOSE y \in s : TRUE).cents + g[s \ {CHOOSE y \in s : TRUE}]
<1>1. PICK h : IsSum(h, w, S)
  BY SumExists
<1>2. \A g : \A s \in SUBSET S : Fold(g, s) = Recur(g, w, s)
  BY ChosenIn DEF Recur, Chosen
<1>3. \A g : g = [s \in SUBSET S |-> Fold(g, s)] <=> IsSum(g, w, S)
  BY <1>2 DEF IsSum
<1> HIDE DEF Fold
<1>4. \E g : g = [s \in SUBSET S |-> Fold(g, s)]
  <2>1. h = [s \in SUBSET S |-> Fold(h, s)]
    BY <1>1, <1>3
  <2> QED BY <2>1
<1>5. IsSum(CHOOSE g : g = [s \in SUBSET S |-> Fold(g, s)], w, S)
  BY <1>3, <1>4
<1>6. Total(S) = (CHOOSE g : g = [s \in SUBSET S |-> Fold(g, s)])[S]
  BY DEF Total, MapThenSumSet, MapThenFoldSet, Fold
<1> QED
  BY <1>5, <1>6, SumIs

\* An invoice without lines or payments adds up to zero.
LEMMA TotalEmpty == Total({}) = 0
<1> DEFINE w == [x \in {} |-> 0]
<1>1. Total({}) = Sum(w, {})
  BY TotalIsSum, FS_EmptySet
<1> QED
  BY <1>1, SumEmpty

\* A total of cents is a number of cents.
LEMMA TotalType ==
  ASSUME NEW S, IsFiniteSet(S), \A x \in S : x.cents \in Nat
  PROVE  Total(S) \in Nat
<1> DEFINE w == [x \in S |-> x.cents]
<1>1. Total(S) = Sum(w, S)
  BY TotalIsSum
<1>2. \A x \in S : w[x] \in Nat
  OBVIOUS
<1> HIDE DEF w
<1> QED
  BY <1>1, <1>2, SumNonnegative

\* A new row adds its cents.
LEMMA TotalInsert ==
  ASSUME NEW S, IsFiniteSet(S), NEW e, e \notin S, \A x \in S \cup {e} : x.cents \in Nat
  PROVE  Total(S \cup {e}) = Total(S) + e.cents
<1> DEFINE T == S \cup {e}
           w == [x \in T |-> x.cents]
<1>1. IsFiniteSet(T)
  BY FS_AddElement
<1>2. /\ \A x \in T : w[x] = x.cents
      /\ \A x \in S : w[x] = x.cents
      /\ \A x \in T : w[x] \in Int
      /\ w[e] = e.cents
  OBVIOUS
<1> HIDE DEF w
<1>3. Total(T) = Sum(w, T) /\ Total(S) = Sum(w, S)
  BY <1>1, <1>2, TotalIsSum
<1>4. Sum(w, S \cup {e}) = Sum(w, S) + w[e]
  BY <1>2, SumInsert
<1> QED
  BY <1>2, <1>3, <1>4


-------------------------------------------------------------------------------

\* The part of TypeOK about the tables.
TablesTyped ==
  /\ matters \in [Matter -> MatterType \cup {NoRow}]
  /\ entries \in [Key -> EntryType \cup {NoRow}]
  /\ invoices \in [Key -> InvoiceType \cup {NoRow}]
  /\ lines \subseteq LineType
  /\ payments \subseteq PaymentType
  /\ idem \subseteq Request \cap KeyedType

\* The part of the invariant about the tables.
Tables == TablesTyped /\ Rows /\ BilledOnce /\ InvoiceAddsUp

\* The part of TypeOK about the transactions.
SessionsTyped ==
  /\ pc \in [Proc -> {"idle", "begun", "waiting", "locked", "checked"}]
  /\ req \in [Proc -> Request \cup {NoRequest}]
  /\ \A p \in Proc : pc[p] = "idle" <=> req[p] = NoRequest
  /\ seen \in [Proc -> MatterType \cup EntryType \cup InvoiceType \cup {NoRow}]
  /\ holder \in [Key -> Proc \cup {NoProc}]
  /\ \A k \in Key : \A p \in Proc : holder[k] = p =>
       /\ pc[p] \in {"locked", "checked"}
       /\ req[p].op = "pay" /\ req[p].invoice = k

\* The rows that exist stay, with the columns nothing overwrites; only its
\* payments change an invoice.
RowsKept(r) ==
  /\ \A m \in Matter : matters[m] # NoRow => matters'[m] # NoRow
  /\ \A k \in Key : entries[k] # NoRow =>
       /\ entries'[k] # NoRow
       /\ entries'[k].matter = entries[k].matter
       /\ entries'[k].units = entries[k].units
  /\ \A k \in Key : invoices[k] # NoRow /\ ~(r.op = "pay" /\ r.invoice = k) =>
       invoices'[k] = invoices[k]

\* The invariant speaks of the tables, of the transactions, and of both.
LEMMA Split == IInv <=> Tables /\ SessionsTyped /\ Progress
BY DEF IInv, Tables, TypeOK, TablesTyped, SessionsTyped

\* The same in the next state.
LEMMA SplitAfter ==
  ASSUME Tables', SessionsTyped', Progress'
  PROVE  IInv'
BY DEF IInv, Tables, TypeOK, TablesTyped, SessionsTyped

\* What holds of the tables holds while nobody writes them.
LEMMA SameTables ==
  ASSUME Tables, UNCHANGED tables
  PROVE  Tables'
<1> USE DEF tables
<1>1. TablesTyped'
  BY DEF Tables, TablesTyped
<1>2. Rows'
  BY DEF Tables, Rows
<1>3. BilledOnce'
  BY DEF Tables, BilledOnce
<1>4. InvoiceAddsUp'
  BY DEF Tables, InvoiceAddsUp, LinesOf, PaymentsOf
<1> QED
  BY <1>1, <1>2, <1>3, <1>4 DEF Tables

\* Opening or updating a matter keeps the tables in order.
LEMMA MattersKeep ==
  ASSUME Tables, NEW r \in Request,
         \/ Open(r)
         \/ Update(r) /\ matters[r.matter] # NoRow,
         UNCHANGED idem
  PROVE  Tables' /\ RowsKept(r)
<1>1. /\ r.matter \in Matter
      /\ matters' = [m \in Matter |-> matters'[m]]
      /\ \A m \in Matter : m # r.matter => matters'[m] = matters[m]
  BY Kinds DEF Open, Update, OpenRequest, UpdateRequest, Tables, TablesTyped
<1>2. matters'[r.matter] \in MatterType
  <2>1. CASE Open(r)
    <3>1. r \in OpenRequest
      BY <2>1, Kinds DEF Open
    <3>2. matters'[r.matter] = [status |-> r.status, hold |-> FALSE]
      BY <1>1, <2>1 DEF Open, Tables, TablesTyped
    <3> QED
      BY <3>1, <3>2 DEF OpenRequest, MatterType
  <2>2. CASE Update(r) /\ matters[r.matter] # NoRow
    <3>1. r \in UpdateRequest
      BY <2>2, Kinds DEF Update
    <3>2. matters[r.matter] \in MatterType
      BY <1>1, <2>2 DEF Tables, TablesTyped
    <3>3. /\ Named(r.status, matters[r.matter].status) \in Status
          /\ Named(r.hold, matters[r.matter].hold) \in BOOLEAN
      BY <3>1, <3>2, BillingAssumption DEF Named, UpdateRequest, MatterType
    <3>4. matters'[r.matter] =
            [status |-> Named(r.status, matters[r.matter].status),
             hold |-> Named(r.hold, matters[r.matter].hold)]
      BY <1>1, <2>2, <3>2 DEF Update, Tables, TablesTyped, MatterType
    <3> QED
      BY <3>3, <3>4 DEF MatterType
  <2> QED
    BY <2>1, <2>2
<1>3. UNCHANGED <<entries, invoices, lines, payments>>
  BY DEF Open, Update
<1>4. TablesTyped'
  BY <1>1, <1>2, <1>3 DEF Tables, TablesTyped
<1>5. Rows'
  BY <1>3 DEF Tables, Rows
<1>6. BilledOnce'
  BY <1>3 DEF Tables, BilledOnce
<1>7. InvoiceAddsUp'
  BY <1>3 DEF Tables, InvoiceAddsUp, LinesOf, PaymentsOf
<1>8. RowsKept(r)
  BY <1>1, <1>2, <1>3, BillingAssumption DEF RowsKept
<1> QED
  BY <1>4, <1>5, <1>6, <1>7, <1>8 DEF Tables

\* So does recording a time entry, whose row is new.
LEMMA CreateKeeps ==
  ASSUME Tables, NEW r \in Request, ~Recorded(r), Create(r), idem' = idem \cup {r}
  PROVE  /\ Tables' /\ RowsKept(r)
         /\ entries[r.key] = NoRow /\ entries'[r.key] # NoRow
<1>1. r \in CreateRequest /\ r \in KeyedType
  BY Kinds DEF Create, KeyedType
<1>2. entries[r.key] = NoRow
  BY <1>1 DEF Tables, Rows, Recorded, Keyed, CreateRequest
<1>3. TablesTyped'
  <2>1. [matter |-> r.matter, units |-> r.units, approvedAt |-> Never, invoicedAt |-> Never]
          \in EntryType
    BY <1>1 DEF CreateRequest, EntryType
  <2> QED
    BY <1>1, <2>1 DEF Tables, TablesTyped, Create
<1>4. Rows'
  <2>1. \A k \in Key : k # r.key => entries'[k] = entries[k]
    BY DEF Tables, TablesTyped, Create
  <2>2. \A line \in lines : line.entry \in Key /\ line.entry # r.key
    BY <1>2 DEF Tables, TablesTyped, Rows, LineType
  <2>3. idem \subseteq idem' /\ r \in idem' /\ r.op = "create"
    BY DEF Create
  <2>4. UNCHANGED <<lines, invoices, payments>>
    BY DEF Create
  <2>5. Rows
    BY DEF Tables
  <2> QED
    BY <2>1, <2>2, <2>3, <2>4, <2>5 DEF Rows
<1>5. BilledOnce'
  <2>1. \A k \in Key : k # r.key => entries'[k] = entries[k]
    BY DEF Tables, TablesTyped, Create
  <2>2. entries'[r.key].invoicedAt = Never
    BY <1>1 DEF Tables, TablesTyped, Create, CreateRequest
  <2>3. \A line \in lines : line.entry # r.key
    BY <1>2 DEF Tables, Rows
  <2>4. UNCHANGED <<lines, invoices>>
    BY DEF Create
  <2> QED
    BY <2>1, <2>2, <2>3, <2>4 DEF Tables, BilledOnce
<1>6. InvoiceAddsUp'
  BY DEF Tables, InvoiceAddsUp, LinesOf, PaymentsOf, Create
<1>7. RowsKept(r)
  <2>1. \A k \in Key : k # r.key => entries'[k] = entries[k]
    BY DEF Tables, TablesTyped, Create
  <2>2. UNCHANGED <<matters, invoices>>
    BY DEF Create
  <2> QED
    BY <1>2, <2>1, <2>2 DEF RowsKept
<1>8. entries'[r.key] # NoRow
  <2>1. entries'[r.key] =
          [matter |-> r.matter, units |-> r.units, approvedAt |-> Never, invoicedAt |-> Never]
    BY <1>1 DEF Tables, TablesTyped, Create, CreateRequest
  <2>2. entries'[r.key] \in EntryType
    BY <1>1, <2>1 DEF CreateRequest, EntryType
  <2> QED
    BY <2>2, BillingAssumption
<1> QED
  BY <1>2, <1>3, <1>4, <1>5, <1>6, <1>7, <1>8 DEF Tables

\* So does approving one, which overwrites nothing but its approval.
LEMMA ApproveKeeps ==
  ASSUME Tables, NEW p, NEW r \in Request, entries[r.entry] # NoRow,
         Approve(p, r), idem' = idem \cup {r}
  PROVE  Tables' /\ RowsKept(r)
<1>1. r \in ApproveRequest /\ r \in KeyedType
  BY Kinds DEF Approve, KeyedType
<1>2. UNCHANGED <<matters, invoices, lines, payments>>
  BY DEF Approve
<1>3. /\ entries' = [k \in Key |-> entries'[k]]
      /\ \A k \in Key : k # r.entry => entries'[k] = entries[k]
      /\ entries'[r.entry] = [entries[r.entry] EXCEPT !.approvedAt = r.key]
      /\ entries[r.entry] \in EntryType
      /\ r.entry \in Key /\ r.key \in Key
  BY <1>1 DEF Approve, Tables, TablesTyped, ApproveRequest
<1>4. /\ entries'[r.entry] \in EntryType
      /\ \A k \in Key : entries'[k] # NoRow <=> entries[k] # NoRow
      /\ \A k \in Key : entries[k] # NoRow =>
           /\ entries'[k].invoicedAt = entries[k].invoicedAt
           /\ entries'[k].units = entries[k].units
           /\ entries'[k].matter = entries[k].matter
  BY <1>3, BillingAssumption DEF EntryType
<1>5. TablesTyped'
  BY <1>1, <1>2, <1>3, <1>4 DEF Tables, TablesTyped
<1>6. Rows'
  <2>1. \A line \in lines : line.entry \in Key
    BY DEF Tables, TablesTyped, LineType
  <2> QED
    BY <1>2, <1>4, <2>1 DEF Tables, Rows
<1>7. BilledOnce'
  BY <1>2, <1>4 DEF Tables, BilledOnce
<1>8. InvoiceAddsUp'
  BY <1>2 DEF Tables, InvoiceAddsUp, LinesOf, PaymentsOf
<1>9. RowsKept(r)
  BY <1>2, <1>4 DEF RowsKept
<1> QED
  BY <1>5, <1>6, <1>7, <1>8, <1>9 DEF Tables

\* The lines of an invoice are finitely many well-typed rows, one per entry.
LEMMA NewLines ==
  ASSUME Tables, NEW r \in Request, r.op = "issue",
         \A k \in r.entries : entries[k] # NoRow /\ entries[k].units % 60 = 0
  PROVE  /\ LinesFor(r) \subseteq LineType
         /\ IsFiniteSet(LinesFor(r))
         /\ \A k \in r.entries : \E line \in LinesFor(r) :
              /\ line.entry = k
              /\ line.cents * 60 = entries[k].units
              /\ \A other \in LinesFor(r) : other.entry = k => other = line
         /\ \A line \in LinesFor(r) : line.invoice = r.key /\ line.entry \in r.entries
<1> DEFINE L(k) == [invoice |-> r.key, entry |-> k, cents |-> entries[k].units \div 60]
<1>1. r \in IssueRequest /\ IsFiniteSet(r.entries)
  BY Kinds
<1>2. \A k \in r.entries : k \in Key /\ entries[k] \in EntryType
  BY <1>1 DEF IssueRequest, Tables, TablesTyped
<1>3. \A u \in Nat : u \div 60 \in Nat /\ (u % 60 = 0 => (u \div 60) * 60 = u)
  OBVIOUS
<1>4. \A k \in r.entries : L(k) \in LineType /\ L(k).cents * 60 = entries[k].units
  BY <1>1, <1>2, <1>3 DEF LineType, EntryType, IssueRequest
<1>5. LinesFor(r) = {L(k) : k \in r.entries}
  BY DEF LinesFor
<1>6. IsFiniteSet({L(k) : k \in r.entries})
  <2> DEFINE f == [k \in r.entries |-> L(k)]
             T == {L(k) : k \in r.entries}
  <2>1. f \in Surjection(r.entries, T)
    BY DEF Surjection
  <2> QED
    BY <1>1, <2>1, FS_Surjection
<1>7. \A k \in r.entries : L(k) \in LinesFor(r) /\ L(k).entry = k /\ L(k).invoice = r.key
  BY <1>5
<1>8. \A line \in LinesFor(r) : \E k \in r.entries : line = L(k)
  BY <1>5
<1>9. LinesFor(r) \subseteq LineType
  BY <1>4, <1>8
<1> HIDE DEF L
<1> QED
  BY <1>4, <1>5, <1>6, <1>7, <1>8, <1>9

\* So does issuing an invoice: its row and its lines are new, and no line
\* bills one of its entries already.
LEMMA IssueKeeps ==
  ASSUME Tables, NEW r \in Request, Constraints(r), Issue(r), idem' = idem \cup {r},
         \A k \in r.entries :
           entries[k] # NoRow /\ entries[k].matter = r.matter /\ entries[k].units % 60 = 0
  PROVE  /\ Tables'
         /\ RowsKept(r)
         /\ invoices[r.key] = NoRow
         /\ invoices'[r.key] # NoRow
         /\ invoices'[r.key].paid = 0 /\ invoices'[r.key].amount \in Nat
<1>1. r \in IssueRequest /\ r \in KeyedType /\ r.op = "issue"
  BY Kinds DEF Issue, KeyedType
<1>2. /\ r.key \in Key /\ r.matter \in Matter /\ r.number \in Number
      /\ r.entries \subseteq Key
  BY <1>1 DEF IssueRequest
<1>3. \A k \in r.entries : Billable(k)
  BY <1>1 DEF Constraints
<1>4. invoices[r.key] = NoRow
  <2>1. ~ \E row \in idem : row.op = "issue" /\ row.key = r.key
    BY <1>1 DEF Constraints, Recorded, Keyed
  <2> QED
    BY <1>2, <2>1 DEF Tables, Rows
<1> DEFINE new == LinesFor(r)
           amount == Total(new)
<1>5. /\ new \subseteq LineType
      /\ IsFiniteSet(new)
      /\ \A k \in r.entries : \E line \in new :
           /\ line.entry = k
           /\ line.cents * 60 = entries[k].units
           /\ \A other \in new : other.entry = k => other = line
      /\ \A line \in new : line.invoice = r.key /\ line.entry \in r.entries
  BY <1>1, NewLines
<1>6. lines' = lines \cup new /\ UNCHANGED <<matters, payments>>
  BY DEF Issue
<1>7. amount \in Nat
  <2>1. \A x \in new : x.cents \in Nat
    BY <1>5 DEF LineType
  <2> HIDE DEF new
  <2> QED
    BY <1>5, <2>1, TotalType
<1>8. /\ invoices' = [k \in Key |-> invoices'[k]]
      /\ \A k \in Key : k # r.key => invoices'[k] = invoices[k]
      /\ invoices'[r.key] =
           [matter |-> r.matter, number |-> r.number, amount |-> amount,
            paid |-> 0, status |-> "ISSUED"]
  BY <1>2 DEF Issue, Tables, TablesTyped
<1> HIDE DEF new, amount
<1>9. invoices'[r.key] \in InvoiceType /\ invoices'[r.key] # NoRow
  BY <1>2, <1>7, <1>8, BillingAssumption DEF InvoiceType, InvoiceStatus
<1>10. /\ entries' = [k \in Key |-> entries'[k]]
       /\ \A k \in Key : k \notin r.entries => entries'[k] = entries[k]
       /\ \A k \in r.entries : entries'[k] = [entries[k] EXCEPT !.invoicedAt = r.key]
  BY <1>2 DEF Issue
<1>11. \A k \in r.entries :
         /\ entries[k] \in EntryType
         /\ entries'[k] \in EntryType /\ entries'[k] # NoRow
         /\ entries'[k].invoicedAt = r.key
         /\ entries'[k].units = entries[k].units
         /\ entries'[k].matter = r.matter
  <2> SUFFICES ASSUME NEW k \in r.entries
               PROVE  /\ entries[k] \in EntryType
                      /\ entries'[k] \in EntryType /\ entries'[k] # NoRow
                      /\ entries'[k].invoicedAt = r.key
                      /\ entries'[k].units = entries[k].units
                      /\ entries'[k].matter = r.matter
    OBVIOUS
  <2>1. entries[k] \in EntryType /\ entries[k].matter = r.matter
    BY <1>2 DEF Tables, TablesTyped
  <2>2. entries'[k] = [entries[k] EXCEPT !.invoicedAt = r.key]
    BY <1>10
  <2>3. entries'[k] \in EntryType
    BY <1>2, <2>1, <2>2 DEF EntryType
  <2>4. entries'[k] # NoRow
    BY <2>3, BillingAssumption
  <2> QED
    BY <2>1, <2>2, <2>3, <2>4 DEF EntryType
<1>12. \A line \in lines :
         /\ line.entry \in Key /\ line.invoice \in Key
         /\ line.invoice # r.key
         /\ line.entry \notin r.entries
  BY <1>1, <1>4 DEF Tables, TablesTyped, Rows, LineType, Constraints
<1>13. TablesTyped'
  <2>1. entries' \in [Key -> EntryType \cup {NoRow}]
    BY <1>10, <1>11 DEF Tables, TablesTyped
  <2>2. invoices' \in [Key -> InvoiceType \cup {NoRow}]
    BY <1>8, <1>9 DEF Tables, TablesTyped
  <2> QED
    BY <1>1, <1>5, <1>6, <2>1, <2>2 DEF Tables, TablesTyped
<1>14. Rows'
  <2>1. \A k \in Key : entries'[k] # NoRow => entries[k] # NoRow
    BY <1>10
  <2>2. \A line \in lines' : entries'[line.entry] # NoRow /\ invoices'[line.invoice] # NoRow
    BY <1>5, <1>6, <1>8, <1>9, <1>10, <1>11, <1>12 DEF Tables, Rows
  <2>3. \A payment \in payments' : invoices'[payment.invoice] # NoRow
    BY <1>4, <1>6, <1>8, <1>9 DEF Tables, TablesTyped, Rows, PaymentType
  <2>4. IsFiniteSet(lines') /\ IsFiniteSet(payments')
    BY <1>5, <1>6, FS_Union DEF Tables, Rows
  <2>5. \A k \in Key : invoices'[k] # NoRow => invoices[k] # NoRow \/ k = r.key
    BY <1>8
  <2>6. r \in idem' /\ idem \subseteq idem'
    OBVIOUS
  <2> QED
    BY <1>1, <2>1, <2>2, <2>3, <2>4, <2>5, <2>6 DEF Tables, Rows
<1>15. BilledOnce'
  <2> SUFFICES ASSUME NEW k \in Key, entries'[k] # NoRow
               PROVE  LET bills == {line \in lines' : line.entry = k} IN
                      IF entries'[k].invoicedAt = Never
                      THEN bills = {}
                      ELSE \E line \in bills :
                             /\ bills = {line}
                             /\ line.invoice = entries'[k].invoicedAt
                             /\ line.cents * 60 = entries'[k].units
                             /\ invoices'[line.invoice] # NoRow
                             /\ invoices'[line.invoice].matter = entries'[k].matter
    BY DEF BilledOnce
  <2>1. CASE k \in r.entries
    <3>1. PICK line \in new :
            /\ line.entry = k
            /\ line.cents * 60 = entries[k].units
            /\ \A other \in new : other.entry = k => other = line
      BY <1>5, <2>1
    <3>2. {l \in lines' : l.entry = k} = {line}
      BY <1>6, <1>12, <2>1, <3>1
    <3>3. line.invoice = r.key /\ entries'[k].invoicedAt # Never
      BY <1>2, <1>5, <1>11, <2>1, BillingAssumption
    <3> QED
      BY <1>8, <1>9, <1>11, <2>1, <3>1, <3>2, <3>3
  <2>2. CASE k \notin r.entries
    <3>1. {l \in lines' : l.entry = k} = {l \in lines : l.entry = k}
      BY <1>5, <1>6, <2>2
    <3>2. entries'[k] = entries[k]
      BY <1>10, <2>2
    <3>3. \A l \in lines : invoices'[l.invoice] = invoices[l.invoice]
      BY <1>8, <1>12
    <3> QED
      BY <3>1, <3>2, <3>3 DEF Tables, BilledOnce
  <2> QED
    BY <2>1, <2>2
<1>16. InvoiceAddsUp'
  <2>1. \A k \in Key : k # r.key => LinesOf(k)' = LinesOf(k) /\ PaymentsOf(k)' = PaymentsOf(k)
    BY <1>5, <1>6 DEF LinesOf, PaymentsOf
  <2>2. LinesOf(r.key)' = new
    BY <1>5, <1>6, <1>12 DEF LinesOf
  <2>3. PaymentsOf(r.key)' = {}
    BY <1>4, <1>6 DEF PaymentsOf, Tables, Rows
  <2>4. Total(LinesOf(r.key)') = amount /\ Total(PaymentsOf(r.key)') = 0
    BY <2>2, <2>3, TotalEmpty DEF amount
  <2> SUFFICES ASSUME NEW k \in Key, invoices'[k] # NoRow
               PROVE  /\ invoices'[k].amount = Total(LinesOf(k)')
                      /\ invoices'[k].paid = Total(PaymentsOf(k)')
                      /\ invoices'[k].paid <= invoices'[k].amount
                      /\ invoices'[k].status = "PAID" <=>
                           invoices'[k].paid > 0 /\ invoices'[k].paid = invoices'[k].amount
                      /\ invoices'[k].status = "ISSUED" <=> invoices'[k].paid = 0
    BY DEF InvoiceAddsUp
  <2>5. CASE k = r.key
    BY <1>7, <1>8, <2>4, <2>5
  <2>6. CASE k # r.key
    BY <1>8, <2>1, <2>6 DEF Tables, InvoiceAddsUp
  <2> QED
    BY <2>5, <2>6
<1>17. RowsKept(r)
  <2>1. \A k \in Key : entries[k] # NoRow =>
          /\ entries'[k] # NoRow
          /\ entries'[k].matter = entries[k].matter
          /\ entries'[k].units = entries[k].units
    BY <1>10, <1>11
  <2>2. \A k \in Key : invoices[k] # NoRow => invoices'[k] = invoices[k]
    BY <1>4, <1>8
  <2> QED
    BY <1>6, <2>1, <2>2 DEF RowsKept
<1> QED
  BY <1>4, <1>7, <1>8, <1>9, <1>13, <1>14, <1>15, <1>16, <1>17 DEF Tables


\* So does a payment that read the invoice as it is now.
LEMMA PayKeeps ==
  ASSUME Tables, NEW p, NEW r \in Request, Constraints(r), Pay(p, r),
         idem' = idem \cup {r},
         invoices[r.invoice] # NoRow, seen[p] = invoices[r.invoice],
         r.cents <= seen[p].amount - seen[p].paid
  PROVE  /\ Tables'
         /\ RowsKept(r)
         /\ invoices[r.invoice] \in InvoiceType
         /\ \A k \in Key : k # r.invoice => invoices'[k] = invoices[k]
         /\ invoices'[r.invoice] # NoRow
         /\ invoices'[r.invoice].amount = invoices[r.invoice].amount
         /\ invoices'[r.invoice].paid = invoices[r.invoice].paid + r.cents
<1>1. r \in PayRequest /\ r \in KeyedType /\ r.op = "pay"
  BY Kinds DEF Pay, KeyedType
<1>2. /\ r.key \in Key /\ r.invoice \in Key /\ r.lawPay \in LawPayId
      /\ r.cents \in Nat /\ r.cents > 0
  BY <1>1 DEF PayRequest
<1> DEFINE k0 == r.invoice
           old == invoices[k0]
           payment == [key |-> r.key, invoice |-> k0, lawPay |-> r.lawPay, cents |-> r.cents]
           paid == old.paid + r.cents
<1>3. old \in InvoiceType
  BY <1>2 DEF Tables, TablesTyped
<1>4. /\ old.amount \in Nat /\ old.paid \in Nat /\ old.matter \in Matter
      /\ old.number \in Number /\ paid \in Nat /\ paid > 0 /\ paid <= old.amount
  BY <1>2, <1>3 DEF InvoiceType
<1>5. payment \in PaymentType /\ payment \notin payments
  BY <1>1, <1>2 DEF PaymentType, Constraints
<1>6. payments' = payments \cup {payment} /\ UNCHANGED <<matters, entries, lines>>
  BY DEF Pay
<1>7. /\ invoices' = [k \in Key |-> invoices'[k]]
      /\ \A k \in Key : k # k0 => invoices'[k] = invoices[k]
  BY DEF Pay, Tables, TablesTyped
<1>8. invoices'[k0] =
        [matter |-> old.matter, number |-> old.number, amount |-> old.amount,
         paid |-> paid,
         status |-> IF paid = old.amount THEN "PAID" ELSE "PARTIALLY_PAID"]
  BY <1>2, <1>3 DEF Pay, Tables, TablesTyped, InvoiceType
<1> HIDE DEF k0, old, payment, paid
<1>9. invoices'[k0] \in InvoiceType /\ invoices'[k0] # NoRow
  BY <1>4, <1>8, BillingAssumption DEF InvoiceType, InvoiceStatus
<1>10. k0 \in Key /\ payment.invoice = k0 /\ payment.cents = r.cents /\ old = invoices[k0]
       /\ invoices[k0] # NoRow /\ k0 = r.invoice
  BY <1>2 DEF k0, payment, old
<1>11. TablesTyped'
  BY <1>1, <1>5, <1>6, <1>7, <1>9, <1>10 DEF Tables, TablesTyped
<1>12. \A k \in Key : invoices'[k] # NoRow <=> invoices[k] # NoRow
  BY <1>7, <1>9, <1>10
<1>13. Rows'
  <2>1. IsFiniteSet(payments')
    BY <1>6, FS_AddElement DEF Tables, Rows
  <2>2. \A line \in lines : line.invoice \in Key
    BY DEF Tables, TablesTyped, LineType
  <2>3. \A q \in payments : q.invoice \in Key
    BY DEF Tables, TablesTyped, PaymentType
  <2>4. /\ \A k \in Key : entries'[k] # NoRow =>
             \E row \in idem' : row.op = "create" /\ row.key = k
        /\ \A k \in Key : invoices'[k] # NoRow =>
             \E row \in idem' : row.op = "issue" /\ row.key = k
    BY <1>6, <1>12 DEF Tables, Rows
  <2>5. \A line \in lines' : entries'[line.entry] # NoRow /\ invoices'[line.invoice] # NoRow
    BY <1>6, <1>12, <2>2 DEF Tables, Rows
  <2>6. \A q \in payments' : invoices'[q.invoice] # NoRow
    BY <1>6, <1>9, <1>10, <1>12, <2>3 DEF Tables, Rows
  <2> QED
    BY <1>6, <2>1, <2>4, <2>5, <2>6 DEF Tables, Rows
<1>14. BilledOnce'
  <2>1. \A line \in lines : line.invoice \in Key
    BY DEF Tables, TablesTyped, LineType
  <2>2. \A k \in Key : invoices'[k].matter = invoices[k].matter
    BY <1>7, <1>8, <1>10
  <2> QED
    BY <1>6, <1>12, <2>1, <2>2 DEF Tables, BilledOnce
<1>15. InvoiceAddsUp'
  <2>1. \A k \in Key : LinesOf(k)' = LinesOf(k)
    BY <1>6 DEF LinesOf
  <2>2. \A k \in Key : k # k0 => PaymentsOf(k)' = PaymentsOf(k)
    BY <1>6, <1>10 DEF PaymentsOf
  <2>3. PaymentsOf(k0)' = PaymentsOf(k0) \cup {payment}
    BY <1>6, <1>10 DEF PaymentsOf
  <2>4. Total(PaymentsOf(k0) \cup {payment}) = Total(PaymentsOf(k0)) + r.cents
    <3>1. IsFiniteSet(PaymentsOf(k0)) /\ payment \notin PaymentsOf(k0)
      BY <1>5, FS_Subset DEF Tables, Rows, PaymentsOf
    <3>2. \A x \in PaymentsOf(k0) \cup {payment} : x.cents \in Nat
      BY <1>5 DEF Tables, TablesTyped, PaymentsOf, PaymentType
    <3> QED
      BY <1>10, <3>1, <3>2, TotalInsert
  <2>5. old.paid = Total(PaymentsOf(k0)) /\ old.amount = Total(LinesOf(k0))
    BY <1>10 DEF Tables, InvoiceAddsUp
  <2>6. Total(PaymentsOf(k0)') = paid
    BY <2>3, <2>4, <2>5 DEF paid
  <2>7. Total(LinesOf(k0)') = old.amount
    BY <1>10, <2>1, <2>5
  <2> SUFFICES ASSUME NEW k \in Key, invoices'[k] # NoRow
               PROVE  /\ invoices'[k].amount = Total(LinesOf(k)')
                      /\ invoices'[k].paid = Total(PaymentsOf(k)')
                      /\ invoices'[k].paid <= invoices'[k].amount
                      /\ invoices'[k].status = "PAID" <=>
                           invoices'[k].paid > 0 /\ invoices'[k].paid = invoices'[k].amount
                      /\ invoices'[k].status = "ISSUED" <=> invoices'[k].paid = 0
    BY DEF InvoiceAddsUp
  <2>8. CASE k = k0
    BY <1>4, <1>8, <2>6, <2>7, <2>8
  <2>9. CASE k # k0
    <3>1. invoices'[k] = invoices[k]
      BY <1>7, <2>9
    <3> QED
      BY <2>1, <2>2, <2>9, <3>1 DEF Tables, InvoiceAddsUp
  <2> QED
    BY <2>8, <2>9
<1>16. RowsKept(r)
  BY <1>1, <1>6, <1>7, <1>10 DEF RowsKept
<1> QED
  BY <1>3, <1>7, <1>8, <1>9, <1>10, <1>11, <1>13, <1>14, <1>15, <1>16 DEF Tables, paid

-------------------------------------------------------------------------------
\* A transaction that is not idle serves a request.
LEMMA Serving ==
  ASSUME IInv, NEW p \in Proc, pc[p] # "idle"
  PROVE  req[p] \in Request
BY DEF IInv, TypeOK

\* A commit writes what its transaction has decided.
LEMMA CommitKeeps ==
  ASSUME IInv, NEW p \in Proc, Commit(p)
  PROVE  Tables' /\ RowsKept(req[p])
<1> DEFINE r == req[p]
<1>1. r \in Request
  BY Serving DEF Commit
<1>2. Tables /\ Decided(p)
  BY Split DEF Progress, Commit
<1>3. Constraints(r)
  BY DEF Commit
<1>4. CASE Open(r)
  <2>1. UNCHANGED idem
    BY <1>4 DEF Commit, Effect, Keyed, Open
  <2> QED
    BY <1>1, <1>2, <1>4, <2>1, MattersKeep
<1>5. CASE Update(r)
  <2>1. UNCHANGED idem /\ matters[r.matter] # NoRow
    BY <1>2, <1>5 DEF Commit, Effect, Keyed, Update, Decided
  <2> QED
    BY <1>1, <1>2, <1>5, <2>1, MattersKeep
<1>6. CASE Create(r)
  <2>1. idem' = idem \cup {r} /\ ~Recorded(r)
    BY <1>3, <1>6 DEF Commit, Effect, Keyed, Create, Constraints
  <2> QED
    BY <1>1, <1>2, <1>6, <2>1, CreateKeeps
<1>7. CASE Approve(p, r)
  <2>1. idem' = idem \cup {r} /\ entries[r.entry] # NoRow
    BY <1>2, <1>7 DEF Commit, Effect, Keyed, Approve, Decided
  <2> QED
    BY <1>1, <1>2, <1>7, <2>1, ApproveKeeps
<1>8. CASE Issue(r)
  <2>1. /\ idem' = idem \cup {r}
        /\ \A k \in r.entries :
             entries[k] # NoRow /\ entries[k].matter = r.matter /\ entries[k].units % 60 = 0
    BY <1>2, <1>8 DEF Commit, Effect, Keyed, Issue, Decided
  <2> QED
    BY <1>1, <1>2, <1>3, <1>8, <2>1, IssueKeeps
<1>9. CASE Pay(p, r)
  <2>1. /\ idem' = idem \cup {r}
        /\ invoices[r.invoice] # NoRow /\ seen[p] = invoices[r.invoice]
        /\ r.cents <= seen[p].amount - seen[p].paid
    BY <1>2, <1>9 DEF Commit, Effect, Keyed, Pay, Decided
  <2> QED
    BY <1>1, <1>2, <1>3, <1>9, <2>1, PayKeeps
<1> QED
  BY <1>4, <1>5, <1>6, <1>7, <1>8, <1>9 DEF Commit, Effect

\* The end of a transaction keeps the sessions well typed and gives back its
\* locks only.
LEMMA EndsKeeps ==
  ASSUME SessionsTyped, NEW p \in Proc, Ends(p)
  PROVE  /\ SessionsTyped'
         /\ pc'[p] = "idle"
         /\ \A q \in Proc : q # p =>
              pc'[q] = pc[q] /\ req'[q] = req[q] /\ seen'[q] = seen[q]
         /\ \A k \in Key : holder[k] # p => holder'[k] = holder[k]
<1>1. /\ pc' \in [Proc -> {"idle", "begun", "waiting", "locked", "checked"}]
      /\ req' \in [Proc -> Request \cup {NoRequest}]
      /\ seen' \in [Proc -> MatterType \cup EntryType \cup InvoiceType \cup {NoRow}]
      /\ holder' \in [Key -> Proc \cup {NoProc}]
  BY DEF SessionsTyped, Ends
<1>2. /\ pc'[p] = "idle" /\ req'[p] = NoRequest
      /\ \A q \in Proc : q # p =>
           pc'[q] = pc[q] /\ req'[q] = req[q] /\ seen'[q] = seen[q]
      /\ \A k \in Key : holder[k] # p => holder'[k] = holder[k]
      /\ \A k \in Key : holder[k] = p => holder'[k] = NoProc
  BY DEF SessionsTyped, Ends
<1>3. \A q \in Proc : pc'[q] = "idle" <=> req'[q] = NoRequest
  BY <1>2 DEF SessionsTyped
<1>4. \A k \in Key : \A q \in Proc : holder'[k] = q =>
        /\ pc'[q] \in {"locked", "checked"}
        /\ req'[q].op = "pay" /\ req'[q].invoice = k
  BY <1>2, BillingAssumption DEF SessionsTyped
<1> QED
  BY <1>1, <1>2, <1>3, <1>4 DEF SessionsTyped


\* What a transaction has decided on stands when another one commits.
LEMMA DecidedKeeps ==
  ASSUME NEW q \in Proc, req[q] \in Request, Decided(q), NEW r, RowsKept(r),
         req'[q] = req[q], seen'[q] = seen[q],
         req[q].op = "pay" /\ invoices[req[q].invoice] # NoRow =>
           invoices'[req[q].invoice] = invoices[req[q].invoice]
  PROVE  Decided(q)'
<1> DEFINE own == req[q]
<1>1. /\ own.op \in {"update", "create"} => own.matter \in Matter
      /\ own.op = "approve" => own.entry \in Key
      /\ own.op = "issue" => own.entries \subseteq Key
      /\ own.op = "pay" => own.invoice \in Key
  BY Kinds DEF UpdateRequest, CreateRequest, ApproveRequest, IssueRequest, PayRequest
<1>2. own.op = "update" => matters'[own.matter] # NoRow
  BY <1>1 DEF Decided, RowsKept
<1>3. own.op = "create" => matters'[own.matter] # NoRow
  BY <1>1 DEF Decided, RowsKept
<1>4. own.op = "approve" => entries'[own.entry] # NoRow
  BY <1>1 DEF Decided, RowsKept
<1>5. own.op = "issue" => \A k \in own.entries :
        /\ entries'[k] # NoRow
        /\ entries'[k].matter = own.matter
        /\ entries'[k].units % 60 = 0
  BY <1>1 DEF Decided, RowsKept
<1> QED
  BY <1>2, <1>3, <1>4, <1>5 DEF Decided

\* A step of one transaction that keeps the rows preserves what holds of the
\* others.
LEMMA OthersProgress ==
  ASSUME IInv, NEW p \in Proc, NEW r, RowsKept(r),
         \A q \in Proc : q # p =>
           pc'[q] = pc[q] /\ req'[q] = req[q] /\ seen'[q] = seen[q],
         \A k \in Key : holder[k] \in Proc /\ holder[k] # p =>
           /\ holder'[k] = holder[k]
           /\ invoices[k] # NoRow => invoices'[k] = invoices[k],
         NEW q \in Proc, q # p
  PROVE  /\ pc'[q] \in {"waiting", "locked"} => req'[q].op = "pay"
         /\ pc'[q] \in {"locked", "checked"} /\ req'[q].op = "pay" =>
              holder'[req'[q].invoice] = q
         /\ pc'[q] = "checked" => Decided(q)'
<1>1. pc[q] # "idle" => req[q] \in Request
  BY Serving
<1>2. pc[q] \in {"locked", "checked"} /\ req[q].op = "pay" =>
        /\ req[q].invoice \in Key
        /\ holder'[req[q].invoice] = q
        /\ invoices[req[q].invoice] # NoRow =>
             invoices'[req[q].invoice] = invoices[req[q].invoice]
  BY <1>1, Kinds DEF IInv, Progress, PayRequest
<1>3. pc[q] = "checked" => Decided(q)'
  BY <1>1, <1>2, DecidedKeeps DEF IInv, Progress
<1> QED
  BY <1>2, <1>3 DEF IInv, Progress

\* Taking up a request preserves what holds of the transactions.
LEMMA BeginKeeps ==
  ASSUME IInv, NEW p \in Proc, Begin(p)
  PROVE  SessionsTyped' /\ Progress'
<1>1. PICK r \in Request :
        /\ Moves(p, "idle", "begun")
        /\ req' = [req EXCEPT ![p] = r]
        /\ UNCHANGED <<tables, seen, holder>>
  BY DEF Begin
<1>2. r # NoRequest
  BY BillingAssumption
<1>3. SessionsTyped /\ Progress
  BY Split
<1>4. /\ pc'[p] = "begun" /\ req'[p] = r /\ pc[p] = "idle"
      /\ \A q \in Proc : q # p => pc'[q] = pc[q] /\ req'[q] = req[q] /\ seen'[q] = seen[q]
  BY <1>1, <1>3 DEF SessionsTyped, Moves
<1>5. SessionsTyped'
  BY <1>1, <1>2, <1>3, <1>4 DEF SessionsTyped, Moves
<1>6. RowsKept(r)
  BY <1>1 DEF RowsKept, tables
<1>7. Progress'
  BY <1>1, <1>4, <1>6, OthersProgress DEF Progress, tables
<1> QED
  BY <1>5, <1>7

\* So does the end of a transaction, with a commit or without.
LEMMA EndingKeeps ==
  ASSUME IInv, NEW p \in Proc, pc[p] # "idle", Ends(p), RowsKept(req[p]),
         \A k \in Key : holder[k] \in Proc /\ holder[k] # p /\ invoices[k] # NoRow =>
           invoices'[k] = invoices[k]
  PROVE  SessionsTyped' /\ Progress'
<1>1. /\ SessionsTyped'
      /\ pc'[p] = "idle"
      /\ \A q \in Proc : q # p =>
           pc'[q] = pc[q] /\ req'[q] = req[q] /\ seen'[q] = seen[q]
      /\ \A k \in Key : holder[k] # p => holder'[k] = holder[k]
  BY Split, EndsKeeps
<1>2. Progress'
  BY <1>1, OthersProgress DEF Progress
<1> QED
  BY <1>1, <1>2

\* So does looking a payment's key up.
LEMMA LookUpKeeps ==
  ASSUME IInv, NEW p \in Proc, LookUp(p)
  PROVE  SessionsTyped' /\ Progress'
<1>1. SessionsTyped /\ Progress
  BY Split
<1>2. /\ pc'[p] = "waiting" /\ pc[p] = "begun"
      /\ \A q \in Proc : q # p => pc'[q] = pc[q]
      /\ UNCHANGED <<tables, req, seen, holder>>
      /\ req[p].op = "pay"
  BY <1>1 DEF LookUp, Moves, SessionsTyped
<1>3. SessionsTyped'
  BY <1>1, <1>2 DEF SessionsTyped, LookUp, Moves
<1>4. RowsKept(req[p])
  BY <1>2 DEF RowsKept, tables
<1>5. Progress'
  BY <1>2, <1>4, OthersProgress DEF Progress, tables
<1> QED
  BY <1>3, <1>5

\* So does taking the lock of an invoice, which nobody held.
LEMMA TakeLockKeeps ==
  ASSUME IInv, NEW p \in Proc, TakeLock(p)
  PROVE  SessionsTyped' /\ Progress'
<1>1. SessionsTyped /\ Progress
  BY Split
<1> DEFINE i == req[p].invoice
<1>2. /\ pc'[p] = "locked" /\ pc[p] = "waiting"
      /\ \A q \in Proc : q # p => pc'[q] = pc[q]
      /\ UNCHANGED <<tables, req, seen>>
      /\ req[p].op = "pay"
  BY <1>1 DEF TakeLock, Moves, SessionsTyped, Progress
<1>3. i \in Key
  BY <1>2, Serving, Kinds DEF PayRequest
<1>4. /\ holder[i] = NoProc /\ holder'[i] = p
      /\ holder' \in [Key -> Proc \cup {NoProc}]
      /\ \A k \in Key : k # i => holder'[k] = holder[k]
  BY <1>1, <1>3 DEF TakeLock, SessionsTyped
<1>5. SessionsTyped'
  <2>1. pc' \in [Proc -> {"idle", "begun", "waiting", "locked", "checked"}]
    BY <1>1 DEF SessionsTyped, TakeLock, Moves
  <2>2. \A q \in Proc : pc'[q] = "idle" <=> req'[q] = NoRequest
    BY <1>1, <1>2 DEF SessionsTyped
  <2>3. \A k \in Key : \A q \in Proc : holder'[k] = q =>
          /\ pc'[q] \in {"locked", "checked"}
          /\ req'[q].op = "pay" /\ req'[q].invoice = k
    BY <1>1, <1>2, <1>4 DEF SessionsTyped
  <2> QED
    BY <1>1, <1>2, <1>4, <2>1, <2>2, <2>3 DEF SessionsTyped
<1>6. RowsKept(req[p])
  BY <1>2 DEF RowsKept, tables
<1>7. \A k \in Key : holder[k] \in Proc => holder'[k] = holder[k]
  BY <1>4, BillingAssumption
<1>8. Progress'
  BY <1>2, <1>4, <1>6, <1>7, OthersProgress DEF Progress, tables
<1> QED
  BY <1>5, <1>8

\* So does reading: what is read under a lock is what is in the table.
LEMMA ReadKeeps ==
  ASSUME IInv, NEW p \in Proc, Read(p)
  PROVE  SessionsTyped' /\ Progress'
<1>1. SessionsTyped /\ Progress /\ TablesTyped
  BY Split DEF Tables
<1> DEFINE r == req[p]
<1>2. /\ pc'[p] = "checked" /\ pc[p] \in {"begun", "locked"}
      /\ pc[p] = "begun" => r.op # "pay"
      /\ pc' \in [Proc -> {"idle", "begun", "waiting", "locked", "checked"}]
      /\ \A q \in Proc : q # p => pc'[q] = pc[q] /\ seen'[q] = seen[q]
      /\ UNCHANGED <<tables, req, holder>>
      /\ seen'[p] = Subject(r)
  BY <1>1 DEF Read, Moves, SessionsTyped
<1>3. r \in Request
  BY <1>2, Serving
<1>4. /\ r.op \in {"update", "create"} => r.matter \in Matter
      /\ r.op = "approve" => r.entry \in Key
      /\ r.op = "pay" => r.invoice \in Key
      /\ r.op \in {"open", "update", "create", "approve", "issue", "pay"}
  BY <1>3, Kinds DEF UpdateRequest, CreateRequest, ApproveRequest, PayRequest
<1>5. /\ r.op \in {"update", "create"} =>
           seen'[p] = matters[r.matter] /\ seen'[p] \in MatterType \cup {NoRow}
      /\ r.op = "approve" =>
           seen'[p] = entries[r.entry] /\ seen'[p] \in EntryType \cup {NoRow}
      /\ r.op = "pay" =>
           seen'[p] = invoices[r.invoice] /\ seen'[p] \in InvoiceType \cup {NoRow}
      /\ r.op \in {"open", "issue"} => seen'[p] = NoRow
  BY <1>1, <1>2, <1>4 DEF Subject, TablesTyped
<1>6. SessionsTyped'
  <2>1. seen' \in [Proc -> MatterType \cup EntryType \cup InvoiceType \cup {NoRow}]
    BY <1>1, <1>4, <1>5 DEF SessionsTyped, Read
  <2>2. \A q \in Proc : pc'[q] = "idle" <=> req'[q] = NoRequest
    BY <1>1, <1>2 DEF SessionsTyped
  <2>3. \A k \in Key : \A q \in Proc : holder'[k] = q =>
          /\ pc'[q] \in {"locked", "checked"}
          /\ req'[q].op = "pay" /\ req'[q].invoice = k
    BY <1>1, <1>2 DEF SessionsTyped
  <2> QED
    BY <1>1, <1>2, <2>1, <2>2, <2>3 DEF SessionsTyped
<1>7. Decided(p)'
  <2>1. Checks(r)
    BY DEF Read
  <2>2. r.op = "update" => MayUpdate(r)
    BY <2>1 DEF Checks
  <2>3. r.op = "create" => MayCreate(r)
    BY <2>1 DEF Checks
  <2>4. r.op = "approve" => MayApprove(r)
    BY <2>1 DEF Checks
  <2>5. r.op = "issue" => MayIssue(r)
    BY <2>1 DEF Checks
  <2>6. r.op = "pay" => MayPay(r)
    BY <2>1 DEF Checks
  <2> QED
    BY <1>2, <1>5, <2>2, <2>3, <2>4, <2>5, <2>6
    DEF Decided, tables, MayUpdate, MayCreate, MayApprove, MayIssue, MayPay
<1>8. RowsKept(r)
  BY <1>2 DEF RowsKept, tables
<1>9. pc[p] = "locked" => holder[r.invoice] = p
  BY <1>1, <1>2 DEF Progress
<1>10. Progress'
  <2>1. \A q \in Proc : q # p => req'[q] = req[q]
    BY <1>2
  <2> QED
    BY <1>2, <1>7, <1>8, <1>9, <2>1, OthersProgress DEF Progress, tables
<1> QED
  BY <1>6, <1>10


-------------------------------------------------------------------------------
\* The invariant holds of the empty tables.
LEMMA InitIInv ==
  ASSUME Init
  PROVE  IInv
<1>1. TypeOK
  BY BillingAssumption DEF Init, TypeOK
<1>2. Rows
  BY FS_EmptySet DEF Init, Rows
<1>3. Progress
  BY DEF Init, Progress
<1>4. BilledOnce /\ InvoiceAddsUp
  BY DEF Init, BilledOnce, InvoiceAddsUp
<1> QED
  BY <1>1, <1>2, <1>3, <1>4 DEF IInv

\* Every step preserves the inductive invariant.
LEMMA NextIInv ==
  ASSUME IInv, [Next]_vars
  PROVE  IInv'
<1>1. CASE UNCHANGED vars
  <2>1. Tables'
    BY <1>1, Split, SameTables DEF vars, tables
  <2>2. SessionsTyped'
    BY <1>1, Split DEF vars, SessionsTyped
  <2>3. Progress'
    BY <1>1, Split DEF vars, Progress, Decided
  <2> QED
    BY <2>1, <2>2, <2>3, SplitAfter
<1>2. ASSUME NEW p \in Proc, Begin(p) \/ LookUp(p) \/ TakeLock(p) \/ Read(p)
      PROVE  IInv'
  <2>1. UNCHANGED tables
    BY <1>2 DEF Begin, LookUp, TakeLock, Read
  <2>2. Tables'
    BY <2>1, Split, SameTables
  <2>3. SessionsTyped' /\ Progress'
    BY <1>2, BeginKeeps, LookUpKeeps, TakeLockKeeps, ReadKeeps
  <2> QED
    BY <2>2, <2>3, SplitAfter
<1>3. ASSUME NEW p \in Proc, Replay(p) \/ Fail(p)
      PROVE  IInv'
  <2>1. UNCHANGED tables /\ Ends(p) /\ pc[p] # "idle"
    BY <1>3 DEF Replay, Fail
  <2>2. Tables'
    BY <2>1, Split, SameTables
  <2>3. RowsKept(req[p])
    BY <2>1 DEF RowsKept, tables
  <2>4. SessionsTyped' /\ Progress'
    BY <2>1, <2>3, EndingKeeps DEF tables
  <2> QED
    BY <2>2, <2>4, SplitAfter
<1>4. ASSUME NEW p \in Proc, Commit(p)
      PROVE  IInv'
  <2>1. Tables' /\ RowsKept(req[p])
    BY <1>4, CommitKeeps
  <2>2. Ends(p) /\ pc[p] = "checked"
    BY <1>4 DEF Commit
  <2>3. SessionsTyped /\ Progress /\ Tables
    BY Split
  <2>4. ASSUME NEW k \in Key, holder[k] \in Proc, holder[k] # p, invoices[k] # NoRow
        PROVE  invoices'[k] = invoices[k]
    <3>1. ~(req[p].op = "pay" /\ req[p].invoice = k)
      BY <2>2, <2>3, <2>4 DEF Progress
    <3> QED
      BY <2>1, <2>4, <3>1 DEF RowsKept
  <2>5. SessionsTyped' /\ Progress'
    BY <2>1, <2>2, <2>4, EndingKeeps
  <2> QED
    BY <2>1, <2>5, SplitAfter
<1> QED
  BY <1>1, <1>2, <1>3, <1>4 DEF Next


-------------------------------------------------------------------------------
\* The invariant always holds.
LEMMA Invariance == Spec => []IInv
BY InitIInv, NextIInv, PTL DEF Spec

\* The tables and the transactions of billing are always well typed, and a
\* lock is held by the payment that works under it (TypeOK).
THEOREM BillingTypes == Spec => []TypeOK
<1>1. IInv => TypeOK
  BY DEF IInv
<1> QED
  BY <1>1, Invariance, PTL

\* No time entry is ever on two invoice lines, and one that counts as invoiced
\* is on exactly one, whatever invoices and approvals race for it (BilledOnce).
THEOREM NoTimeBilledTwice == Spec => []BilledOnce
<1>1. IInv => BilledOnce
  BY DEF IInv
<1> QED
  BY <1>1, Invariance, PTL

\* The columns of an invoice always agree with its lines and its payments, and
\* no race of payments overpays it (InvoiceAddsUp).
THEOREM InvoicesAddUp == Spec => []InvoiceAddsUp
<1>1. IInv => InvoiceAddsUp
  BY DEF IInv
<1> QED
  BY <1>1, Invariance, PTL

\* The rows of the entries after a commit.
LEMMA EntrySteps ==
  ASSUME IInv, NEW p \in Proc, Commit(p), NEW k \in Key
  PROVE  \/ entries'[k] = entries[k]
         \/ /\ req[p].op = "create" /\ k = req[p].key
            /\ entries[k] = NoRow /\ entries'[k] # NoRow
            /\ entries'[k].matter = req[p].matter
            /\ entries'[k].approvedAt = Never /\ entries'[k].invoicedAt = Never
         \/ /\ req[p].op = "approve" /\ k = req[p].entry
            /\ entries[k] # NoRow
            /\ entries'[k].approvedAt = req[p].key
            /\ entries'[k].invoicedAt = entries[k].invoicedAt
         \/ /\ req[p].op = "issue" /\ k \in req[p].entries
            /\ entries[k] # NoRow /\ Billable(k)
            /\ entries'[k].approvedAt = entries[k].approvedAt
            /\ entries'[k].invoicedAt = req[p].key
<1> DEFINE r == req[p]
<1>1. r \in Request /\ Decided(p) /\ Tables /\ Constraints(r)
  BY Serving, Split DEF Commit, Progress
<1>2. entries \in [Key -> EntryType \cup {NoRow}]
  BY <1>1 DEF Tables, TablesTyped
<1>3. CASE Create(r)
  <2>1. r \in CreateRequest
    BY <1>1, <1>3, Kinds DEF Create
  <2>2. idem' = idem \cup {r} /\ ~Recorded(r)
    BY <1>1, <1>3 DEF Commit, Effect, Keyed, Create, Constraints
  <2>3. entries[r.key] = NoRow /\ entries'[r.key] # NoRow
    BY <1>1, <1>3, <2>2, CreateKeeps
  <2> QED
    BY <1>2, <1>3, <2>1, <2>3 DEF Create, CreateRequest
<1>4. CASE Approve(p, r)
  <2>1. r \in ApproveRequest
    BY <1>1, <1>4, Kinds DEF Approve
  <2>2. entries[r.entry] # NoRow /\ entries[r.entry] \in EntryType
    BY <1>1, <1>2, <1>4, <2>1 DEF Approve, Decided, ApproveRequest
  <2> QED
    BY <1>2, <1>4, <2>1, <2>2 DEF Approve, ApproveRequest, EntryType
<1>5. CASE Issue(r)
  <2>1. CASE k \in r.entries
    <3>1. entries[k] # NoRow /\ Billable(k)
      BY <1>1, <1>5, <2>1 DEF Issue, Decided, Constraints
    <3>2. entries[k] \in EntryType
      BY <1>2, <3>1
    <3>3. entries'[k] = [entries[k] EXCEPT !.invoicedAt = r.key]
      BY <1>5, <2>1 DEF Issue
    <3> QED
      BY <1>5, <2>1, <3>1, <3>2, <3>3 DEF Issue, EntryType
  <2>2. CASE k \notin r.entries
    BY <1>5, <2>2 DEF Issue
  <2> QED
    BY <2>1, <2>2
<1>6. CASE Open(r) \/ Update(r) \/ Pay(p, r)
  BY <1>6 DEF Open, Update, Pay
<1> QED
  BY <1>3, <1>4, <1>5, <1>6 DEF Commit, Effect

\* No step replaces an approval its transaction could have seen.
LEMMA ReapprovalStep ==
  ASSUME IInv, [Next]_vars
  PROVE  [ReapprovalOverlaps]_vars
<1> SUFFICES ASSUME Next PROVE ReapprovalOverlaps
  OBVIOUS
<1>1. PICK p \in Proc : \/ Begin(p) \/ Replay(p) \/ LookUp(p) \/ TakeLock(p)
                        \/ Read(p) \/ Fail(p) \/ Commit(p)
  BY DEF Next
<1>2. CASE ~ Commit(p)
  <2>1. UNCHANGED entries
    BY <1>1, <1>2 DEF Begin, Replay, LookUp, TakeLock, Read, Fail, tables
  <2> QED
    BY <2>1 DEF ReapprovalOverlaps
<1>3. CASE Commit(p)
  <2> SUFFICES ASSUME NEW k \in Key, entries[k] # NoRow
               PROVE  /\ entries'[k] # NoRow
                      /\ entries[k].approvedAt \notin {Never, entries'[k].approvedAt} =>
                           \E q \in Proc :
                             /\ pc[q] = "checked" /\ pc'[q] = "idle"
                             /\ req[q].op = "approve" /\ req[q].entry = k
                             /\ seen[q].approvedAt = Never
    BY DEF ReapprovalOverlaps
  <2>1. entries'[k] # NoRow
    BY <1>3, CommitKeeps DEF RowsKept
  <2>2. pc[p] = "checked" /\ pc'[p] = "idle" /\ Decided(p)
    BY <1>3, Split, EndsKeeps DEF Commit, Progress
  <2>3. CASE req[p].op = "approve" /\ k = req[p].entry
    BY <2>1, <2>2, <2>3 DEF Decided
  <2>4. CASE ~(req[p].op = "approve" /\ k = req[p].entry)
    BY <1>3, <2>1, <2>4, EntrySteps
  <2> QED
    BY <2>3, <2>4
<1> QED
  BY <1>2, <1>3

\* An approval is replaced only by one that overlapped it (ApprovalsStand).
THEOREM ApprovalsHold == Spec => ApprovalsStand
BY Invariance, ReapprovalStep, PTL DEF Spec, ApprovalsStand

\* No step removes a hold its transaction has seen, or records time on a
\* matter it saw closed.
LEMMA MatterStep ==
  ASSUME IInv, [Next]_vars
  PROVE  [MatterOverlaps]_vars
<1> SUFFICES ASSUME Next PROVE MatterOverlaps
  OBVIOUS
<1>1. PICK p \in Proc : \/ Begin(p) \/ Replay(p) \/ LookUp(p) \/ TakeLock(p)
                        \/ Read(p) \/ Fail(p) \/ Commit(p)
  BY DEF Next
<1>2. CASE ~ Commit(p)
  <2>1. UNCHANGED <<entries, matters>>
    BY <1>1, <1>2 DEF Begin, Replay, LookUp, TakeLock, Read, Fail, tables
  <2> QED
    BY <2>1 DEF MatterOverlaps
<1>3. CASE Commit(p)
  <2> DEFINE r == req[p]
  <2>1. pc[p] = "checked" /\ Decided(p) /\ Tables /\ Constraints(r) /\ r \in Request
    BY <1>3, Split, Serving DEF Commit, Progress
  <2>2. ASSUME NEW m \in Matter, matters[m] # NoRow, matters[m].hold, ~matters'[m].hold
        PROVE  \E q \in Proc :
                 /\ pc[q] = "checked" /\ req[q].op = "update" /\ req[q].matter = m
                 /\ ~seen[q].hold
    <3>1. matters \in [Matter -> MatterType \cup {NoRow}]
      BY <2>1 DEF Tables, TablesTyped
    <3>2. CASE Open(r)
      <4>1. r.matter # m
        BY <2>1, <2>2, <3>2 DEF Constraints, Open
      <4> QED
        BY <2>2, <3>1, <3>2, <4>1 DEF Open
    <3>3. CASE Update(r)
      <4>1. r \in UpdateRequest
        BY <2>1, <3>3, Kinds DEF Update
      <4>2. r.matter = m
        BY <2>2, <3>1, <3>3 DEF Update
      <4>3. matters'[m].hold = Named(r.hold, matters[m].hold)
        BY <2>2, <3>1, <3>3, <4>2 DEF Update, MatterType
      <4>4. r.hold = FALSE
        BY <2>2, <4>1, <4>3 DEF Named, UpdateRequest
      <4>5. ~seen[p].hold
        BY <2>1, <3>3, <4>4 DEF Decided, Update
      <4> QED
        BY <2>1, <3>3, <4>2, <4>5 DEF Update
    <3>4. CASE UNCHANGED matters
      BY <2>2, <3>4
    <3> QED
      BY <1>3, <3>2, <3>3, <3>4 DEF Commit, Effect, Create, Approve, Issue, Pay
  <2>3. ASSUME NEW k \in Key, entries[k] # entries'[k], entries[k] = NoRow
        PROVE  /\ pc[p] = "checked" /\ r.op = "create" /\ r.key = k
               /\ seen[p].status = "ACTIVE"
    <3>1. r.op = "create" /\ r.key = k
      BY <1>3, <2>3, EntrySteps
    <3> QED
      BY <2>1, <3>1 DEF Decided
  <2> QED
    BY <2>2, <2>3 DEF MatterOverlaps
<1> QED
  BY <1>2, <1>3

\* Legal holds and the status of matters are overridden only by requests that
\* read the matter before they were set (MattersRespected).
THEOREM MattersHold == Spec => MattersRespected
BY Invariance, MatterStep, PTL DEF Spec, MattersRespected


-------------------------------------------------------------------------------
\* Entries in S move from one stage to the next and no other does.
Advanced(S, from, to) ==
  \A k \in Key : IF k \in S THEN Stage(k) = from /\ Stage(k)' = to ELSE Stage(k)' = Stage(k)

\* Empty tables are an empty account.
LEMMA InitReceivables == Init => Account!Init
BY DEF Init, Account!Init, Stage, Due

\* A step that changes no stage and nothing due is a stutter of the account.
LEMMA StutterReceivables ==
  ASSUME \A k \in Key : Stage(k)' = Stage(k), \A k \in Key : Due(k)' = Due(k)
  PROVE  UNCHANGED <<[k \in Key |-> Stage(k)], [k \in Key |-> Due(k)]>>
OBVIOUS

\* Entries that advance do so in the account.
LEMMA AdvanceReceivables ==
  ASSUME NEW S \in SUBSET Key, NEW from, NEW to, Advanced(S, from, to)
  PROVE  Account!Advance(S, from, to)
BY DEF Advanced, Account!Advance

\* So does what is due of one invoice.
LEMMA SetsReceivables ==
  ASSUME NEW i \in Key, Due(i)' \in Nat, \A k \in Key : k # i => Due(k)' = Due(k)
  PROVE  Account!Sets(i)
BY DEF Account!Sets

\* Every commit is a step of the account or leaves it alone.
LEMMA CommitReceivables ==
  ASSUME IInv, NEW p \in Proc, Commit(p), NEW r, r = req[p]
  PROVE  Account!Next \/ UNCHANGED <<[k \in Key |-> Stage(k)], [k \in Key |-> Due(k)]>>
<1>1. r \in Request /\ Decided(p) /\ Tables /\ Constraints(r)
  BY Serving, Split DEF Commit, Progress
<1>2. CASE Open(r) \/ Update(r)
  <2>1. UNCHANGED <<entries, invoices>>
    BY <1>2 DEF Open, Update
  <2>2. \A k \in Key : Stage(k)' = Stage(k) /\ Due(k)' = Due(k)
    BY <2>1 DEF Stage, Due
  <2> QED
    BY <2>2, StutterReceivables
<1>3. CASE Create(r)
  <2>1. r.key \in Key /\ r.op = "create"
    BY <1>1, <1>3, Kinds DEF Create, CreateRequest
  <2>2. idem' = idem \cup {r} /\ ~Recorded(r)
    BY <1>1, <1>3 DEF Commit, Effect, Keyed, Create, Constraints
  <2>3. /\ entries[r.key] = NoRow /\ entries'[r.key] # NoRow
        /\ entries'[r.key].approvedAt = Never /\ entries'[r.key].invoicedAt = Never
    <3>1. entries[r.key] = NoRow /\ entries'[r.key] # NoRow
      BY <1>1, <1>3, <2>2, CreateKeeps
    <3> QED
      BY <2>1, <3>1, EntrySteps
  <2>4. Advanced({r.key}, "none", "recorded")
    BY <2>1, <2>3, EntrySteps DEF Advanced, Stage
  <2>5. \A k \in Key : Due(k)' = Due(k)
    BY <1>3 DEF Create, Due
  <2>6. Account!Record(r.key)
    BY <2>1, <2>4, <2>5, AdvanceReceivables DEF Account!Record
  <2> QED
    BY <2>1, <2>6 DEF Account!Next
<1>4. CASE Approve(p, r)
  <2>1. r.entry \in Key /\ r.op = "approve" /\ r.key \in Key
    BY <1>1, <1>4, Kinds DEF Approve, ApproveRequest
  <2>2. \A k \in Key : k # r.entry => entries'[k] = entries[k]
    BY <2>1, EntrySteps
  <2>3. /\ entries[r.entry] # NoRow /\ entries'[r.entry] # NoRow
        /\ entries'[r.entry].approvedAt # Never
        /\ entries'[r.entry].invoicedAt = entries[r.entry].invoicedAt
    <3>1. entries[r.entry] # NoRow /\ entries'[r.entry] # NoRow
      BY <1>1, <2>1, CommitKeeps DEF Decided, RowsKept
    <3>2. entries[r.entry] \in EntryType
      BY <1>1, <2>1, <3>1 DEF Tables, TablesTyped
    <3>3. entries'[r.entry] = [entries[r.entry] EXCEPT !.approvedAt = r.key]
      BY <1>1, <1>4, <2>1 DEF Approve, Tables, TablesTyped
    <3> QED
      BY <2>1, <3>1, <3>2, <3>3, BillingAssumption DEF EntryType
  <2>4. \A k \in Key : Due(k)' = Due(k)
    BY <1>4 DEF Approve, Due
  <2>5. CASE Stage(r.entry) = "recorded"
    <3>1. Advanced({r.entry}, "recorded", "approved")
      BY <2>1, <2>2, <2>3, <2>5 DEF Advanced, Stage
    <3>2. Account!Approve(r.entry)
      BY <2>1, <2>4, <3>1, AdvanceReceivables DEF Account!Approve
    <3> QED
      BY <2>1, <3>2 DEF Account!Next
  <2>6. CASE Stage(r.entry) # "recorded"
    <3>1. \A k \in Key : Stage(k)' = Stage(k)
      BY <2>2, <2>3, <2>6 DEF Stage
    <3> QED
      BY <2>4, <3>1, StutterReceivables
  <2> QED
    BY <2>5, <2>6
<1>5. CASE Issue(r)
  <2>1. /\ r.op = "issue" /\ r.key \in Key /\ r.entries \in SUBSET Key /\ r.entries # {}
    BY <1>1, <1>5, Kinds DEF Issue, IssueRequest
  <2>2. /\ idem' = idem \cup {r}
        /\ \A k \in r.entries :
             entries[k] # NoRow /\ entries[k].matter = r.matter /\ entries[k].units % 60 = 0
    BY <1>1, <2>1, <1>5 DEF Commit, Effect, Keyed, Decided
  <2>3. /\ invoices[r.key] = NoRow /\ invoices'[r.key] # NoRow
        /\ invoices'[r.key].paid = 0 /\ invoices'[r.key].amount \in Nat
    BY <1>1, <1>5, <2>2, IssueKeeps
  <2>4. \A k \in Key : k # r.key => invoices'[k] = invoices[k]
    BY <1>1, <1>5, <2>1 DEF Issue, Tables, TablesTyped
  <2>5. \A k \in r.entries :
          /\ entries[k] # NoRow /\ Billable(k)
          /\ entries'[k] # NoRow /\ entries'[k].invoicedAt # Never
    <3> SUFFICES ASSUME NEW k \in r.entries
                 PROVE  /\ entries[k] # NoRow /\ Billable(k)
                        /\ entries'[k] # NoRow /\ entries'[k].invoicedAt # Never
      OBVIOUS
    <3>1. entries[k] # NoRow /\ Billable(k) /\ k \in Key
      BY <1>1, <2>1, <2>2 DEF Constraints
    <3>2. entries[k] \in EntryType
      BY <1>1, <3>1 DEF Tables, TablesTyped
    <3>3. entries'[k] = [entries[k] EXCEPT !.invoicedAt = r.key]
      BY <1>5, <3>1 DEF Issue
    <3>4. entries'[k] # NoRow
      BY <3>1, CommitKeeps DEF RowsKept
    <3> QED
      BY <2>1, <3>1, <3>2, <3>3, <3>4, BillingAssumption DEF EntryType
  <2>6. \A k \in Key : k \notin r.entries => entries'[k] = entries[k]
    BY <1>5 DEF Issue
  <2>7. Advanced(r.entries, "approved", "billed")
    BY <2>1, <2>5, <2>6 DEF Advanced, Stage, Billable
  <2>8. /\ Due(r.key) = NoRow /\ Due(r.key)' \in Nat
        /\ \A k \in Key : k # r.key => Due(k)' = Due(k)
    BY <2>3, <2>4 DEF Due
  <2>9. Account!Sets(r.key)
    BY <2>1, <2>8, SetsReceivables
  <2>10. Account!Bill(r.key, r.entries)
    BY <2>1, <2>7, <2>8, <2>9, AdvanceReceivables DEF Account!Bill
  <2>11. r.entries \in SUBSET {e \in Key : [k \in Key |-> Stage(k)][e] = "approved"}
    BY <2>1, <2>7 DEF Advanced
  <2> QED
    BY <2>1, <2>10, <2>11 DEF Account!Next
<1>6. CASE Pay(p, r)
  <2>1. r \in PayRequest /\ r.op = "pay"
    BY <1>1, <1>6, Kinds DEF Pay
  <2>2. /\ idem' = idem \cup {r}
        /\ invoices[r.invoice] # NoRow /\ seen[p] = invoices[r.invoice]
        /\ r.cents <= seen[p].amount - seen[p].paid
    BY <1>1, <2>1, <1>6 DEF Commit, Effect, Keyed, Decided
  <2>3. /\ invoices[r.invoice] \in InvoiceType
        /\ \A k \in Key : k # r.invoice => invoices'[k] = invoices[k]
        /\ invoices'[r.invoice] # NoRow
        /\ invoices'[r.invoice].amount = invoices[r.invoice].amount
        /\ invoices'[r.invoice].paid = invoices[r.invoice].paid + r.cents
    BY <1>1, <1>6, <2>2, PayKeeps
  <2>4. r.invoice \in Key /\ r.cents \in Nat /\ r.cents > 0
    BY <2>1 DEF PayRequest
  <2>5. /\ Due(r.invoice) \in Nat /\ Due(r.invoice)' \in Nat
        /\ Due(r.invoice)' < Due(r.invoice)
        /\ \A k \in Key : k # r.invoice => Due(k)' = Due(k)
    BY <2>2, <2>3, <2>4 DEF Due, InvoiceType
  <2>6. \A k \in Key : Stage(k)' = Stage(k)
    BY <1>6 DEF Pay, Stage
  <2>7. Account!Sets(r.invoice)
    BY <2>4, <2>5, SetsReceivables
  <2>8. Account!Settle(r.invoice)
    BY <2>4, <2>5, <2>6, <2>7, BillingAssumption DEF Account!Settle
  <2> QED
    BY <2>4, <2>8 DEF Account!Next
<1> QED
  BY <1>2, <1>3, <1>4, <1>5, <1>6 DEF Commit, Effect

\* So is every step.
LEMMA NextReceivables ==
  ASSUME IInv, [Next]_vars
  PROVE  Account!Next \/ UNCHANGED <<[k \in Key |-> Stage(k)], [k \in Key |-> Due(k)]>>
<1>1. CASE UNCHANGED <<entries, invoices>>
  <2>1. \A k \in Key : Stage(k)' = Stage(k) /\ Due(k)' = Due(k)
    BY <1>1 DEF Stage, Due
  <2> QED
    BY <2>1, StutterReceivables
<1>2. CASE \E p \in Proc : Commit(p)
  BY <1>2, CommitReceivables
<1> QED
  BY <1>1, <1>2 DEF Next, vars, tables, Begin, Replay, LookUp, TakeLock, Read, Fail

\* Billing implements Receivables (ImplementsReceivables).
THEOREM BillingImplementsReceivables == Spec => ImplementsReceivables
BY Invariance, InitReceivables, NextReceivables, PTL
   DEF Spec, ImplementsReceivables, Account!Spec

\* What Receivables makes of a step holds for the tables: billed time stays
\* billed and what an invoice leaves to pay never rises.
LEMMA AccountSettles ==
  ASSUME IInv, [Next]_vars
  PROVE  Account!OnlySettles
<1> DEFINE stage == [k \in Key |-> Stage(k)]
           due == [k \in Key |-> Due(k)]
<1>1. \A k \in Key : Due(k) # NoRow => Due(k) \in Int
  <2>1. \A k \in Key : invoices[k] # NoRow => invoices[k] \in InvoiceType
    BY Split DEF Tables, TablesTyped
  <2> QED
    BY <2>1 DEF Due, InvoiceType
<1>2. NoRow \notin Nat
  BY BillingAssumption
<1>3. CASE UNCHANGED <<stage, due>>
  <2>1. \A k \in Key : Stage(k)' = Stage(k) /\ Due(k)' = Due(k)
    <3>1. \A k \in Key : stage[k] = Stage(k) /\ due[k] = Due(k)
      OBVIOUS
    <3>2. \A k \in Key : stage'[k] = Stage(k)' /\ due'[k] = Due(k)'
      OBVIOUS
    <3> HIDE DEF stage, due
    <3> QED
      BY <1>3, <3>1, <3>2
  <2> QED
    BY <1>1, <2>1 DEF Account!OnlySettles
<1>4. ASSUME NEW S \in SUBSET Key, NEW from, NEW to,
             Account!Advance(S, from, to), from # "billed"
      PROVE  \A k \in Key : Stage(k) = "billed" => Stage(k)' = "billed"
  BY <1>4 DEF Account!Advance
<1>5. CASE \E k \in Key : Account!Record(k) \/ Account!Approve(k)
  <2>1. \A k \in Key : Stage(k) = "billed" => Stage(k)' = "billed"
    BY <1>4, <1>5 DEF Account!Record, Account!Approve
  <2>2. \A k \in Key : Due(k)' = Due(k)
    <3>1. UNCHANGED due
      BY <1>5 DEF Account!Record, Account!Approve
    <3>2. \A k \in Key : due[k] = Due(k) /\ due'[k] = Due(k)'
      OBVIOUS
    <3> HIDE DEF due
    <3> QED
      BY <3>1, <3>2
  <2> QED
    BY <1>1, <2>1, <2>2 DEF Account!OnlySettles
<1>6. ASSUME NEW i \in Key, Account!Sets(i), Due(i) # NoRow => Due(i)' <= Due(i)
      PROVE  \A k \in Key : Due(k) # NoRow => Due(k)' # NoRow /\ Due(k)' <= Due(k)
  <2>1. Due(i)' \in Nat /\ \A k \in Key : k # i => Due(k)' = Due(k)
    BY <1>6 DEF Account!Sets
  <2> QED
    BY <1>1, <1>2, <1>6, <2>1
<1>7. ASSUME NEW i \in Key, NEW S \in SUBSET Key, Account!Bill(i, S)
      PROVE  Account!OnlySettles
  <2>1. Due(i) = NoRow
    BY <1>7 DEF Account!Bill
  <2>2. Account!Advance(S, "approved", "billed") /\ Account!Sets(i)
    BY <1>7 DEF Account!Bill
  <2> QED
    BY <1>4, <1>6, <2>1, <2>2 DEF Account!OnlySettles
<1>8. ASSUME NEW i \in Key, Account!Settle(i)
      PROVE  Account!OnlySettles
  <2>1. Account!Sets(i) /\ Due(i)' < Due(i)
    BY <1>8 DEF Account!Settle
  <2>2. Due(i) # NoRow /\ Due(i)' \in Nat
    BY <1>8 DEF Account!Settle, Account!Sets
  <2>3. \A k \in Key : Stage(k)' = Stage(k)
    <3>1. UNCHANGED stage
      BY <1>8 DEF Account!Settle
    <3>2. \A k \in Key : stage[k] = Stage(k) /\ stage'[k] = Stage(k)'
      OBVIOUS
    <3> HIDE DEF stage
    <3> QED
      BY <3>1, <3>2
  <2> QED
    BY <1>1, <1>6, <2>1, <2>2, <2>3 DEF Account!OnlySettles
<1> QED
  BY <1>3, <1>5, <1>7, <1>8, NextReceivables DEF Account!Next

\* However transactions interleave, billed time never becomes billable again
\* and what an issued invoice leaves to pay never rises.
THEOREM AccountsOnlySettle == Spec => [][Account!OnlySettles]_vars
BY Invariance, AccountSettles, PTL DEF Spec
===============================================================================
